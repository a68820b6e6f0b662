----------------------- MODULE DistributedCacheProofs -----------------------
(***************************************************************************)
(* Proofs about the cache in its three modes, for any nodes, clients and   *)
(* ring and however many writes and membership changes.                    *)
(*                                                                         *)
(* Partitioned: FreshPerOwner speaks of the last read; the invariant says  *)
(* why any read is fresh.  A request still under way is for a write that   *)
(* has not ended, so that it supersedes whatever it overwrites; and a copy *)
(* was not superseded by an ended write at the same node.                  *)
(*                                                                         *)
(* Replicated: ReplicasSettle speaks of the moments when nothing is under  *)
(* way; the invariant says in every state which node has the newest write, *)
(* is blamed, or is still to be reached by a request.                      *)
(*                                                                         *)
(* NearCache: OwnWritesSeen speaks of the last read; the invariant covers  *)
(* the three places a read can get its value from: the owner, the near     *)
(* copy, and a value fetched from the owner that is about to become one.   *)
(***************************************************************************)
EXTENDS DistributedCache, TLAPS

\* More than the default of 5 seconds, so that a slow machine does not matter.
USE SMTT(30), ZenonT(30)

Writes == [op : {"set", "delete", "incr"}, node : Nodes, targets : SUBSET Nodes, after : SUBSET Nat]

Calls == {Over} \cup [pc : {"write"}, write : Nat] \cup [pc : {"read"}, seen : SUBSET Nat]
Events == {NoEvent} \cup [type : {"join", "leave"}, node : Nodes]

RingInv == ring \in [Nodes -> SUBSET Nodes] /\ event \in [Nodes -> Events]

\* What a write was made after had ended; no write was made after itself.
WriteInv ==
  /\ writes \in Seq(Writes)
  /\ ended \subseteq DOMAIN writes
  /\ \A x \in DOMAIN writes : writes[x].after \subseteq ended /\ x \notin writes[x].after

\* There is one request for a write, to its owner, and none once it has ended.
RequestInv ==
  /\ \A m \in net : m.op # "get" =>
       m.write \in DOMAIN writes \ ended /\ writes[m.write].targets = {m.to}
  /\ \A m, k \in net : m.op # "get" /\ k.op # "get" /\ m.write = k.write => m = k

\* A request to read belongs to a call that waits, which began in the past.
ReadInv ==
  /\ call \in [Clients -> Calls]
  /\ \A c \in Clients : call[c].pc = "read" => call[c].seen \subseteq ended
  /\ \A m \in net : m.op = "get" => m.to \in Nodes /\ m.by \in Clients /\ call[m.by].pc = "read"
  /\ \A m, k \in net : m.op = "get" /\ k.op = "get" /\ m.by = k.by => m = k

\* No copy was superseded at the node that has it.
CopyInv ==
  /\ copy \in [Nodes -> Nat \cup {NoValue}]
  /\ \A n \in Nodes : \A x \in ended : n \in writes[x].targets => copy[n] \notin writes[x].after

DataInv == RingInv /\ WriteInv /\ RequestInv /\ ReadInv /\ CopyInv
DInv == mode = "Partitioned" => DataInv

LEMMA DataInvInit == Init => DInv /\ FreshPerOwner
<1> SUFFICES ASSUME Init PROVE DataInv /\ FreshPerOwner
  BY Zenon DEF DInv
<1>1. RingInv
  BY DEF Init, MemberInit, RingInv, Events
<1>2. WriteInv
  BY DEF Init, DataInit, WriteInv
<1>3. RequestInv /\ ReadInv /\ CopyInv
  BY Zenon DEF Init, DataInit, RequestInv, ReadInv, CopyInv, Over, Calls
<1>4. FreshPerOwner
  BY Zenon DEF Init, DataInit, FreshPerOwner, NoRead, Read
<1> QED BY <1>1, <1>2, <1>3, <1>4, Zenon DEF DataInv

LEMMA OwnerType ==
  ASSUME RingInv, NEW n \in Nodes
  PROVE  ownerAddr(n) \in Nodes
  BY OwnerAssumption, Zenon DEF RingInv, ownerAddr

\* The callbacks, starts and stops keep the rings sets of nodes.
LEMMA RingInvNext ==
  ASSUME RingInv,
         MemberNext \/ (\E n \in Nodes : Start(n)) \/ (\E n \in Nodes : Crash(n))
                    \/ UNCHANGED memberVars
  PROVE  RingInv'
<1> USE DEF RingInv, Events
<1>1. ASSUME NEW n \in Nodes, UpdateRing(n) PROVE RingInv'
  BY <1>1, Zenon DEF UpdateRing, NoEvent
<1>2. ASSUME NEW n \in Nodes, Shutdown(n) PROVE RingInv'
  BY <1>2, Zenon DEF Shutdown
<1>3. ASSUME NEW n \in Nodes, NEW m \in Nodes, NotifyJoin(n, m) PROVE RingInv'
  BY <1>3, Zenon DEF NotifyJoin
<1>4. ASSUME NEW n \in Nodes, NEW m \in Nodes, NotifyLeave(n, m) PROVE RingInv'
  BY <1>4, Zenon DEF NotifyLeave
<1>5. ASSUME NEW n \in Nodes, Start(n) PROVE RingInv'
  BY <1>5, Zenon DEF Start
<1>6. ASSUME NEW n \in Nodes, Crash(n) PROVE RingInv'
  BY <1>6, Zenon DEF Crash
<1>7. ASSUME UNCHANGED memberVars PROVE RingInv'
  BY <1>7, Zenon DEF memberVars
<1> QED BY <1>1, <1>2, <1>3, <1>4, <1>5, <1>6, <1>7, Zenon DEF MemberNext

-----------------------------------------------------------------------------
\* Calls

\* A new write gets the next number.
LEMMA NewWriteEffect ==
  ASSUME WriteInv, NEW c \in Clients, NEW op \in {"set", "delete", "incr"},
         NEW targets \in SUBSET Nodes, NewWrite(c, op, targets)
  PROVE  /\ Len(writes) + 1 \in Nat \ DOMAIN writes
         /\ writes' \in Seq(Writes)
         /\ DOMAIN writes' = DOMAIN writes \cup {Len(writes) + 1}
         /\ \A x \in DOMAIN writes : writes'[x] = writes[x]
         /\ writes'[Len(writes) + 1].targets = targets
         /\ writes'[Len(writes) + 1].after = ended
         /\ writes'[Len(writes) + 1].op = op /\ writes'[Len(writes) + 1].node = Home[c]
<1>1. PICK r : r = [op |-> op, node |-> Home[c], targets |-> targets, after |-> ended]
  BY Zenon
<1>2. writes \in Seq(Writes) /\ ended \subseteq Nat /\ writes' = Append(writes, r)
  BY <1>1 DEF WriteInv, NewWrite
<1>3. r \in Writes /\ r.targets = targets /\ r.after = ended /\ r.op = op /\ r.node = Home[c]
  BY <1>1, <1>2, HomeAssumption, Zenon DEF Writes
<1> QED BY <1>2, <1>3

LEMMA OwnerWriteKeeps ==
  ASSUME DataInv, NEW c \in Clients, NEW op \in {"set", "delete", "incr"}, OwnerWrite(c, op)
  PROVE  DataInv'
<1> DEFINE n == Home[c]
           o == ownerAddr(n)
           w == Len(writes) + 1
<1>1. n \in Nodes /\ o \in Nodes /\ call[c] = Over /\ c \in Clients
  BY HomeAssumption, OwnerType, Zenon DEF DataInv, OwnerWrite, CanCall
<1>2. /\ w \in Nat \ DOMAIN writes /\ writes' \in Seq(Writes)
      /\ DOMAIN writes' = DOMAIN writes \cup {w}
      /\ \A x \in DOMAIN writes : writes'[x] = writes[x]
      /\ writes'[w].targets = {o} /\ writes'[w].after = ended
  <2>1. NewWrite(c, op, {o}) /\ {o} \in SUBSET Nodes
    BY <1>1, Zenon DEF OwnerWrite
  <2> QED BY <2>1, NewWriteEffect, ZenonT(30) DEF DataInv
<1>3. RingInv' /\ ended \subseteq DOMAIN writes /\ w \notin ended
  BY <1>2, RingInvNext, Zenon DEF DataInv, OwnerWrite, WriteInv
<1>4. CASE o = n
  <2>1. /\ copy' = [copy EXCEPT ![n] = Stored(op, w)] /\ ended' = ended \cup {w}
        /\ net' = net /\ call' = call
    BY <1>4, Zenon DEF OwnerWrite
  <2>2. WriteInv'
    BY <1>2, <1>3, <2>1, Zenon DEF DataInv, WriteInv
  <2>3. RequestInv'
    BY <1>2, <1>3, <2>1, Zenon DEF DataInv, RequestInv
  <2>4. ReadInv'
    BY <2>1, Zenon DEF DataInv, ReadInv
  <2>5. CopyInv'
    <3>1. Stored(op, w) \in {NoValue, w}
      BY Zenon DEF Stored
    <3>2. copy' \in [Nodes -> Nat \cup {NoValue}] /\ copy'[n] \in {NoValue, w}
          /\ \A k \in Nodes \ {n} : copy'[k] = copy[k]
      BY <1>1, <1>2, <2>1, <3>1, Zenon DEF DataInv, CopyInv
    <3>3. NoValue \notin ended /\ \A x \in ended : NoValue \notin writes[x].after /\ w \notin writes[x].after
      BY <1>2, <1>3, NoValueAssumption DEF DataInv, WriteInv
    <3> QED BY <1>2, <1>3, <1>4, <2>1, <3>2, <3>3 DEF DataInv, CopyInv
  <2> QED BY <1>3, <2>2, <2>3, <2>4, <2>5, Zenon DEF DataInv
<1>5. CASE o # n
  <2>1. /\ net' = net \cup {Request(op, o, w, c)} /\ copy' = copy /\ ended' = ended
        /\ call' = [call EXCEPT ![c] = [pc |-> "write", write |-> w]]
    BY <1>5, Zenon DEF OwnerWrite
  <2>2. PICK r : r = Request(op, o, w, c)
    BY Zenon
  <2>3. r.op # "get" /\ r.to = o /\ r.write = w
    BY <2>2, Zenon DEF Request
  <2>4. WriteInv'
    BY <1>2, <1>3, <2>1, Zenon DEF DataInv, WriteInv
  <2>5. RequestInv'
    BY <1>2, <1>3, <2>1, <2>2, <2>3 DEF DataInv, RequestInv
  <2>6. ReadInv'
    <3>1. call' \in [Clients -> Calls] /\ call'[c].pc = "write"
          /\ \A d \in Clients \ {c} : call'[d] = call[d]
      BY <1>1, <1>2, <2>1, Zenon DEF DataInv, ReadInv, Calls
    <3>2. call[c].pc = "over"
      BY <1>1 DEF Over
    <3> QED BY <2>1, <2>2, <2>3, <3>1, <3>2 DEF DataInv, ReadInv
  <2>7. CopyInv'
    BY <1>2, <1>3, <2>1, Zenon DEF DataInv, CopyInv
  <2> QED BY <1>3, <2>4, <2>5, <2>6, <2>7 DEF DataInv
<1> QED BY <1>4, <1>5, Zenon

\* A local read: the invariant makes it fresh.
LEMMA FreshRead ==
  ASSUME DataInv, NEW n \in Nodes, NEW by, NEW seen \in SUBSET ended,
         read' = Read(by, copy[n], n, seen), UNCHANGED writes
  PROVE  FreshPerOwner'
<1>1. read'.got = copy[n] /\ read'.from = n /\ read'.seen = seen
  BY Zenon DEF Read
<1> QED BY <1>1, Zenon DEF FreshPerOwner, Supersedes, DataInv, CopyInv

LEMMA NoReadFresh == ASSUME read' = NoRead PROVE FreshPerOwner'
  BY Zenon DEF FreshPerOwner, NoRead, Read

LEMMA OwnerReadKeeps ==
  ASSUME DataInv, NEW c \in Clients, OwnerRead(c)
  PROVE  DataInv' /\ FreshPerOwner'
<1> DEFINE n == Home[c]
           o == ownerAddr(n)
<1>1. n \in Nodes /\ o \in Nodes /\ call[c] = Over
  BY HomeAssumption, OwnerType, Zenon DEF OwnerRead, CanCall, DataInv
<1>2. UNCHANGED <<memberVars, copy, writes, ended>>
  BY Zenon DEF OwnerRead
<1>3. RingInv' /\ WriteInv' /\ CopyInv'
  BY <1>2, RingInvNext, Zenon DEF DataInv, WriteInv, CopyInv
<1>4. CASE o = n
  <2>1. read' = Read(n, copy[n], n, ended) /\ call' = call /\ net' = net
    BY <1>4, Zenon DEF OwnerRead, LocalRead
  <2>2. FreshPerOwner'
    BY <1>1, <1>2, <2>1, FreshRead, Zenon
  <2>3. RequestInv' /\ ReadInv'
    BY <1>2, <2>1, Zenon DEF DataInv, RequestInv, ReadInv
  <2> QED BY <1>3, <2>2, <2>3, Zenon DEF DataInv
<1>5. CASE o # n
  <2>1. /\ read' = NoRead /\ net' = net \cup {Request("get", o, NoValue, c)}
        /\ call' = [call EXCEPT ![c] = [pc |-> "read", seen |-> ended]]
    BY <1>5, Zenon DEF OwnerRead, Asks
  <2>2. PICK r : r = Request("get", o, NoValue, c)
    BY Zenon
  <2>3. r.op = "get" /\ r.to = o /\ r.by = c
    BY <2>2, Zenon DEF Request
  <2>4. RequestInv'
    BY <1>2, <2>1, <2>2, <2>3, Zenon DEF DataInv, RequestInv
  <2>5. ReadInv'
    <3>1. ended \subseteq Nat
      BY DEF DataInv, WriteInv
    <3>2. call' \in [Clients -> Calls] /\ call'[c].pc = "read" /\ call'[c].seen = ended
          /\ \A d \in Clients \ {c} : call'[d] = call[d]
      BY <2>1, <3>1, Zenon DEF DataInv, ReadInv, Calls
    <3>3. call[c].pc = "over"
      BY <1>1 DEF Over
    <3> QED BY <1>1, <1>2, <2>1, <2>2, <2>3, <3>2, <3>3 DEF DataInv, ReadInv
  <2> QED BY <1>3, <2>1, <2>4, <2>5, NoReadFresh, Zenon DEF DataInv
<1> QED BY <1>4, <1>5, Zenon

-----------------------------------------------------------------------------
\* Requests

LEMMA HandleReadKeeps ==
  ASSUME DataInv, NEW m \in net, HandleRead(m)
  PROVE  DataInv' /\ FreshPerOwner'
<1>1. /\ m.op = "get" /\ m.to \in Nodes /\ m.by \in Clients
      /\ call[m.by].pc = "read" /\ call[m.by].seen \subseteq ended
  BY Zenon DEF HandleRead, DataInv, ReadInv
<1>2. UNCHANGED <<memberVars, copy, writes, ended>> /\ net' = net \ {m}
      /\ call' = [call EXCEPT ![m.by] = Over]
      /\ read' = Read(Home[m.by], copy[m.to], m.to, call[m.by].seen)
  BY <1>1, Zenon DEF HandleRead
<1>3. RingInv' /\ WriteInv' /\ CopyInv'
  BY <1>2, RingInvNext, Zenon DEF DataInv, WriteInv, CopyInv
<1>4. RequestInv'
  BY <1>2, Zenon DEF DataInv, RequestInv
<1>5. ReadInv'
  <2>1. call' \in [Clients -> Calls] /\ call'[m.by].pc = "over"
        /\ \A d \in Clients \ {m.by} : call'[d] = call[d]
    BY <1>1, <1>2, Zenon DEF DataInv, ReadInv, Calls, Over
  <2> QED BY <1>1, <1>2, <2>1 DEF DataInv, ReadInv
<1>6. FreshPerOwner'
  BY <1>1, <1>2, FreshRead, Zenon
<1> QED BY <1>3, <1>4, <1>5, <1>6, Zenon DEF DataInv

\* The write of a request has not ended, so nothing supersedes it yet, and
\* when it ends its own node has its value.
LEMMA HandleWriteKeeps ==
  ASSUME DataInv, NEW m \in net, NEW answered \in BOOLEAN, HandleWrite(m, answered)
  PROVE  DataInv'
<1> DEFINE w == m.write
<1>1. /\ m.op # "get" /\ w \in DOMAIN writes \ ended /\ w \in Nat /\ writes[w].targets = {m.to}
      /\ writes \in Seq(Writes) /\ m.to \in Nodes
  <2>1. /\ m.op # "get" /\ w \in DOMAIN writes \ ended /\ writes[w].targets = {m.to}
        /\ writes \in Seq(Writes)
    BY Zenon DEF HandleWrite, DataInv, RequestInv, WriteInv
  <2>2. w \in Nat /\ writes[w] \in Writes
    BY <2>1
  <2> QED BY <2>1, <2>2, Zenon DEF Writes
<1>2. UNCHANGED <<memberVars, writes>> /\ net' = net \ {m}
      /\ copy' = [copy EXCEPT ![m.to] = Stored(m.op, w)]
  BY Zenon DEF HandleWrite
<1>3. \/ ended' = ended /\ call' = call
      \/ /\ ended' = ended \cup {w} /\ m.by \in Clients /\ call[m.by].pc = "write"
         /\ call' = [call EXCEPT ![m.by] = Over]
  BY Zenon DEF HandleWrite, Awaits
<1>4. RingInv'
  BY <1>2, RingInvNext, Zenon DEF DataInv
<1>5. WriteInv'
  BY <1>1, <1>2, <1>3, Zenon DEF DataInv, WriteInv
<1>6. RequestInv'
  BY <1>1, <1>2, <1>3, Zenon DEF DataInv, RequestInv
<1>7. ReadInv'
  <2>1. CASE ended' = ended /\ call' = call
    BY <1>2, <2>1, Zenon DEF DataInv, ReadInv
  <2>2. CASE /\ ended' = ended \cup {w} /\ m.by \in Clients /\ call[m.by].pc = "write"
             /\ call' = [call EXCEPT ![m.by] = Over]
    <3>1. call' \in [Clients -> Calls] /\ call'[m.by].pc = "over"
          /\ \A d \in Clients \ {m.by} : call'[d] = call[d]
      BY <2>2, Zenon DEF DataInv, ReadInv, Calls, Over
    <3> QED BY <1>2, <2>2, <3>1 DEF DataInv, ReadInv
  <2> QED BY <1>3, <2>1, <2>2, Zenon
<1>8. CopyInv'
  <2>1. Stored(m.op, w) \in {NoValue, w}
    BY Zenon DEF Stored
  <2>2. /\ copy' \in [Nodes -> Nat \cup {NoValue}] /\ copy'[m.to] \in {NoValue, w}
        /\ \A k \in Nodes \ {m.to} : copy'[k] = copy[k]
    BY <1>1, <1>2, <2>1, Zenon DEF DataInv, CopyInv
  <2>3. \A x \in DOMAIN writes : NoValue \notin writes[x].after /\ w \notin writes[x].after
    BY <1>1, NoValueAssumption DEF DataInv, WriteInv
  <2>4. ended' \subseteq DOMAIN writes /\ \A x \in ended' : x \in ended \/ x = w
    BY <1>1, <1>3, Zenon DEF DataInv, WriteInv
  <2> QED BY <1>1, <1>2, <2>2, <2>3, <2>4 DEF DataInv, CopyInv
<1> QED BY <1>4, <1>5, <1>6, <1>7, <1>8, Zenon DEF DataInv

\* A call gives up, or requests and copies vanish.
LEMMA LossKeeps ==
  ASSUME DataInv, RingInv', UNCHANGED <<writes, ended>>, net' \subseteq net,
         copy' \in [Nodes -> Nat \cup {NoValue}],
         \A n \in Nodes : copy'[n] \in {copy[n], NoValue},
         call' \in [Clients -> Calls],
         \A c \in Clients : call'[c] \in {call[c], Over},
         \A m \in net' : m.op = "get" => call'[m.by] = call[m.by]
  PROVE  DataInv'
<1>1. WriteInv' /\ RequestInv'
  BY Zenon DEF DataInv, WriteInv, RequestInv
<1>2. ReadInv'
  BY DEF DataInv, ReadInv, Over
<1>3. CopyInv'
  <2>1. \A x \in ended : NoValue \notin writes[x].after
    BY NoValueAssumption DEF DataInv, WriteInv
  <2> QED BY <2>1, Zenon DEF DataInv, CopyInv
<1> QED BY <1>1, <1>2, <1>3, Zenon DEF DataInv

LEMMA CallFailsKeeps ==
  ASSUME DataInv, NEW c \in Clients, CallFails(c)
  PROVE  DataInv'
<1>1. /\ UNCHANGED <<memberVars, copy, writes, ended>> /\ call' = [call EXCEPT ![c] = Over]
      /\ net' = {m \in net : ~(m.op = "get" /\ m.by = c)}
  BY Zenon DEF CallFails
<1>2. /\ call' \in [Clients -> Calls] /\ call'[c] = Over
      /\ \A d \in Clients \ {c} : call'[d] = call[d]
  BY <1>1, Zenon DEF DataInv, ReadInv, Calls
<1>3. \A m \in net' : m \in net /\ (m.op = "get" => m.by \in Clients \ {c})
  BY <1>1, Zenon DEF DataInv, ReadInv
<1>4. RingInv' /\ copy' \in [Nodes -> Nat \cup {NoValue}]
  BY <1>1, RingInvNext, Zenon DEF DataInv, CopyInv
<1> QED BY <1>1, <1>2, <1>3, <1>4, LossKeeps, Zenon

LEMMA LostKeeps ==
  ASSUME DataInv, NEW m \in net, Lost(m)
  PROVE  DataInv'
<1>1. UNCHANGED <<memberVars, copy, call, writes, ended>> /\ net' = net \ {m}
  BY Zenon DEF Lost
<1>2. RingInv' /\ copy' \in [Nodes -> Nat \cup {NoValue}] /\ call' \in [Clients -> Calls]
  BY <1>1, RingInvNext, Zenon DEF DataInv, CopyInv, ReadInv
<1> QED BY <1>1, <1>2, LossKeeps, Zenon

LEMMA LoseKeeps ==
  ASSUME DataInv, NEW n \in Nodes, Lose(n)
  PROVE  DataInv'
<1>1. /\ UNCHANGED <<memberVars, net, call, writes, ended>>
      /\ copy' = [copy EXCEPT ![n] = NoValue]
  BY Zenon DEF Lose
<1>2. /\ copy' \in [Nodes -> Nat \cup {NoValue}]
      /\ \A k \in Nodes : copy'[k] \in {copy[k], NoValue}
  BY <1>1, Zenon DEF DataInv, CopyInv
<1>3. RingInv' /\ call' \in [Clients -> Calls]
  BY <1>1, RingInvNext, Zenon DEF DataInv, ReadInv
<1> QED BY <1>1, <1>2, <1>3, LossKeeps, Zenon

LEMMA CrashKeeps ==
  ASSUME DataInv, NEW n \in Nodes, CrashNode(n)
  PROVE  DataInv'
<1>1. /\ Crash(n) /\ UNCHANGED <<writes, ended>>
      /\ copy' = [copy EXCEPT ![n] = NoValue]
      /\ call' = [c \in Clients |-> IF Home[c] = n THEN Over ELSE call[c]]
      /\ net' = {m \in net : ~(m.op = "get" /\ Home[m.by] = n)}
  BY Zenon DEF CrashNode
<1>2. /\ copy' \in [Nodes -> Nat \cup {NoValue}]
      /\ \A k \in Nodes : copy'[k] \in {copy[k], NoValue}
  BY <1>1, Zenon DEF DataInv, CopyInv
<1>3. /\ call' \in [Clients -> Calls]
      /\ \A c \in Clients : call'[c] \in {call[c], Over}
      /\ \A c \in Clients : Home[c] # n => call'[c] = call[c]
  BY <1>1, Zenon DEF DataInv, ReadInv, Calls
<1>4. \A m \in net' : m \in net /\ (m.op = "get" => m.by \in Clients /\ Home[m.by] # n)
  BY <1>1, Zenon DEF DataInv, ReadInv
<1>5. RingInv'
  BY <1>1, RingInvNext, Zenon DEF DataInv
<1> QED BY <1>1, <1>2, <1>3, <1>4, <1>5, LossKeeps, Zenon

\* Nothing but the membership changes, or nothing at all.
LEMMA ChurnKeeps ==
  ASSUME DataInv, RingInv', UNCHANGED dataVars
  PROVE  DataInv'
  BY Zenon DEF DataInv, WriteInv, RequestInv, ReadInv, CopyInv, dataVars

-----------------------------------------------------------------------------
LEMMA ModeKept == Next => mode' = mode
<1>1. ReadStep => mode' = mode
  BY Zenon DEF ReadStep, LocalGet, OwnerRead, NearGet, HandleRead
<1>2. \A c \in Clients : Set(c) \/ Delete(c) \/ Incr(c) => mode' = mode
  BY Zenon DEF Set, Delete, Incr, ReplicatedWrite, OwnerWrite, NearWrite
<1>3. \A c \in Clients : Fill(c) \/ CallFails(c) => mode' = mode
  BY Zenon DEF Fill, CallFails
<1>4. \A m \in net, answered \in BOOLEAN : Lost(m) \/ HandleWrite(m, answered) => mode' = mode
  BY Zenon DEF Lost, HandleWrite
<1>5. \A n \in Nodes : Lose(n) => mode' = mode
  BY Zenon DEF Lose
<1>6. ChurnStep => mode' = mode
  BY Zenon DEF ChurnStep, CrashNode, dataVars
<1> QED BY <1>1, <1>2, <1>3, <1>4, <1>5, <1>6, Zenon DEF Next, WriteStep

LEMMA DInvNext == DInv /\ FreshPerOwner /\ [Next]_vars => DInv' /\ FreshPerOwner'
<1> SUFFICES ASSUME DInv, FreshPerOwner, [Next]_vars, mode' = "Partitioned"
             PROVE  DataInv' /\ FreshPerOwner'
  BY Zenon DEF DInv, FreshPerOwner
<1>1. CASE UNCHANGED vars
  <2>1. DataInv /\ UNCHANGED memberVars /\ UNCHANGED dataVars /\ read' = read
    BY <1>1, Zenon DEF vars, dataVars, DInv
  <2>2. DataInv'
    BY <2>1, RingInvNext, ChurnKeeps, Zenon DEF DataInv
  <2>3. FreshPerOwner'
    BY <2>1, Zenon DEF FreshPerOwner, Supersedes, dataVars
  <2> QED BY <2>2, <2>3, Zenon
<1>2. CASE Next
  <2>1. mode = "Partitioned" /\ DataInv
    BY <1>2, ModeKept, Zenon DEF DInv
  <2>2. CASE ReadStep
    <3>1. \/ \E c \in Clients : OwnerRead(c)
          \/ \E m \in net : HandleRead(m)
      BY <2>1, <2>2, Zenon DEF ReadStep, LocalGet, NearGet
    <3> QED BY <2>1, <3>1, OwnerReadKeeps, HandleReadKeeps, Zenon
  <2>3. CASE WriteStep /\ read' = NoRead
    <3>1. CASE \E c \in Clients : Set(c) \/ Delete(c) \/ Incr(c)
      <4>1. \E c \in Clients, op \in {"set", "delete", "incr"} : OwnerWrite(c, op)
        BY <2>1, <3>1, Zenon DEF Set, Delete, Incr, ReplicatedWrite, NearWrite
      <4> QED BY <2>1, <2>3, <4>1, OwnerWriteKeeps, NoReadFresh, Zenon
    <3>2. CASE \E c \in Clients : Fill(c)
      <4>1. \A c \in Clients : call[c].pc # "fill"
        BY <2>1 DEF DataInv, ReadInv, Calls, Over
      <4> QED BY <3>2, <4>1, Zenon DEF Fill
    <3>3. CASE \E c \in Clients : CallFails(c)
      BY <2>1, <2>3, <3>3, CallFailsKeeps, NoReadFresh, Zenon
    <3>4. CASE \E m \in net : Lost(m)
      BY <2>1, <2>3, <3>4, LostKeeps, NoReadFresh, Zenon
    <3>5. CASE \E m \in net : \E answered \in BOOLEAN : HandleWrite(m, answered)
      BY <2>1, <2>3, <3>5, HandleWriteKeeps, NoReadFresh, Zenon
    <3>6. CASE \E n \in Nodes : Lose(n)
      BY <2>1, <2>3, <3>6, LoseKeeps, NoReadFresh
    <3> QED BY <2>3, <3>1, <3>2, <3>3, <3>4, <3>5, <3>6, Zenon DEF WriteStep
  <2>4. CASE ChurnStep /\ read' = NoRead
    <3>1. CASE \E n \in Nodes : CrashNode(n)
      BY <2>1, <2>4, <3>1, CrashKeeps, NoReadFresh
    <3>2. CASE (MemberNext \/ \E n \in Nodes : Start(n)) /\ UNCHANGED dataVars
      BY <2>1, <2>4, <3>2, RingInvNext, ChurnKeeps, NoReadFresh, Zenon DEF DataInv
    <3> QED BY <2>4, <3>1, <3>2, Zenon DEF ChurnStep
  <2> QED BY <1>2, <2>2, <2>3, <2>4, Zenon DEF Next
<1> QED BY <1>1, <1>2, Zenon

\* Whatever is late, lost or answered too late: what a partitioned read
\* returns was not overwritten or deleted before, at the node it came from.
THEOREM OwnerFresh == Spec => []FreshPerOwner
<1> QED BY DataInvInit, DInvNext, PTL DEF Spec

-----------------------------------------------------------------------------
(***************************************************************************)
(* Replicated mode.  A node without blame has been sent every write, and   *)
(* no write was made while a request was under way to it: so a request to  *)
(* it is for the latest write, and if there is none its copy is.           *)
(***************************************************************************)
LatestInv ==
  /\ \A m \in net : m.op # "get" =>
       m.write \in DOMAIN writes /\ (m.to \notin blamed => m.write = Len(writes))
  /\ \A x \in DOMAIN writes : Len(writes) \notin writes[x].after

ReachedInv ==
  /\ copy \in [Nodes -> Nat \cup {NoValue}]
  /\ \A n \in Nodes \ blamed :
       \/ \E m \in net : m.op # "get" /\ m.to = n
       \/ copy[n] \in {NoValue, Len(writes)}

ReplicaInv == RingInv /\ WriteInv /\ LatestInv /\ ReachedInv /\ call \in [Clients -> Calls]
RInv == mode = "Replicated" => ReplicaInv

LEMMA ReplicaInvInit == Init => RInv
<1> SUFFICES ASSUME Init PROVE ReplicaInv
  BY Zenon DEF RInv
<1>1. RingInv
  BY DEF Init, MemberInit, RingInv, Events
<1>2. WriteInv
  BY DEF Init, DataInit, WriteInv
<1>3. LatestInv /\ ReachedInv /\ call \in [Clients -> Calls]
  BY DEF Init, DataInit, LatestInv, ReachedInv, Over, Calls
<1> QED BY <1>1, <1>2, <1>3, Zenon DEF ReplicaInv

\* Write w is made: its targets have it or are sent it, and are not blamed only
\* if nothing else is on the way to them.
LEMMA ReplicaWriteKeeps ==
  ASSUME ReplicaInv, mode = "Replicated", RingInv',
         NEW c \in Clients, NEW op \in {"set", "delete", "incr"},
         NEW targets \in SUBSET Nodes, NewWrite(c, op, targets),
         NEW sent, net' = net \cup sent,
         \A m \in sent : m.op # "get" /\ m.write = Len(writes) + 1,
         copy' \in [Nodes -> Nat \cup {NoValue}],
         \A n \in targets : \/ \E m \in sent : m.to = n
                            \/ copy'[n] \in {NoValue, Len(writes) + 1},
         ended' \in {ended, ended \cup {Len(writes) + 1}},
         call' \in [Clients -> Calls]
  PROVE  ReplicaInv'
<1>1. PICK w : w = Len(writes) + 1
  BY Zenon
<1>2. /\ w \in Nat \ DOMAIN writes /\ writes' \in Seq(Writes)
      /\ DOMAIN writes' = DOMAIN writes \cup {w}
      /\ \A x \in DOMAIN writes : writes'[x] = writes[x]
      /\ writes'[w].after = ended
  BY <1>1, NewWriteEffect, Zenon DEF ReplicaInv
<1>3. Len(writes') = w
  BY <1>1 DEF NewWrite, ReplicaInv, WriteInv
<1>4. ended \subseteq DOMAIN writes /\ \A x \in DOMAIN writes : writes[x].after \subseteq ended
  BY Zenon DEF ReplicaInv, WriteInv
<1>5. WriteInv'
  BY <1>1, <1>2, <1>4, Zenon DEF ReplicaInv, WriteInv
<1>6. blamed' = blamed \cup ({m.to : m \in net} \cup (Nodes \ targets))
  BY Zenon DEF NewWrite
<1>7. LatestInv'
  <2>1. \A x \in DOMAIN writes' : w \notin writes'[x].after
    BY <1>2, <1>4, Zenon
  <2>2. ASSUME NEW m \in net', m.op # "get"
        PROVE  m.write \in DOMAIN writes' /\ (m.to \notin blamed' => m.write = w)
    <3>1. CASE m \in net
      BY <1>2, <1>6, <2>2, <3>1, Zenon DEF ReplicaInv, LatestInv
    <3>2. CASE m \in sent
      BY <1>1, <1>2, <3>2, Zenon
    <3> QED BY <3>1, <3>2, Zenon
  <2> QED BY <1>3, <2>1, <2>2, Zenon DEF LatestInv
<1>8. ReachedInv'
  <2>1. ASSUME NEW n \in Nodes \ blamed'
        PROVE  (\E m \in net' : m.op # "get" /\ m.to = n) \/ copy'[n] \in {NoValue, w}
    <3>1. n \in targets
      BY <1>6, Zenon
    <3> QED BY <1>1, <3>1, Zenon
  <2> QED BY <1>3, <2>1, Zenon DEF ReachedInv
<1> QED BY <1>5, <1>7, <1>8, Zenon DEF ReplicaInv

LEMMA ReplicatedWriteKeeps ==
  ASSUME ReplicaInv, NEW c \in Clients, NEW op \in {"set", "delete"}, ReplicatedWrite(c, op)
  PROVE  ReplicaInv'
<1>1. PICK n, w, others : n = Home[c] /\ w = Len(writes) + 1 /\ others = LiveNodes(n) \ {n}
  BY Zenon
<1>2. n \in Nodes /\ others \cup {n} \in SUBSET Nodes /\ w \in Nat
  BY <1>1, HomeAssumption DEF LiveNodes, ReplicaInv, WriteInv
<1>3. PICK sent : sent = {Request(op, m, w, NoValue) : m \in others}
  BY Zenon
<1>4. /\ mode = "Replicated" /\ NewWrite(c, op, others \cup {n})
      /\ copy' = [copy EXCEPT ![n] = Stored(op, w)]
      /\ net' = net \cup sent /\ ended' = ended \cup {w}
      /\ UNCHANGED memberVars /\ call' = call
  BY <1>1, <1>3, Zenon DEF ReplicatedWrite
<1>5. \A m \in sent : m.op # "get" /\ m.write = w
  BY <1>3 DEF Request
<1>6. \A k \in others : \E m \in sent : m.to = k
  <2>1. TAKE k \in others
  <2>2. Request(op, k, w, NoValue) \in sent /\ Request(op, k, w, NoValue).to = k
    BY <1>3, Zenon DEF Request
  <2> QED BY <2>2, Zenon
<1>7. Stored(op, w) \in {NoValue, w}
  BY Zenon DEF Stored
<1>8. copy' \in [Nodes -> Nat \cup {NoValue}] /\ copy'[n] \in {NoValue, w}
  BY <1>2, <1>4, <1>7, Zenon DEF ReplicaInv, ReachedInv
<1>9. RingInv' /\ call' \in [Clients -> Calls]
  BY <1>4, RingInvNext, Zenon DEF ReplicaInv
<1>10. \A k \in others \cup {n} : (\E m \in sent : m.to = k) \/ copy'[k] \in {NoValue, w}
  BY <1>6, <1>8, Zenon
<1> QED BY <1>1, <1>2, <1>4, <1>5, <1>8, <1>9, <1>10, ReplicaWriteKeeps

\* Incr goes to the owner only, which leaves the other nodes behind.
LEMMA ReplicatedIncrKeeps ==
  ASSUME ReplicaInv, mode = "Replicated", NEW c \in Clients,
         NEW op \in {"set", "delete", "incr"}, OwnerWrite(c, op)
  PROVE  ReplicaInv'
<1>1. PICK n, o, w : n = Home[c] /\ o = ownerAddr(n) /\ w = Len(writes) + 1
  BY Zenon
<1>2. n \in Nodes /\ o \in Nodes /\ {o} \in SUBSET Nodes /\ w \in Nat
  BY <1>1, HomeAssumption, OwnerType DEF ReplicaInv, WriteInv
<1>3. NewWrite(c, op, {o}) /\ UNCHANGED memberVars
  BY <1>1, Zenon DEF OwnerWrite
<1>4. RingInv'
  BY <1>3, RingInvNext, Zenon DEF ReplicaInv
<1>5. CASE o = n
  <2>1. /\ copy' = [copy EXCEPT ![n] = Stored(op, w)] /\ ended' = ended \cup {w}
        /\ net' = net /\ call' = call
    BY <1>1, <1>5, Zenon DEF OwnerWrite
  <2>2. Stored(op, w) \in {NoValue, w}
    BY Zenon DEF Stored
  <2>3. copy' \in [Nodes -> Nat \cup {NoValue}] /\ copy'[o] \in {NoValue, w}
    BY <1>2, <1>5, <2>1, <2>2, Zenon DEF ReplicaInv, ReachedInv
  <2>4. PICK sent : sent = {} /\ net' = net \cup sent
    <3>1. net' = net \cup {}
      BY <2>1, Zenon
    <3> QED BY <3>1, Zenon
  <2>5. call' \in [Clients -> Calls]
    BY <2>1, Zenon DEF ReplicaInv
  <2>6. \A k \in {o} : (\E m \in sent : m.to = k) \/ copy'[k] \in {NoValue, w}
    BY <2>3, Zenon
  <2>7. /\ \A m \in sent : m.op # "get" /\ m.write = Len(writes) + 1
        /\ ended' \in {ended, ended \cup {Len(writes) + 1}}
    BY <1>1, <2>1, <2>4, Zenon
  <2> QED BY <1>1, <1>2, <1>3, <1>4, <2>3, <2>4, <2>5, <2>6, <2>7, ReplicaWriteKeeps, ZenonT(30)
<1>6. CASE o # n
  <2>1. PICK r : r = Request(op, o, w, c)
    BY Zenon
  <2>2. /\ net' = net \cup {r} /\ copy' = copy /\ ended' = ended
        /\ call' = [call EXCEPT ![c] = [pc |-> "write", write |-> w]]
    BY <1>1, <1>6, <2>1, Zenon DEF OwnerWrite
  <2>3. r.op # "get" /\ r.to = o /\ r.write = w
    BY <2>1, Zenon DEF Request
  <2>4. copy' \in [Nodes -> Nat \cup {NoValue}] /\ call' \in [Clients -> Calls]
    BY <1>2, <2>2, Zenon DEF ReplicaInv, ReachedInv, Calls
  <2>5. PICK sent : sent = {r} /\ net' = net \cup sent
    BY <2>2, Zenon
  <2>6. /\ \A k \in {o} : (\E m \in sent : m.to = k) \/ copy'[k] \in {NoValue, w}
        /\ \A m \in sent : m.op # "get" /\ m.write = Len(writes) + 1
        /\ ended' \in {ended, ended \cup {Len(writes) + 1}}
    BY <1>1, <2>2, <2>3, <2>5, Zenon
  <2> QED BY <1>1, <1>2, <1>3, <1>4, <2>4, <2>5, <2>6, ReplicaWriteKeeps, ZenonT(30)
<1> QED BY <1>5, <1>6, Zenon

\* A step that delivers no write: requests and copies may vanish, the former
\* with blame.
LEMMA ReplicaQuiet ==
  ASSUME ReplicaInv, RingInv', UNCHANGED <<writes, ended>>, call' \in [Clients -> Calls],
         blamed \subseteq blamed',
         \A m \in net' : m.op # "get" => m \in net,
         \A m \in net : m.op # "get" => m \in net' \/ m.to \in blamed',
         copy' \in [Nodes -> Nat \cup {NoValue}],
         \A n \in Nodes : copy'[n] \in {copy[n], NoValue}
  PROVE  ReplicaInv'
<1>1. WriteInv'
  BY Zenon DEF ReplicaInv, WriteInv
<1>2. LatestInv'
  BY Zenon DEF ReplicaInv, LatestInv
<1>3. ReachedInv'
  BY Zenon DEF ReplicaInv, ReachedInv
<1> QED BY <1>1, <1>2, <1>3, Zenon DEF ReplicaInv

\* The node that a request reaches has the latest write, or is blamed.
LEMMA ReplicaHandleKeeps ==
  ASSUME ReplicaInv, NEW m \in net, NEW answered \in BOOLEAN, HandleWrite(m, answered)
  PROVE  ReplicaInv'
<1>1. /\ m.op # "get" /\ m.write \in DOMAIN writes /\ m.write \in Nat
      /\ m.to \notin blamed => m.write = Len(writes)
  <2>1. /\ m.op # "get" /\ m.write \in DOMAIN writes
        /\ m.to \notin blamed => m.write = Len(writes)
    BY Zenon DEF HandleWrite, ReplicaInv, LatestInv
  <2> QED BY <2>1 DEF ReplicaInv, WriteInv
<1>2. UNCHANGED <<memberVars, writes, blamed>> /\ net' = net \ {m}
      /\ copy' = [copy EXCEPT ![m.to] = Stored(m.op, m.write)]
  BY Zenon DEF HandleWrite
<1>3. \/ ended' = ended /\ call' = call
      \/ ended' = ended \cup {m.write} /\ m.by \in Clients /\ call' = [call EXCEPT ![m.by] = Over]
  BY Zenon DEF HandleWrite, Awaits
<1>4. RingInv' /\ call' \in [Clients -> Calls]
  BY <1>2, <1>3, RingInvNext, Zenon DEF ReplicaInv, Calls
<1>5. WriteInv'
  BY <1>1, <1>2, <1>3, Zenon DEF ReplicaInv, WriteInv
<1>6. LatestInv'
  BY <1>2, Zenon DEF ReplicaInv, LatestInv
<1>7. ReachedInv'
  <2>1. Stored(m.op, m.write) \in {NoValue, m.write}
    BY Zenon DEF Stored
  <2>2. /\ copy' \in [Nodes -> Nat \cup {NoValue}]
        /\ \A n \in Nodes : n = m.to => copy'[n] \in {NoValue, m.write}
        /\ \A n \in Nodes : n # m.to => copy'[n] = copy[n]
    <3>1. PICK v : v = Stored(m.op, m.write)
      BY Zenon
    <3>2. copy \in [Nodes -> Nat \cup {NoValue}] /\ copy' = [copy EXCEPT ![m.to] = v]
      BY <1>2, <3>1, Zenon DEF ReplicaInv, ReachedInv
    <3>3. v \in {NoValue, m.write} /\ v \in Nat \cup {NoValue}
      BY <1>1, <2>1, <3>1, Zenon
    <3>4. CASE m.to \in Nodes
      BY <3>2, <3>3, <3>4, Zenon
    <3>5. CASE m.to \notin Nodes
      <4>1. copy' = copy
        BY <3>2, <3>5, Zenon
      <4> QED BY <3>2, <3>5, <4>1, Zenon
    <3> QED BY <3>4, <3>5, Zenon
  <2>3. ASSUME NEW n \in Nodes \ blamed
        PROVE  (\E k \in net' : k.op # "get" /\ k.to = n) \/ copy'[n] \in {NoValue, Len(writes)}
    <3>1. CASE n = m.to
      BY <1>1, <2>2, <3>1, Zenon
    <3>2. CASE n # m.to
      BY <1>2, <2>2, <3>2, Zenon DEF ReplicaInv, ReachedInv
    <3> QED BY <3>1, <3>2, Zenon
  <2> QED BY <1>2, <2>2, <2>3, Zenon DEF ReachedInv
<1> QED BY <1>4, <1>5, <1>6, <1>7, Zenon DEF ReplicaInv

LEMMA ReplicaReadKeeps ==
  ASSUME ReplicaInv, NEW c \in Clients, LocalGet(c) \/ OwnerRead(c)
  PROVE  ReplicaInv'
<1>1. UNCHANGED <<memberVars, copy, writes, ended, blamed>>
  BY Zenon DEF LocalGet, OwnerRead
<1>2. RingInv' /\ copy' \in [Nodes -> Nat \cup {NoValue}] /\ ended \in SUBSET Nat
  BY <1>1, RingInvNext DEF ReplicaInv, ReachedInv, WriteInv
<1>3. CASE call' = call /\ net' = net
  <2>1. call' \in [Clients -> Calls]
    BY <1>3, Zenon DEF ReplicaInv
  <2> QED BY <1>1, <1>2, <1>3, <2>1, ReplicaQuiet, Zenon
<1>4. CASE OwnerRead(c) /\ ownerAddr(Home[c]) # Home[c]
  <2>1. PICK r : r = Request("get", ownerAddr(Home[c]), NoValue, c)
    BY Zenon
  <2>2. call' = [call EXCEPT ![c] = [pc |-> "read", seen |-> ended]] /\ net' = net \cup {r}
    BY <1>4, <2>1, Zenon DEF OwnerRead, Asks
  <2>3. r.op = "get"
    BY <2>1, Zenon DEF Request
  <2>4. call' \in [Clients -> Calls]
    BY <1>2, <2>2, Zenon DEF ReplicaInv, Calls
  <2> QED BY <1>1, <1>2, <2>2, <2>3, <2>4, ReplicaQuiet, Zenon
<1> QED BY <1>3, <1>4, Zenon DEF LocalGet, OwnerRead, LocalRead

LEMMA ReplicaHandleReadKeeps ==
  ASSUME ReplicaInv, NEW m \in net, HandleRead(m)
  PROVE  ReplicaInv'
<1>1. UNCHANGED <<memberVars, copy, writes, ended, blamed>> /\ net' = net \ {m} /\ m.op = "get"
  BY Zenon DEF HandleRead
<1>2. call' \in [Clients -> Calls]
  <2>1. \A c \in Clients : call[c].pc # "near"
    BY DEF ReplicaInv, Calls, Over
  <2>2. PICK k : k = IF call[m.by].pc = "near" /\ copy[m.to] # NoValue
                     THEN [pc |-> "fill", write |-> copy[m.to]] ELSE Over
    BY Zenon
  <2>3. call' = [call EXCEPT ![m.by] = k] /\ call \in [Clients -> Calls]
    BY <2>2, Zenon DEF HandleRead, ReplicaInv
  <2>4. CASE m.by \in Clients
    <3>1. k \in Calls
      BY <2>1, <2>2, <2>4, Zenon DEF Calls
    <3> QED BY <2>3, <3>1, Zenon
  <2>5. CASE m.by \notin Clients
    <3>1. call' = call
      BY <2>3, <2>5, Zenon
    <3> QED BY <2>3, <3>1, Zenon
  <2> QED BY <2>4, <2>5, Zenon
<1>3. RingInv' /\ copy' \in [Nodes -> Nat \cup {NoValue}]
  BY <1>1, RingInvNext, Zenon DEF ReplicaInv, ReachedInv
<1> QED BY <1>1, <1>2, <1>3, ReplicaQuiet, Zenon

LEMMA ReplicaLossKeeps ==
  ASSUME ReplicaInv,
         \/ \E c \in Clients : CallFails(c)
         \/ \E m \in net : Lost(m)
         \/ \E n \in Nodes : Lose(n) \/ CrashNode(n)
  PROVE  ReplicaInv'
<1>1. ReachedInv /\ call \in [Clients -> Calls] /\ RingInv
  BY Zenon DEF ReplicaInv
<1>2. ASSUME NEW c \in Clients, CallFails(c) PROVE ReplicaInv'
  <2>1. /\ UNCHANGED <<memberVars, copy, writes, ended, blamed>> /\ call' = [call EXCEPT ![c] = Over]
        /\ net' = {m \in net : ~(m.op = "get" /\ m.by = c)}
    BY <1>2, Zenon DEF CallFails
  <2>2. RingInv' /\ call' \in [Clients -> Calls] /\ copy' \in [Nodes -> Nat \cup {NoValue}]
    BY <1>1, <2>1, RingInvNext, Zenon DEF Calls, ReachedInv
  <2> QED BY <2>1, <2>2, ReplicaQuiet, Zenon
<1>3. ASSUME NEW m \in net, Lost(m) PROVE ReplicaInv'
  <2>1. /\ UNCHANGED <<memberVars, copy, call, writes, ended>> /\ net' = net \ {m}
        /\ blamed' = blamed \cup {m.to}
    BY <1>3, Zenon DEF Lost
  <2>2. RingInv' /\ call' \in [Clients -> Calls] /\ copy' \in [Nodes -> Nat \cup {NoValue}]
    BY <1>1, <2>1, RingInvNext, Zenon DEF ReachedInv
  <2> QED BY <2>1, <2>2, ReplicaQuiet, Zenon
<1>4. ASSUME NEW n \in Nodes, Lose(n) PROVE ReplicaInv'
  <2>1. /\ UNCHANGED <<memberVars, net, call, writes, ended, blamed>>
        /\ copy' = [copy EXCEPT ![n] = NoValue]
    BY <1>4, Zenon DEF Lose
  <2>2. /\ RingInv' /\ call' \in [Clients -> Calls] /\ copy' \in [Nodes -> Nat \cup {NoValue}]
        /\ \A k \in Nodes : copy'[k] \in {copy[k], NoValue}
    BY <1>1, <2>1, RingInvNext, Zenon DEF ReachedInv
  <2> QED BY <2>1, <2>2, ReplicaQuiet, Zenon
<1>5. ASSUME NEW n \in Nodes, CrashNode(n) PROVE ReplicaInv'
  <2>1. /\ Crash(n) /\ UNCHANGED <<writes, ended, blamed>>
        /\ copy' = [copy EXCEPT ![n] = NoValue]
        /\ call' = [c \in Clients |-> IF Home[c] = n THEN Over ELSE call[c]]
        /\ net' = {m \in net : ~(m.op = "get" /\ Home[m.by] = n)}
    BY <1>5, Zenon DEF CrashNode
  <2>2. /\ copy' \in [Nodes -> Nat \cup {NoValue}]
        /\ \A k \in Nodes : copy'[k] \in {copy[k], NoValue}
    BY <1>1, <2>1, Zenon DEF ReachedInv
  <2>3. RingInv' /\ call' \in [Clients -> Calls]
    BY <1>1, <2>1, RingInvNext, Zenon DEF Calls
  <2> QED BY <2>1, <2>2, <2>3, ReplicaQuiet, Zenon
<1> QED BY <1>2, <1>3, <1>4, <1>5, Zenon

LEMMA RInvNext == RInv /\ [Next]_vars => RInv'
<1> SUFFICES ASSUME RInv, [Next]_vars, mode' = "Replicated" PROVE ReplicaInv'
  BY Zenon DEF RInv
<1>1. CASE UNCHANGED vars
  <2>1. ReplicaInv /\ UNCHANGED memberVars /\ UNCHANGED dataVars
    BY <1>1, Zenon DEF vars, dataVars, RInv
  <2>2. RingInv'
    BY <2>1, RingInvNext, Zenon DEF ReplicaInv
  <2> QED BY <2>1, <2>2, Zenon DEF ReplicaInv, WriteInv, LatestInv, ReachedInv, dataVars
<1>2. CASE Next
  <2>1. mode = "Replicated" /\ ReplicaInv
    BY <1>2, ModeKept, Zenon DEF RInv
  <2>2. CASE ReadStep
    <3>1. \/ \E c \in Clients : LocalGet(c) \/ OwnerRead(c)
          \/ \E m \in net : HandleRead(m)
      BY <2>1, <2>2, Zenon DEF ReadStep, NearGet
    <3> QED BY <2>1, <3>1, ReplicaReadKeeps, ReplicaHandleReadKeeps, Zenon
  <2>3. CASE WriteStep
    <3>1. CASE \E c \in Clients : Set(c) \/ Delete(c) \/ Incr(c)
      <4>1. \/ \E c \in Clients, op \in {"set", "delete"} : ReplicatedWrite(c, op)
            \/ \E c \in Clients, op \in {"set", "delete", "incr"} : OwnerWrite(c, op)
        BY <2>1, <3>1, Zenon DEF Set, Delete, Incr, NearWrite
      <4> QED BY <2>1, <4>1, ReplicatedWriteKeeps, ReplicatedIncrKeeps, Zenon
    <3>2. CASE \E c \in Clients : Fill(c)
      <4>1. \A c \in Clients : call[c].pc # "fill"
        BY <2>1 DEF ReplicaInv, Calls, Over
      <4> QED BY <3>2, <4>1, Zenon DEF Fill
    <3>3. CASE \E m \in net : \E answered \in BOOLEAN : HandleWrite(m, answered)
      BY <2>1, <3>3, ReplicaHandleKeeps, Zenon
    <3> QED BY <2>1, <2>3, <3>1, <3>2, <3>3, ReplicaLossKeeps, Zenon DEF WriteStep
  <2>4. CASE ChurnStep
    <3>1. CASE \E n \in Nodes : CrashNode(n)
      BY <2>1, <3>1, ReplicaLossKeeps, Zenon
    <3>2. CASE (MemberNext \/ \E n \in Nodes : Start(n)) /\ UNCHANGED dataVars
      <4>1. RingInv'
        BY <2>1, <3>2, RingInvNext, Zenon DEF ReplicaInv
      <4> QED BY <2>1, <3>2, <4>1, Zenon DEF ReplicaInv, WriteInv, LatestInv, ReachedInv, dataVars
    <3> QED BY <2>4, <3>1, <3>2, Zenon DEF ChurnStep
  <2> QED BY <1>2, <2>2, <2>3, <2>4, Zenon DEF Next
<1> QED BY <1>1, <1>2, Zenon

\* Once all requests are through, however many nodes there are and whoever
\* joined, left or crashed meanwhile, the replicas that were sent every write
\* in time do not hold a value that was overwritten or deleted.
THEOREM ReplicasCurrent == Spec => []ReplicasSettle
<1>1. RInv => ReplicasSettle
  <2> SUFFICES ASSUME ReplicaInv, net = {}, NEW n \in Nodes \ blamed, copy[n] # NoValue,
                      NEW x \in ended, Supersedes(x, copy[n])
               PROVE  FALSE
    BY Zenon DEF RInv, ReplicasSettle
  <2>1. copy[n] = Len(writes)
    BY Zenon DEF ReplicaInv, ReachedInv
  <2> QED BY <2>1, Zenon DEF ReplicaInv, LatestInv, WriteInv, Supersedes
<1> QED BY <1>1, ReplicaInvInit, RInvNext, PTL DEF Spec

-----------------------------------------------------------------------------
(***************************************************************************)
(* NearCache mode, while the membership does not change: own[n] is the     *)
(* node that n takes for the owner.  What the owner's store has was not    *)
(* superseded by a write that has ended, and what a near copy has was not  *)
(* by a write of its own node that has ended or that a call still waits    *)
(* for.  Fetching a near copy is the delicate part: on a node without      *)
(* blame no write began, or was waited for, meanwhile.                     *)
(***************************************************************************)
NearCalls == Calls \cup [pc : {"near"}, seen : SUBSET Nat] \cup [pc : {"fill"}, write : Nat]

FixedOwners(own) ==
  /\ own \in [Nodes -> Nodes]
  /\ \A n \in Nodes : own[own[n]] = own[n] /\ ownerAddr(n) = own[n] /\ event[n] = NoEvent

SentInv(own) ==
  /\ \A m \in net : m.op # "get" =>
       m.write \in DOMAIN writes \ ended /\ m.to = own[writes[m.write].node]
  /\ \A m, k \in net : m.op # "get" /\ k.op # "get" /\ m.write = k.write => m = k
  /\ \A m \in net : m.op = "get" =>
       m.by \in Clients /\ call[m.by].pc \in {"read", "near"} /\ m.to = own[Home[m.by]]
  /\ \A m, k \in net : m.op = "get" /\ k.op = "get" /\ m.by = k.by => m = k

Fetching(c) == call[c].pc \in {"near", "fill"}

CallInv(own) ==
  /\ call \in [Clients -> NearCalls]
  /\ \A c \in Clients : call[c].pc \in {"read", "near"} => call[c].seen \subseteq ended
  /\ \A c \in Clients : call[c].pc = "write" =>
       call[c].write \in DOMAIN writes /\ writes[call[c].write].node = Home[c]
  /\ \A c \in Clients : Fetching(c) => own[Home[c]] # Home[c]
  /\ \A c, d \in Clients : Fetching(c) /\ Home[c] \notin blamed /\ Home[d] = Home[c] =>
       call[d].pc # "write"

OwnerCopyInv(own) ==
  /\ copy \in [Nodes -> Nat \cup {NoValue}]
  /\ \A x \in ended : copy[own[writes[x].node]] \notin writes[x].after

Counts(x) == x \in ended \/ \E c \in Clients : call[c].pc = "write" /\ call[c].write = x

NearCopyInv ==
  \A x \in DOMAIN writes :
    Counts(x) /\ writes[x].op # "incr" /\ writes[x].node \notin blamed =>
      copy[writes[x].node] \notin writes[x].after

FillInv ==
  \A c \in Clients : \A x \in ended :
    call[c].pc = "fill" /\ writes[x].node = Home[c] /\ Home[c] \notin blamed =>
      call[c].write \notin writes[x].after

NearData(own) ==
  WriteInv /\ SentInv(own) /\ CallInv(own) /\ OwnerCopyInv(own) /\ NearCopyInv /\ FillInv

NearInv == \E own : FixedOwners(own) /\ NearData(own)
NInv == churn \in Nat /\ (mode = "NearCache" /\ churn = 0 => NearInv)

LEMMA NearInvInit == Init => NInv /\ OwnWritesSeen
<1> SUFFICES ASSUME Init PROVE churn \in Nat /\ NearInv /\ OwnWritesSeen
  BY Zenon DEF NInv
<1>1. churn \in Nat /\ OwnWritesSeen
  BY Zenon DEF Init, MemberInit, DataInit, OwnWritesSeen, NoRead, Read
<1>2. ASSUME NEW own PROVE NearData(own)
  <2>1. WriteInv
    BY DEF Init, DataInit, WriteInv
  <2>2. SentInv(own) /\ CallInv(own)
    BY Zenon DEF Init, DataInit, SentInv, CallInv, Over, Calls, NearCalls, Fetching
  <2>3. OwnerCopyInv(own) /\ NearCopyInv /\ FillInv
    BY DEF Init, DataInit, OwnerCopyInv, NearCopyInv, FillInv
  <2> QED BY <2>1, <2>2, <2>3, Zenon DEF NearData
<1>3. /\ ring \in {[n \in Nodes |-> Nodes], [n \in Nodes |-> {n}]}
      /\ \A n \in Nodes : /\ event[n] = NoEvent
                          /\ \A m \in Nodes : m \in ring[n] => status[n][m] = "alive"
  BY Zenon DEF Init, MemberInit, Knows
<1>4. CASE ring = [n \in Nodes |-> Nodes]
  <2>1. PICK own : own = [n \in Nodes |-> OwnerOf(Nodes)]
    BY Zenon
  <2>2. Nodes # {} => OwnerOf(Nodes) \in Nodes
    BY OwnerAssumption, Zenon
  <2>3. FixedOwners(own)
    BY <1>3, <1>4, <2>1, <2>2, Zenon DEF FixedOwners, ownerAddr
  <2> QED BY <1>1, <1>2, <2>3, Zenon DEF NearInv
<1>5. CASE ring = [n \in Nodes |-> {n}]
  <2>1. PICK own : own = [n \in Nodes |-> n]
    BY Zenon
  <2>2. \A n \in Nodes : OwnerOf({n}) = n
    BY OwnerAssumption
  <2>3. FixedOwners(own)
    BY <1>3, <1>5, <2>1, <2>2, Zenon DEF FixedOwners, ownerAddr
  <2> QED BY <1>1, <1>2, <2>3 DEF NearInv
<1> QED BY <1>3, <1>4, <1>5, Zenon

LEMMA SameOwners ==
  ASSUME NEW own, FixedOwners(own), UNCHANGED memberVars
  PROVE  FixedOwners(own)'
  BY Zenon DEF FixedOwners, memberVars, ownerAddr

\* No write was made after a write that has not ended.
LEMMA NewValue ==
  ASSUME WriteInv, NEW w \in Nat \ ended, NEW v \in {NoValue, w}, NEW x \in DOMAIN writes
  PROVE  v \notin writes[x].after
  BY NoValueAssumption DEF WriteInv

LEMMA NearBlame ==
  ASSUME mode = "NearCache", NEW c, NEW op, NEW targets, NewWrite(c, op, targets)
  PROVE  /\ blamed \subseteq blamed'
         /\ \A d \in Clients : Fetching(d) /\ Home[d] = Home[c] => Home[c] \in blamed'
<1>1. blamed' = blamed \cup (IF At(Home[c], {"near", "fill"}) THEN {Home[c]} ELSE {})
  BY Zenon DEF NewWrite
<1> QED BY <1>1, Zenon DEF At, Fetching

LEMMA SetCopy ==
  ASSUME NEW n \in Nodes, NEW w \in Nat, NEW v \in {NoValue, w},
         copy \in [Nodes -> Nat \cup {NoValue}], copy' = [copy EXCEPT ![n] = v]
  PROVE  /\ copy' \in [Nodes -> Nat \cup {NoValue}] /\ copy'[n] \in {NoValue, w}
         /\ \A k \in Nodes : copy'[k] = copy[k] \/ copy'[k] \in {NoValue, w}
  BY Zenon

\* Client c makes write w, which at most its own store may have.
Writing(c, op, targets, w) ==
  /\ NewWrite(c, op, targets) /\ w = Len(writes) + 1
  /\ copy' \in [Nodes -> Nat \cup {NoValue}]
  /\ \A k \in Nodes : copy'[k] = copy[k] \/ copy'[k] \in {NoValue, w}
  /\ ended' \in {ended, ended \cup {w}}

\* What that leaves as it was.
WriteMade(own, c, op, w) ==
  /\ w \in Nat \ DOMAIN writes /\ w \notin ended
  /\ DOMAIN writes' = DOMAIN writes \cup {w}
  /\ \A x \in DOMAIN writes : writes'[x] = writes[x]
  /\ writes'[w].after = ended /\ writes'[w].op = op /\ writes'[w].node = Home[c]
  /\ WriteInv'
  /\ \A x \in ended : copy'[own[writes'[x].node]] \notin writes'[x].after
  /\ \A x \in DOMAIN writes :
       Counts(x) /\ writes'[x].op # "incr" /\ writes'[x].node \notin blamed' =>
         copy'[writes'[x].node] \notin writes'[x].after

\* Client c of node n makes write w; the first part of what follows from that.
LEMMA NearNew ==
  ASSUME NEW own, FixedOwners(own), NearData(own), mode = "NearCache", NEW c \in Clients,
         NEW op \in {"set", "delete", "incr"}, NEW targets \in SUBSET Nodes, NEW w,
         Writing(c, op, targets, w)
  PROVE  WriteMade(own, c, op, w)
<1>0. /\ NewWrite(c, op, targets) /\ w = Len(writes) + 1
      /\ copy' \in [Nodes -> Nat \cup {NoValue}]
      /\ \A k \in Nodes : copy'[k] = copy[k] \/ copy'[k] \in {NoValue, w}
      /\ ended' \in {ended, ended \cup {w}}
  BY Zenon DEF Writing
<1>1. /\ w \in Nat \ DOMAIN writes /\ writes' \in Seq(Writes)
      /\ DOMAIN writes' = DOMAIN writes \cup {w}
      /\ \A x \in DOMAIN writes : writes'[x] = writes[x]
      /\ writes'[w].after = ended /\ writes'[w].op = op /\ writes'[w].node = Home[c]
  <2>1. WriteInv
    BY Zenon DEF NearData
  <2>2. /\ Len(writes) + 1 \in Nat \ DOMAIN writes
        /\ writes' \in Seq(Writes)
        /\ DOMAIN writes' = DOMAIN writes \cup {Len(writes) + 1}
        /\ \A x \in DOMAIN writes : writes'[x] = writes[x]
        /\ writes'[Len(writes) + 1].targets = targets
        /\ writes'[Len(writes) + 1].after = ended
        /\ writes'[Len(writes) + 1].op = op /\ writes'[Len(writes) + 1].node = Home[c]
    BY <1>0, <2>1, NewWriteEffect, Zenon
  <2> QED BY <1>0, <2>2, Zenon
<1>2. WriteInv /\ ended \subseteq DOMAIN writes /\ w \notin ended
      /\ \A x \in DOMAIN writes : writes[x].after \subseteq ended /\ writes[x].node \in Nodes
  <2>1. WriteInv /\ writes \in Seq(Writes) /\ ended \subseteq DOMAIN writes
        /\ \A x \in DOMAIN writes : writes[x].after \subseteq ended
    BY Zenon DEF NearData, WriteInv
  <2>2. \A x \in DOMAIN writes : writes[x] \in Writes
    BY <2>1
  <2>3. \A x \in DOMAIN writes : writes[x].node \in Nodes
    BY <2>2, Zenon DEF Writes
  <2> QED BY <1>1, <2>1, <2>3, Zenon
<1>3. WriteInv'
  BY <1>0, <1>1, <1>2, Zenon DEF WriteInv
<1>4. \A x \in DOMAIN writes, k \in Nodes :
        copy[k] \notin writes[x].after => copy'[k] \notin writes[x].after
  BY <1>0, <1>1, <1>2, NewValue
<1>5. \A x \in ended : copy'[own[writes'[x].node]] \notin writes'[x].after
  <2>1. TAKE x \in ended
  <2>2. own[writes[x].node] \in Nodes /\ copy[own[writes[x].node]] \notin writes[x].after
    BY <1>2, Zenon DEF FixedOwners, NearData, OwnerCopyInv
  <2> QED BY <1>1, <1>2, <1>4, <2>2, Zenon
<1>6. ASSUME NEW x \in DOMAIN writes, Counts(x), writes'[x].op # "incr",
             writes'[x].node \notin blamed'
      PROVE  copy'[writes'[x].node] \notin writes'[x].after
  <2>1. writes[x].node \notin blamed
    BY <1>0, <1>1, <1>6, NearBlame, Zenon
  <2>2. copy[writes[x].node] \notin writes[x].after
    BY <1>1, <1>6, <2>1, Zenon DEF NearData, NearCopyInv
  <2> QED BY <1>1, <1>2, <1>4, <2>2, Zenon
<1> QED BY <1>1, <1>2, <1>3, <1>5, <1>6, Zenon DEF WriteMade

\* The owner's own write.
LEMMA NearLocal ==
  ASSUME NEW own, FixedOwners(own), NearData(own), mode = "NearCache", NEW c \in Clients,
         NEW op \in {"set", "delete", "incr"}, NEW targets \in SUBSET Nodes,
         NewWrite(c, op, targets), own[Home[c]] = Home[c],
         copy' = [copy EXCEPT ![Home[c]] = Stored(op, Len(writes) + 1)],
         ended' = ended \cup {Len(writes) + 1}, UNCHANGED <<net, call>>
  PROVE  NearData(own)'
<1>1. PICK n, w : n = Home[c] /\ w = Len(writes) + 1
  BY Zenon
<1>2. n \in Nodes /\ w \in Nat /\ Stored(op, w) \in {NoValue, w}
  BY <1>1, HomeAssumption DEF NearData, WriteInv, Stored
<1>3. /\ copy' \in [Nodes -> Nat \cup {NoValue}] /\ copy'[n] \in {NoValue, w}
      /\ \A k \in Nodes : copy'[k] = copy[k] \/ copy'[k] \in {NoValue, w}
  <2>1. copy \in [Nodes -> Nat \cup {NoValue}] /\ copy' = [copy EXCEPT ![n] = Stored(op, w)]
    BY <1>1, Zenon DEF NearData, OwnerCopyInv
  <2> QED BY <1>2, <2>1, SetCopy, Zenon
<1>4. /\ w \in Nat \ DOMAIN writes /\ w \notin ended
      /\ DOMAIN writes' = DOMAIN writes \cup {w}
      /\ \A x \in DOMAIN writes : writes'[x] = writes[x]
      /\ writes'[w].after = ended /\ writes'[w].op = op /\ writes'[w].node = n
      /\ WriteInv'
      /\ \A x \in ended : copy'[own[writes'[x].node]] \notin writes'[x].after
      /\ \A x \in DOMAIN writes :
           Counts(x) /\ writes'[x].op # "incr" /\ writes'[x].node \notin blamed' =>
             copy'[writes'[x].node] \notin writes'[x].after
  <2>1. w = Len(writes) + 1 /\ ended' \in {ended, ended \cup {w}}
    BY <1>1, Zenon
  <2>2. Writing(c, op, targets, w)
    BY <1>3, <2>1, Zenon DEF Writing
  <2>3. WriteMade(own, c, op, w)
    BY <2>2, NearNew, Zenon
  <2> QED BY <1>1, <2>3, Zenon DEF WriteMade
<1>5. /\ blamed \subseteq blamed' /\ ended \subseteq DOMAIN writes
      /\ \A d \in Clients : Fetching(d) /\ Home[d] = n => n \in blamed'
  BY <1>1, NearBlame, Zenon DEF NearData, WriteInv
<1>6. ended' = ended \cup {w} /\ copy'[n] \notin writes'[w].after
  <2>1. NoValue \notin ended
    BY <1>5, NoValueAssumption DEF NearData, WriteInv
  <2> QED BY <1>1, <1>3, <1>4, <2>1, ZenonT(30)
<1>7. SentInv(own)'
  BY <1>4, <1>5, <1>6 DEF NearData, SentInv
<1>8. CallInv(own)'
  BY <1>4, <1>5, <1>6 DEF NearData, CallInv, Fetching
<1>9. OwnerCopyInv(own)'
  BY <1>1, <1>3, <1>4, <1>5, <1>6, Zenon DEF OwnerCopyInv
<1>10. NearCopyInv'
  <2>1. ASSUME NEW x \in DOMAIN writes', Counts(x)', writes'[x].op # "incr",
               writes'[x].node \notin blamed'
        PROVE  copy'[writes'[x].node] \notin writes'[x].after
    <3>1. CASE x = w
      BY <1>4, <1>6, <3>1, Zenon
    <3>2. CASE x # w
      <4>1. x \in DOMAIN writes /\ Counts(x)
        BY <1>4, <1>6, <2>1, <3>2, Zenon DEF Counts
      <4> QED BY <1>4, <2>1, <4>1, Zenon
    <3> QED BY <3>1, <3>2, Zenon
  <2> QED BY <2>1, Zenon DEF NearCopyInv
<1>11. FillInv'
  <2>1. ASSUME NEW d \in Clients, NEW x \in ended', call[d].pc = "fill",
               writes'[x].node = Home[d], Home[d] \notin blamed'
        PROVE  call[d].write \notin writes'[x].after
    <3>1. x # w
      BY <1>1, <1>4, <1>5, <2>1, Zenon DEF Fetching
    <3>2. x \in ended /\ writes'[x] = writes[x] /\ Home[d] \notin blamed
      BY <1>4, <1>5, <1>6, <2>1, <3>1, Zenon
    <3> QED BY <2>1, <3>2, Zenon DEF NearData, FillInv
  <2> QED BY <2>1, Zenon DEF FillInv
<1> QED BY <1>4, <1>7, <1>8, <1>9, <1>10, <1>11, Zenon DEF NearData

\* A write that waits for the owner: c's node has its value, unless it is an Incr.
LEMMA NearRemote ==
  ASSUME NEW own, FixedOwners(own), NearData(own), mode = "NearCache", NEW c \in Clients,
         NEW op \in {"set", "delete", "incr"}, NEW targets \in SUBSET Nodes,
         NewWrite(c, op, targets), call[c] = Over,
         \/ copy' = [copy EXCEPT ![Home[c]] = Stored(op, Len(writes) + 1)]
         \/ copy' = copy /\ op = "incr",
         net' = net \cup {Request(op, own[Home[c]], Len(writes) + 1, c)},
         call' = [call EXCEPT ![c] = [pc |-> "write", write |-> Len(writes) + 1]],
         UNCHANGED ended
  PROVE  NearData(own)'
<1>1. PICK n, w, r : n = Home[c] /\ w = Len(writes) + 1 /\ r = Request(op, own[n], w, c)
  BY Zenon
<1>2. /\ n \in Nodes /\ w \in Nat /\ Stored(op, w) \in {NoValue, w}
      /\ r.op # "get" /\ r.to = own[n] /\ r.write = w
  BY <1>1, HomeAssumption DEF NearData, WriteInv, Stored, Request
<1>3. /\ copy' \in [Nodes -> Nat \cup {NoValue}] /\ (op = "incr" \/ copy'[n] \in {NoValue, w})
      /\ \A k \in Nodes : copy'[k] = copy[k] \/ copy'[k] \in {NoValue, w}
  <2>1. /\ copy \in [Nodes -> Nat \cup {NoValue}]
        /\ copy' = [copy EXCEPT ![n] = Stored(op, w)] \/ (copy' = copy /\ op = "incr")
    BY <1>1, Zenon DEF NearData, OwnerCopyInv
  <2> QED BY <1>2, <2>1, Zenon
<1>4. /\ w \in Nat \ DOMAIN writes /\ w \notin ended
      /\ DOMAIN writes' = DOMAIN writes \cup {w}
      /\ \A x \in DOMAIN writes : writes'[x] = writes[x]
      /\ writes'[w].after = ended /\ writes'[w].op = op /\ writes'[w].node = n
      /\ WriteInv'
      /\ \A x \in ended : copy'[own[writes'[x].node]] \notin writes'[x].after
      /\ \A x \in DOMAIN writes :
           Counts(x) /\ writes'[x].op # "incr" /\ writes'[x].node \notin blamed' =>
             copy'[writes'[x].node] \notin writes'[x].after
  <2>1. w = Len(writes) + 1 /\ ended' \in {ended, ended \cup {w}}
    BY <1>1, Zenon
  <2>2. Writing(c, op, targets, w)
    BY <1>3, <2>1, Zenon DEF Writing
  <2>3. WriteMade(own, c, op, w)
    BY <2>2, NearNew, Zenon
  <2> QED BY <1>1, <2>3, Zenon DEF WriteMade
<1>5. /\ blamed \subseteq blamed' /\ ended \subseteq DOMAIN writes
      /\ \A d \in Clients : Fetching(d) /\ Home[d] = n => n \in blamed'
  BY <1>1, NearBlame, Zenon DEF NearData, WriteInv
<1>6. /\ call' \in [Clients -> NearCalls] /\ call'[c].pc = "write" /\ call'[c].write = w
      /\ \A d \in Clients \ {c} : call'[d] = call[d]
      /\ call[c].pc = "over"
  <2>1. PICK v : v = [pc |-> "write", write |-> w]
    BY Zenon
  <2>2. v \in NearCalls /\ v.pc = "write" /\ v.write = w
    BY <1>2, <2>1, Zenon DEF NearCalls, Calls
  <2>3. call \in [Clients -> NearCalls] /\ call' = [call EXCEPT ![c] = v]
    BY <1>1, <2>1, ZenonT(30) DEF NearData, CallInv
  <2> QED BY <2>2, <2>3 DEF Over
<1>7. SentInv(own)'
  <2>1. net' = net \cup {r}
    BY <1>1, Zenon
  <2> QED BY <1>2, <1>4, <1>5, <1>6, <2>1 DEF NearData, SentInv
<1>8. CallInv(own)'
  <2>1. \A d \in Clients : Fetching(d)' => d # c /\ Fetching(d) /\ call'[d] = call[d]
    BY <1>6, Zenon DEF Fetching
  <2>2. \A d \in Clients : call'[d].pc \in {"read", "near"} => call'[d].seen \subseteq ended'
    BY <1>6, ZenonT(30) DEF NearData, CallInv
  <2>3. \A d \in Clients : call'[d].pc = "write" =>
          call'[d].write \in DOMAIN writes' /\ writes'[call'[d].write].node = Home[d]
    BY <1>1, <1>4, <1>6 DEF NearData, CallInv
  <2>4. ASSUME NEW d \in Clients, NEW e \in Clients, Fetching(d)', Home[d] \notin blamed',
               Home[e] = Home[d]
        PROVE  call'[e].pc # "write"
    <3>1. e # c /\ Home[d] \notin blamed
      BY <1>1, <1>5, <2>1, <2>4, Zenon
    <3> QED BY <1>6, <2>1, <2>4, <3>1, ZenonT(30) DEF NearData, CallInv
  <2>5. \A d \in Clients : Fetching(d)' => own[Home[d]] # Home[d]
    BY <2>1, Zenon DEF NearData, CallInv
  <2> QED BY <1>6, <2>2, <2>3, <2>4, <2>5, Zenon DEF CallInv
<1>9. OwnerCopyInv(own)'
  BY <1>3, <1>4, Zenon DEF OwnerCopyInv
<1>10. NearCopyInv'
  <2>1. ASSUME NEW x \in DOMAIN writes', Counts(x)', writes'[x].op # "incr",
               writes'[x].node \notin blamed'
        PROVE  copy'[writes'[x].node] \notin writes'[x].after
    <3>1. CASE x = w
      <4>1. NoValue \notin ended
        BY <1>5, NoValueAssumption DEF NearData, WriteInv
      <4> QED BY <1>3, <1>4, <2>1, <3>1, <4>1, Zenon
    <3>2. CASE x # w
      <4>1. x \in DOMAIN writes /\ Counts(x)
        BY <1>4, <1>6, <2>1, <3>2, ZenonT(30) DEF Counts
      <4> QED BY <1>4, <2>1, <4>1, Zenon
    <3> QED BY <3>1, <3>2, Zenon
  <2> QED BY <2>1, Zenon DEF NearCopyInv
<1>11. FillInv'
  BY <1>4, <1>5, <1>6 DEF NearData, FillInv
<1> QED BY <1>4, <1>7, <1>8, <1>9, <1>10, <1>11, Zenon DEF NearData

LEMMA NearWriteKeeps ==
  ASSUME NEW own, FixedOwners(own), NearData(own), mode = "NearCache", NEW c \in Clients,
         NEW op \in {"set", "delete", "incr"}, NearWrite(c, op) \/ OwnerWrite(c, op)
  PROVE  FixedOwners(own)' /\ NearData(own)'
<1>1. Home[c] \in Nodes /\ own[Home[c]] \in Nodes /\ ownerAddr(Home[c]) = own[Home[c]]
  BY HomeAssumption, Zenon DEF FixedOwners
<1>2. call[c] = Over /\ UNCHANGED memberVars
  BY Zenon DEF NearWrite, OwnerWrite, CanCall
<1>3. PICK targets \in SUBSET Nodes : NewWrite(c, op, targets)
  BY <1>1, Zenon DEF NearWrite, OwnerWrite
<1>4. CASE own[Home[c]] = Home[c]
  <2>1. /\ copy' = [copy EXCEPT ![Home[c]] = Stored(op, Len(writes) + 1)]
        /\ ended' = ended \cup {Len(writes) + 1} /\ UNCHANGED <<net, call>>
    BY <1>1, <1>4, Zenon DEF NearWrite, OwnerWrite
  <2> QED BY <1>2, <1>3, <1>4, <2>1, SameOwners, NearLocal, Zenon
<1>5. CASE own[Home[c]] # Home[c]
  <2>1. /\ net' = net \cup {Request(op, own[Home[c]], Len(writes) + 1, c)}
        /\ call' = [call EXCEPT ![c] = [pc |-> "write", write |-> Len(writes) + 1]]
        /\ UNCHANGED ended
    BY <1>1, <1>5, Zenon DEF NearWrite, OwnerWrite
  <2>2. \/ copy' = [copy EXCEPT ![Home[c]] = Stored(op, Len(writes) + 1)]
        \/ copy' = copy /\ op = "incr"
    <3>1. CASE NearWrite(c, op)
      BY <3>1, Zenon DEF NearWrite
    <3>2. CASE OwnerWrite(c, op)
      BY <1>1, <1>5, <3>2, Zenon DEF OwnerWrite
    <3> QED BY <3>1, <3>2, Zenon
  <2> QED BY <1>2, <1>3, <2>1, <2>2, SameOwners, NearRemote, Zenon
<1> QED BY <1>4, <1>5, Zenon

\* A call that asks the owner; one that fetches a near copy while a write of
\* its node is waited for is blamed.
LEMMA NearAsks ==
  ASSUME NEW own, FixedOwners(own), NearData(own), NEW c \in Clients, NEW pc \in {"read", "near"},
         call[c] = Over, own[Home[c]] # Home[c], UNCHANGED <<copy, writes, ended>>,
         call' = [call EXCEPT ![c] = [pc |-> pc, seen |-> ended]],
         net' = net \cup {Request("get", own[Home[c]], NoValue, c)},
         blamed \subseteq blamed',
         pc = "near" /\ At(Home[c], {"write"}) => Home[c] \in blamed'
  PROVE  NearData(own)'
<1>1. PICK r : r = Request("get", own[Home[c]], NoValue, c)
  BY Zenon
<1>2. r.op = "get" /\ r.to = own[Home[c]] /\ r.by = c /\ net' = net \cup {r}
  BY <1>1, ZenonT(30) DEF Request
<1>3. /\ call' \in [Clients -> NearCalls] /\ call'[c].pc = pc /\ call'[c].seen = ended
      /\ \A d \in Clients \ {c} : call'[d] = call[d]
      /\ call[c].pc = "over"
  <2>1. PICK v : v = [pc |-> pc, seen |-> ended]
    BY Zenon
  <2>2. v \in NearCalls /\ v.pc = pc /\ v.seen = ended
    <3>1. ended \in SUBSET Nat
      BY DEF NearData, WriteInv
    <3> QED BY <2>1, <3>1, Zenon DEF NearCalls, Calls
  <2>3. call \in [Clients -> NearCalls] /\ call' = [call EXCEPT ![c] = v]
    BY <2>1, Zenon DEF NearData, CallInv
  <2> QED BY <2>2, <2>3 DEF Over
<1>4. WriteInv'
  BY Zenon DEF NearData, WriteInv
<1>5. SentInv(own)'
  BY <1>2, <1>3 DEF NearData, SentInv
<1>6. CallInv(own)'
  <2>1. \A d \in Clients : call'[d].pc = "write" =>
          d # c /\ call'[d].write \in DOMAIN writes' /\ writes'[call'[d].write].node = Home[d]
    BY <1>3, Zenon DEF NearData, CallInv
  <2>2. \A d \in Clients : call'[d].pc \in {"read", "near"} => call'[d].seen \subseteq ended'
    BY <1>3, Zenon DEF NearData, CallInv
  <2>3. \A d \in Clients : Fetching(d)' => Fetching(d) \/ (d = c /\ pc = "near")
    BY <1>3, Zenon DEF Fetching
  <2>4. \A d \in Clients : Fetching(d)' => own[Home[d]] # Home[d]
    BY <2>3, Zenon DEF NearData, CallInv
  <2>5. ASSUME NEW d \in Clients, NEW e \in Clients, Fetching(d)', Home[d] \notin blamed',
               Home[e] = Home[d], call'[e].pc = "write"
        PROVE  FALSE
    <3>1. call[e].pc = "write" /\ Home[d] \notin blamed
      BY <1>3, <2>1, <2>5, Zenon
    <3>2. At(Home[d], {"write"})
      BY <2>5, <3>1, Zenon DEF At
    <3> QED BY <2>3, <2>5, <3>1, <3>2, Zenon DEF NearData, CallInv
  <2> QED BY <1>3, <2>1, <2>2, <2>4, <2>5, Zenon DEF CallInv
<1>7. OwnerCopyInv(own)'
  BY Zenon DEF NearData, OwnerCopyInv
<1>8. NearCopyInv'
  <2>1. \A x : Counts(x)' => Counts(x)
    BY <1>3, Zenon DEF Counts
  <2> QED BY <2>1, Zenon DEF NearData, NearCopyInv
<1>9. FillInv'
  BY <1>3, Zenon DEF NearData, FillInv
<1> QED BY <1>4, <1>5, <1>6, <1>7, <1>8, <1>9, Zenon DEF NearData

\* A call gives up, or requests and copies vanish.
LEMMA NearQuiet ==
  ASSUME NEW own, NearData(own), UNCHANGED <<writes, ended>>, blamed \subseteq blamed',
         net' \subseteq net, copy' \in [Nodes -> Nat \cup {NoValue}],
         \A n \in Nodes : copy'[n] \in {copy[n], NoValue}, FixedOwners(own),
         call' \in [Clients -> NearCalls],
         \A c \in Clients : call'[c] \in {call[c], Over},
         \A m \in net' : m.op = "get" => call'[m.by] = call[m.by]
  PROVE  NearData(own)'
<1>1. WriteInv' /\ WriteInv
  BY Zenon DEF NearData, WriteInv
<1>2. SentInv(own)'
  BY Zenon DEF NearData, SentInv
<1>3. Over.pc = "over"
  BY Zenon DEF Over
<1>4. CallInv(own)'
  <2>1. \A c \in Clients : call'[c].pc # "over" => call'[c] = call[c]
    BY <1>3, Zenon
  <2> QED BY <2>1, ZenonT(30) DEF NearData, CallInv, Fetching
<1>5. \A x \in DOMAIN writes : writes[x].node \in Nodes /\ own[writes[x].node] \in Nodes
                               /\ NoValue \notin writes[x].after
  <2>1. \A x \in DOMAIN writes : writes[x] \in Writes
    BY <1>1 DEF WriteInv
  <2> QED BY <2>1, NoValueAssumption, Zenon DEF Writes, FixedOwners
<1>6. OwnerCopyInv(own)'
  <2>1. ended \subseteq DOMAIN writes
    BY <1>1, Zenon DEF WriteInv
  <2> QED BY <1>5, <2>1, Zenon DEF NearData, OwnerCopyInv
<1>7. NearCopyInv'
  <2>1. \A x : Counts(x)' => Counts(x)
    BY <1>3, Zenon DEF Counts
  <2> QED BY <1>5, <2>1, Zenon DEF NearData, NearCopyInv
<1>8. FillInv'
  BY <1>3, Zenon DEF NearData, FillInv
<1> QED BY <1>1, <1>2, <1>4, <1>6, <1>7, <1>8, Zenon DEF NearData

LEMMA NearLossKeeps ==
  ASSUME NEW own, FixedOwners(own), NearData(own),
         \/ \E c \in Clients : CallFails(c)
         \/ \E m \in net : Lost(m)
         \/ \E n \in Nodes : Lose(n)
         \/ UNCHANGED <<memberVars, dataVars>>
  PROVE  FixedOwners(own)' /\ NearData(own)'
<1>1. copy \in [Nodes -> Nat \cup {NoValue}] /\ call \in [Clients -> NearCalls]
  BY Zenon DEF NearData, OwnerCopyInv, CallInv
<1>2. ASSUME NEW c \in Clients, CallFails(c) PROVE FixedOwners(own)' /\ NearData(own)'
  <2>1. /\ UNCHANGED <<copy, writes, ended, blamed>> /\ call' = [call EXCEPT ![c] = Over]
        /\ net' = {m \in net : ~(m.op = "get" /\ m.by = c)} /\ UNCHANGED memberVars
    BY <1>2, Zenon DEF CallFails
  <2>2. /\ call' \in [Clients -> NearCalls] /\ call'[c] = Over
        /\ \A d \in Clients \ {c} : call'[d] = call[d]
    BY <1>1, <2>1, Zenon DEF NearCalls, Calls
  <2>3. \A m \in net' : m \in net /\ (m.op = "get" => m.by \in Clients \ {c})
    BY <2>1, Zenon DEF NearData, SentInv
  <2>4. NearData(own)'
    BY <1>1, <2>1, <2>2, <2>3, NearQuiet, Zenon
  <2> QED BY <2>1, <2>4, SameOwners, Zenon
<1>3. ASSUME NEW m \in net, Lost(m) PROVE FixedOwners(own)' /\ NearData(own)'
  <2>1. /\ UNCHANGED memberVars /\ UNCHANGED <<copy, call, writes, ended>> /\ net' = net \ {m}
        /\ blamed \subseteq blamed'
    BY <1>3, Zenon DEF Lost
  <2>2. NearData(own)'
    BY <1>1, <2>1, NearQuiet, Zenon
  <2> QED BY <2>1, <2>2, SameOwners, Zenon
<1>4. ASSUME NEW n \in Nodes, Lose(n) PROVE FixedOwners(own)' /\ NearData(own)'
  <2>1. /\ UNCHANGED memberVars /\ UNCHANGED <<net, call, writes, ended, blamed>>
        /\ copy' = [copy EXCEPT ![n] = NoValue]
    BY <1>4, Zenon DEF Lose
  <2>2. /\ copy' \in [Nodes -> Nat \cup {NoValue}]
        /\ \A k \in Nodes : copy'[k] \in {copy[k], NoValue}
    BY <1>1, <2>1, Zenon
  <2>3. NearData(own)'
    BY <1>1, <2>1, <2>2, NearQuiet, Zenon
  <2> QED BY <2>1, <2>3, SameOwners, Zenon
<1>5. ASSUME UNCHANGED <<memberVars, dataVars>> PROVE FixedOwners(own)' /\ NearData(own)'
  <2>1. UNCHANGED memberVars /\ UNCHANGED <<copy, net, call, writes, ended, blamed>>
    BY <1>5, Zenon DEF dataVars
  <2>2. NearData(own)'
    BY <1>1, <2>1, NearQuiet, Zenon
  <2> QED BY <2>1, <2>2, SameOwners, Zenon
<1> QED BY <1>2, <1>3, <1>4, <1>5, Zenon

LEMMA NoReadSeen == ASSUME read' = NoRead PROVE OwnWritesSeen'
  BY Zenon DEF OwnWritesSeen, NoRead, Read

\* What is to be shown of a read of node n that got v.
LEMMA SeenRead ==
  ASSUME NEW n, NEW v, NEW from, NEW seen, read' = Read(n, v, from, seen),
         UNCHANGED <<writes, blamed>>,
         \A x \in seen : writes[x].op # "incr" /\ writes[x].node = n /\ n \notin blamed =>
           v \notin writes[x].after
  PROVE  OwnWritesSeen'
<1>1. read'.got = v /\ read'.by = n /\ read'.seen = seen
  BY Zenon DEF Read
<1> QED BY <1>1, Zenon DEF OwnWritesSeen, Supersedes

LEMMA NearLocalRead ==
  ASSUME NEW own, NearData(own), NEW n, read' = Read(n, copy[n], n, ended),
         UNCHANGED <<writes, blamed>>
  PROVE  OwnWritesSeen'
<1>1. \A x \in ended : writes[x].op # "incr" /\ writes[x].node = n /\ n \notin blamed =>
        copy[n] \notin writes[x].after
  BY Zenon DEF NearData, NearCopyInv, WriteInv, Counts
<1> QED BY <1>1, SeenRead

LEMMA NearReadKeeps ==
  ASSUME NEW own, FixedOwners(own), NearData(own), NEW c \in Clients, OwnerRead(c) \/ NearGet(c)
  PROVE  FixedOwners(own)' /\ NearData(own)' /\ OwnWritesSeen'
<1>1. Home[c] \in Nodes /\ ownerAddr(Home[c]) = own[Home[c]]
  BY HomeAssumption, Zenon DEF FixedOwners
<1>2. call[c] = Over /\ UNCHANGED <<memberVars, mode, copy, writes, ended>>
  BY Zenon DEF OwnerRead, NearGet, CanCall
<1>3. CASE LocalRead(Home[c]) /\ UNCHANGED <<net, blamed>>
  <2>1. UNCHANGED <<memberVars, dataVars>>
    BY <1>2, <1>3, Zenon DEF LocalRead, dataVars
  <2>2. OwnWritesSeen'
    BY <1>2, <1>3, NearLocalRead, Zenon DEF LocalRead
  <2> QED BY <2>1, <2>2, NearLossKeeps, Zenon
<1>4. ASSUME NEW pc \in {"read", "near"}, Asks(c, pc), own[Home[c]] # Home[c],
             net' = net \cup {Request("get", own[Home[c]], NoValue, c)},
             blamed \subseteq blamed',
             pc = "near" /\ At(Home[c], {"write"}) => Home[c] \in blamed'
      PROVE  FixedOwners(own)' /\ NearData(own)' /\ OwnWritesSeen'
  <2>1. call' = [call EXCEPT ![c] = [pc |-> pc, seen |-> ended]] /\ read' = NoRead
    BY <1>4, Zenon DEF Asks
  <2>2. NearData(own)'
    BY <1>2, <1>4, <2>1, NearAsks, Zenon
  <2> QED BY <1>2, <2>1, <2>2, SameOwners, NoReadSeen, Zenon
<1>5. CASE OwnerRead(c)
  <2>1. blamed' = blamed
    BY <1>5, Zenon DEF OwnerRead
  <2>2. CASE own[Home[c]] = Home[c]
    BY <1>1, <1>3, <1>5, <2>1, <2>2, Zenon DEF OwnerRead
  <2>3. CASE own[Home[c]] # Home[c]
    <3>1. Asks(c, "read") /\ net' = net \cup {Request("get", own[Home[c]], NoValue, c)}
      BY <1>1, <1>5, <2>3, Zenon DEF OwnerRead
    <3> QED BY <1>4, <2>1, <2>3, <3>1, Zenon
  <2> QED BY <2>2, <2>3, Zenon
<1>6. CASE NearGet(c)
  <2>1. CASE own[Home[c]] = Home[c] \/ copy[Home[c]] # NoValue
    BY <1>1, <1>3, <1>6, <2>1, Zenon DEF NearGet
  <2>2. CASE ~(own[Home[c]] = Home[c] \/ copy[Home[c]] # NoValue)
    <3>1. /\ Asks(c, "near") /\ net' = net \cup {Request("get", own[Home[c]], NoValue, c)}
          /\ blamed' = IF At(Home[c], {"write"}) THEN blamed \cup {Home[c]} ELSE blamed
      BY <1>1, <1>6, <2>2, Zenon DEF NearGet
    <3>2. /\ blamed \subseteq blamed'
          /\ At(Home[c], {"write"}) => Home[c] \in blamed'
      BY <3>1, Zenon
    <3> QED BY <1>4, <2>2, <3>1, <3>2, Zenon
  <2> QED BY <2>1, <2>2, Zenon
<1> QED BY <1>5, <1>6, Zenon

LEMMA NearHandleReadKeeps ==
  ASSUME NEW own, FixedOwners(own), NearData(own), NEW m \in net, HandleRead(m)
  PROVE  FixedOwners(own)' /\ NearData(own)' /\ OwnWritesSeen'
<1>1. PICK c, got : c = m.by /\ got = copy[m.to]
  BY Zenon
<1>2. /\ m.op = "get" /\ c \in Clients /\ call[c].pc \in {"read", "near"}
      /\ m.to = own[Home[c]] /\ call[c].seen \subseteq ended
  BY <1>1, Zenon DEF HandleRead, NearData, SentInv, CallInv
<1>3. PICK k : k = IF call[c].pc = "near" /\ got # NoValue THEN [pc |-> "fill", write |-> got] ELSE Over
  BY Zenon
<1>4. /\ UNCHANGED memberVars /\ UNCHANGED <<copy, writes, ended, blamed>> /\ net' = net \ {m}
      /\ read' = Read(Home[c], got, m.to, call[c].seen)
      /\ call' = [call EXCEPT ![c] = k]
  BY <1>1, <1>3, Zenon DEF HandleRead
<1>5. \A x \in ended : writes[x].node = Home[c] => got \notin writes[x].after
  BY <1>1, <1>2, Zenon DEF NearData, OwnerCopyInv
<1>6. OwnWritesSeen'
  BY <1>2, <1>4, <1>5, SeenRead
<1>7. got \in Nat \cup {NoValue}
  BY <1>1, <1>2, HomeAssumption, ZenonT(30) DEF NearData, OwnerCopyInv, FixedOwners
<1>8. /\ k \in NearCalls /\ k.pc \in {"fill", "over"}
      /\ k.pc = "fill" => call[c].pc = "near" /\ k.write = got
  BY <1>3, <1>7, Zenon DEF NearCalls, Calls, Over
<1>9. call' \in [Clients -> NearCalls] /\ call'[c] = k /\ \A d \in Clients \ {c} : call'[d] = call[d]
  <2>1. call \in [Clients -> NearCalls]
    BY Zenon DEF NearData, CallInv
  <2> QED BY <1>2, <1>4, <1>8, <2>1, Zenon
<1>10. WriteInv' /\ OwnerCopyInv(own)'
  BY <1>4, ZenonT(30) DEF NearData, WriteInv, OwnerCopyInv
<1>11. SentInv(own)'
  <2>1. \A r \in net' : r \in net /\ r # m
    BY <1>4, ZenonT(30)
  <2> QED BY <1>1, <1>2, <1>4, <1>9, <2>1 DEF NearData, SentInv
<1>12. CallInv(own)'
  <2>1. \A d \in Clients : Fetching(d)' => Fetching(d)
    BY <1>8, <1>9, Zenon DEF Fetching
  <2>2. \A d \in Clients : call'[d].pc \in {"read", "near", "write"} => call'[d] = call[d]
    BY <1>8, <1>9, Zenon
  <2> QED BY <1>4, <1>9, <2>1, <2>2 DEF NearData, CallInv
<1>13. NearCopyInv'
  <2>1. \A x : Counts(x)' => Counts(x)
    BY <1>4, <1>8, <1>9, Zenon DEF Counts
  <2> QED BY <1>4, <2>1, Zenon DEF NearData, NearCopyInv
<1>14. FillInv'
  <2>1. ASSUME NEW d \in Clients, NEW x \in ended, call'[d].pc = "fill",
               writes[x].node = Home[d], Home[d] \notin blamed
        PROVE  call'[d].write \notin writes[x].after
    <3>1. CASE d = c
      BY <1>5, <1>8, <1>9, <2>1, <3>1, Zenon
    <3>2. CASE d # c
      BY <1>9, <2>1, <3>2, Zenon DEF NearData, FillInv
    <3> QED BY <3>1, <3>2, Zenon
  <2> QED BY <1>4, <2>1, Zenon DEF FillInv
<1>15. NearData(own)'
  BY <1>10, <1>11, <1>12, <1>13, <1>14, Zenon DEF NearData
<1> QED BY <1>4, <1>6, <1>15, SameOwners, Zenon

\* A request reaches the owner.  If its write ends, no call of its node was
\* fetching a near copy, or the node is blamed.
LEMMA NearHandleKeeps ==
  ASSUME NEW own, FixedOwners(own), NearData(own), NEW m \in net, NEW answered \in BOOLEAN,
         HandleWrite(m, answered)
  PROVE  FixedOwners(own)' /\ NearData(own)'
<1>1. PICK w : w = m.write
  BY Zenon
<1>2. /\ WriteInv /\ m.op # "get" /\ w \in DOMAIN writes \ ended /\ m.to = own[writes[w].node]
      /\ ended \subseteq DOMAIN writes
  BY <1>1, Zenon DEF HandleWrite, NearData, SentInv, WriteInv
<1>3. \A x \in DOMAIN writes : writes[x].node \in Nodes /\ own[writes[x].node] \in Nodes
                               /\ x \in Nat
  <2>1. \A x \in DOMAIN writes : writes[x] \in Writes /\ x \in Nat
    BY <1>2 DEF WriteInv
  <2> QED BY <2>1, Zenon DEF Writes, FixedOwners
<1>4. /\ UNCHANGED memberVars /\ UNCHANGED <<writes, blamed>> /\ net' = net \ {m}
      /\ copy' = [copy EXCEPT ![m.to] = Stored(m.op, w)]
  BY <1>1, Zenon DEF HandleWrite
<1>5. \/ ended' = ended /\ call' = call
      \/ /\ ended' = ended \cup {w} /\ m.by \in Clients /\ call[m.by].pc = "write"
         /\ call[m.by].write = w /\ call' = [call EXCEPT ![m.by] = Over]
  BY <1>1, Zenon DEF HandleWrite, Awaits
<1>6. /\ copy' \in [Nodes -> Nat \cup {NoValue}] /\ copy'[m.to] \in {NoValue, w}
      /\ \A k \in Nodes : copy'[k] = copy[k] \/ copy'[k] \in {NoValue, w}
  <2>1. Stored(m.op, w) \in {NoValue, w} /\ m.to \in Nodes /\ w \in Nat
    BY <1>2, <1>3, Zenon DEF Stored
  <2>2. copy \in [Nodes -> Nat \cup {NoValue}]
    BY Zenon DEF NearData, OwnerCopyInv
  <2> QED BY <1>4, <2>1, <2>2, SetCopy, Zenon
<1>7. \A x \in DOMAIN writes, k \in Nodes :
        copy[k] \notin writes[x].after \/ copy'[k] \in {NoValue, w} => copy'[k] \notin writes[x].after
  BY <1>2, <1>3, <1>6, NewValue, Zenon
<1>8. /\ call' \in [Clients -> NearCalls] /\ ended \subseteq ended'
      /\ ended' \subseteq ended \cup {w}
      /\ \A d \in Clients : call'[d] = call[d] \/ (call'[d] = Over /\ call[d].pc = "write")
  BY <1>5, ZenonT(30) DEF NearData, CallInv, NearCalls, Calls
<1>9. Over.pc = "over"
  BY Zenon DEF Over
<1>10. WriteInv'
  BY <1>2, <1>4, <1>8, Zenon DEF WriteInv
<1>11. SentInv(own)'
  <2>1. \A r \in net' : r \in net /\ (r.op # "get" => r.write # w)
    BY <1>1, <1>2, <1>4, Zenon DEF NearData, SentInv
  <2>2. \A r \in net' : r.op = "get" => call'[r.by] = call[r.by]
    BY <1>8, <2>1, Zenon DEF NearData, SentInv
  <2> QED BY <1>4, <1>8, <2>1, <2>2 DEF NearData, SentInv
<1>12. CallInv(own)'
  <2>1. \A d \in Clients : call'[d].pc # "over" => call'[d] = call[d]
    BY <1>8, <1>9, Zenon
  <2> QED BY <1>4, <1>8, <2>1, ZenonT(30) DEF NearData, CallInv, Fetching
<1>13. OwnerCopyInv(own)'
  <2>1. ASSUME NEW x \in ended' PROVE copy'[own[writes[x].node]] \notin writes[x].after
    <3>1. x \in ended \/ x = w
      BY <1>8, Zenon
    <3>2. x \in DOMAIN writes
      BY <1>2, <3>1, Zenon
    <3>3. copy[own[writes[x].node]] \notin writes[x].after \/ copy'[own[writes[x].node]] \in {NoValue, w}
      BY <1>2, <1>6, <3>1, Zenon DEF NearData, OwnerCopyInv
    <3> QED BY <1>3, <1>7, <3>2, <3>3, Zenon
  <2> QED BY <1>4, <1>6, <2>1, Zenon DEF OwnerCopyInv
<1>14. NearCopyInv'
  <2>1. \A x : Counts(x)' => Counts(x)
    BY <1>5, <1>8, <1>9, Zenon DEF Counts
  <2> QED BY <1>3, <1>4, <1>7, <2>1, Zenon DEF NearData, NearCopyInv
<1>15. FillInv'
  <2>1. ASSUME NEW d \in Clients, NEW x \in ended', call'[d].pc = "fill",
               writes[x].node = Home[d], Home[d] \notin blamed
        PROVE  call'[d].write \notin writes[x].after
    <3>1. call'[d] = call[d] /\ Fetching(d)
      BY <1>8, <1>9, <2>1, Zenon DEF Fetching
    <3>2. x \in ended
      <4>1. ASSUME x \notin ended PROVE FALSE
        <5>1. x = w /\ m.by \in Clients /\ call[m.by].pc = "write" /\ call[m.by].write = w
          BY <1>5, <1>8, <4>1, Zenon
        <5>2. Home[m.by] = Home[d]
          BY <2>1, <5>1, Zenon DEF NearData, CallInv
        <5> QED BY <2>1, <3>1, <5>1, <5>2, Zenon DEF NearData, CallInv
      <4> QED BY <4>1, Zenon
    <3> QED BY <2>1, <3>1, <3>2, Zenon DEF NearData, FillInv
  <2> QED BY <1>4, <2>1, Zenon DEF FillInv
<1>16. NearData(own)'
  BY <1>10, <1>11, <1>12, <1>13, <1>14, <1>15, Zenon DEF NearData
<1> QED BY <1>4, <1>16, SameOwners, Zenon

\* A value fetched from the owner becomes the near copy.
LEMMA NearFillKeeps ==
  ASSUME NEW own, FixedOwners(own), NearData(own), NEW c \in Clients, Fill(c)
  PROVE  FixedOwners(own)' /\ NearData(own)'
<1>1. PICK n, v : n = Home[c] /\ v = call[c].write
  BY Zenon
<1>2. /\ n \in Nodes /\ call[c].pc = "fill" /\ Fetching(c) /\ own[n] # n /\ v \in Nat
      /\ call \in [Clients -> NearCalls] /\ copy \in [Nodes -> Nat \cup {NoValue}]
  <2>1. n \in Nodes /\ call[c].pc = "fill"
    BY <1>1, HomeAssumption, Zenon DEF Fill
  <2>2. call \in [Clients -> NearCalls] /\ copy \in [Nodes -> Nat \cup {NoValue}]
    BY Zenon DEF NearData, CallInv, OwnerCopyInv
  <2>3. Fetching(c) /\ v \in Nat
    BY <1>1, <2>1, <2>2 DEF Fetching, NearCalls, Calls, Over
  <2> QED BY <1>1, <2>1, <2>2, <2>3, Zenon DEF NearData, CallInv
<1>3. /\ UNCHANGED memberVars /\ UNCHANGED <<net, writes, ended, blamed>>
      /\ copy' = [copy EXCEPT ![n] = v] /\ call' = [call EXCEPT ![c] = Over]
  BY <1>1, Zenon DEF Fill
<1>4. /\ copy' \in [Nodes -> Nat \cup {NoValue}] /\ copy'[n] = v
      /\ \A k \in Nodes \ {n} : copy'[k] = copy[k]
      /\ call' \in [Clients -> NearCalls] /\ call'[c].pc = "over"
      /\ \A d \in Clients \ {c} : call'[d] = call[d]
  <2>1. Over \in NearCalls /\ Over.pc = "over"
    BY Zenon DEF NearCalls, Calls, Over
  <2> QED BY <1>2, <1>3, <2>1, Zenon
<1>5. WriteInv'
  BY <1>3, Zenon DEF NearData, WriteInv
<1>6. SentInv(own)'
  <2>1. \A r \in net : r.op = "get" => r.by # c
    BY <1>2, Zenon DEF NearData, SentInv
  <2> QED BY <1>3, <1>4, <2>1, ZenonT(30) DEF NearData, SentInv
<1>7. CallInv(own)'
  <2>1. \A d \in Clients : call'[d].pc # "over" => call'[d] = call[d]
    BY <1>4, Zenon
  <2> QED BY <1>3, <1>4, <2>1 DEF NearData, CallInv, Fetching
<1>8. \A x \in DOMAIN writes : writes[x].node \in Nodes
  <2>1. \A x \in DOMAIN writes : writes[x] \in Writes
    BY DEF NearData, WriteInv
  <2> QED BY <2>1, Zenon DEF Writes
<1>9. OwnerCopyInv(own)'
  <2>1. ASSUME NEW x \in ended PROVE copy'[own[writes[x].node]] \notin writes[x].after
    <3>1. writes[x].node \in Nodes
      BY <1>8, Zenon DEF NearData, WriteInv
    <3>2. own[writes[x].node] \in Nodes \ {n}
      BY <1>2, <3>1, Zenon DEF FixedOwners
    <3> QED BY <1>4, <3>2, Zenon DEF NearData, OwnerCopyInv
  <2> QED BY <1>3, <1>4, <2>1, Zenon DEF OwnerCopyInv
<1>10. NearCopyInv'
  <2>1. \A x : Counts(x)' => Counts(x)
    BY <1>3, <1>4, Zenon DEF Counts
  <2>2. ASSUME NEW x \in DOMAIN writes, Counts(x), writes[x].op # "incr", writes[x].node \notin blamed
        PROVE  copy'[writes[x].node] \notin writes[x].after
    <3>1. CASE writes[x].node # n
      BY <1>4, <1>8, <2>2, <3>1, Zenon DEF NearData, NearCopyInv
    <3>2. CASE writes[x].node = n
      <4>1. x \in ended
        BY <1>1, <1>2, <2>2, <3>2 DEF NearData, CallInv, Counts
      <4> QED BY <1>1, <1>2, <1>4, <2>2, <3>2, <4>1, ZenonT(30) DEF NearData, FillInv
    <3> QED BY <3>1, <3>2, Zenon
  <2> QED BY <1>3, <2>1, <2>2, Zenon DEF NearCopyInv
<1>11. FillInv'
  BY <1>3, <1>4, Zenon DEF NearData, FillInv
<1>12. NearData(own)'
  BY <1>5, <1>6, <1>7, <1>9, <1>10, <1>11, Zenon DEF NearData
<1> QED BY <1>3, <1>12, SameOwners, Zenon

-----------------------------------------------------------------------------
LEMMA ChurnGrows ==
  ASSUME churn \in Nat, [Next]_vars
  PROVE  churn' \in Nat /\ (churn' = 0 => churn = 0)
<1>1. \/ UNCHANGED memberVars
      \/ MemberNext \/ (\E n \in Nodes : Start(n)) \/ (\E n \in Nodes : Crash(n))
  <2>1. ReadStep => UNCHANGED memberVars
    BY Zenon DEF ReadStep, LocalGet, OwnerRead, NearGet, HandleRead
  <2>2. \A c \in Clients : Set(c) \/ Delete(c) \/ Incr(c) => UNCHANGED memberVars
    BY Zenon DEF Set, Delete, Incr, ReplicatedWrite, OwnerWrite, NearWrite
  <2>3. /\ \A c \in Clients : Fill(c) \/ CallFails(c) => UNCHANGED memberVars
        /\ \A m \in net, a \in BOOLEAN : Lost(m) \/ HandleWrite(m, a) => UNCHANGED memberVars
        /\ \A n \in Nodes : Lose(n) => UNCHANGED memberVars
    BY Zenon DEF Fill, CallFails, Lost, HandleWrite, Lose
  <2>4. WriteStep => UNCHANGED memberVars
    BY <2>2, <2>3, Zenon DEF WriteStep
  <2>5. UNCHANGED vars => UNCHANGED memberVars
    BY Zenon DEF vars
  <2> QED BY <2>1, <2>4, <2>5, Zenon DEF Next, ChurnStep, CrashNode
<1>2. UNCHANGED memberVars \/ churn' = churn \/ churn' = churn + 1
  BY <1>1, Zenon
    DEF MemberNext, UpdateRing, Shutdown, NotifyJoin, NotifyLeave, Start, Crash, Happens
<1>3. churn' = churn \/ churn' = churn + 1
  BY <1>2, Zenon DEF memberVars
<1> QED BY <1>3

LEMMA NInvNext == NInv /\ OwnWritesSeen /\ [Next]_vars => NInv' /\ OwnWritesSeen'
<1> SUFFICES ASSUME NInv, OwnWritesSeen, [Next]_vars PROVE NInv' /\ OwnWritesSeen'
  BY Zenon
<1>1. churn' \in Nat /\ (churn' = 0 => churn = 0)
  BY ChurnGrows, Zenon DEF NInv
<1>2. mode' = mode
  BY ModeKept, Zenon DEF vars, dataVars
<1>3. SUFFICES ASSUME mode = "NearCache", churn = 0, churn' = 0
               PROVE  NearInv' /\ OwnWritesSeen'
  BY <1>1, <1>2, Zenon DEF NInv, OwnWritesSeen
<1>4. PICK own : FixedOwners(own) /\ NearData(own)
  BY <1>3, Zenon DEF NInv, NearInv
<1>5. SUFFICES FixedOwners(own)' /\ NearData(own)' /\ OwnWritesSeen'
  BY Zenon DEF NearInv
<1>6. CASE UNCHANGED vars
  <2>1. UNCHANGED <<memberVars, dataVars>> /\ read' = read
    BY <1>6, Zenon DEF vars
  <2>2. OwnWritesSeen'
    BY <1>3, <2>1, Zenon DEF OwnWritesSeen, Supersedes, dataVars
  <2> QED BY <1>4, <2>1, <2>2, NearLossKeeps, Zenon
<1>7. CASE ReadStep
  <2>1. \/ \E c \in Clients : OwnerRead(c) \/ NearGet(c)
        \/ \E m \in net : HandleRead(m)
    BY <1>3, <1>7, Zenon DEF ReadStep, LocalGet
  <2> QED BY <1>4, <2>1, NearReadKeeps, NearHandleReadKeeps, Zenon
<1>8. CASE WriteStep /\ read' = NoRead
  <2>1. CASE \E c \in Clients : Set(c) \/ Delete(c) \/ Incr(c)
    <3>1. \E c \in Clients, op \in {"set", "delete", "incr"} : NearWrite(c, op) \/ OwnerWrite(c, op)
      BY <1>3, <2>1, Zenon DEF Set, Delete, Incr, ReplicatedWrite
    <3> QED BY <1>3, <1>4, <1>8, <3>1, NearWriteKeeps, NoReadSeen, Zenon
  <2>2. CASE \E c \in Clients : Fill(c)
    BY <1>4, <1>8, <2>2, NearFillKeeps, NoReadSeen, Zenon
  <2>3. CASE \E m \in net : \E answered \in BOOLEAN : HandleWrite(m, answered)
    BY <1>4, <1>8, <2>3, NearHandleKeeps, NoReadSeen, Zenon
  <2>4. CASE \/ \E c \in Clients : CallFails(c)
             \/ \E m \in net : Lost(m)
             \/ \E n \in Nodes : Lose(n)
    BY <1>4, <1>8, <2>4, NearLossKeeps, NoReadSeen, Zenon
  <2> QED BY <1>8, <2>1, <2>2, <2>3, <2>4, Zenon DEF WriteStep
\* What changes the membership counts as churn, and no callback is under way.
<1>9. CASE ChurnStep
  <2>1. ~Happens
    BY <1>3 DEF Happens
  <2>2. \A n \in Nodes : ~UpdateRing(n)
    BY <1>4, Zenon DEF FixedOwners, UpdateRing
  <2> QED BY <1>9, <2>1, <2>2, Zenon
          DEF ChurnStep, CrashNode, MemberNext, Shutdown, NotifyJoin, NotifyLeave, Start, Crash
<1> QED BY <1>6, <1>7, <1>8, <1>9, Zenon DEF Next

\* While the membership does not change, a node in NearCache mode reads its own
\* Sets and Deletes, with any number of nodes, goroutines and writes.
THEOREM OwnWritesCorrect == Spec => []OwnWritesSeen
<1> QED BY NearInvInit, NInvNext, PTL DEF Spec
=============================================================================
