-------------------------- MODULE TransportProofs --------------------------
(***************************************************************************)
(* Proofs that the connection pool is exact and that an answer belongs to  *)
(* its request, for any number of goroutines, calls and connections: TLC   *)
(* has two goroutines and three connections.                               *)
(*                                                                         *)
(* PoolExact says nothing of whom an open connection belongs to.  TInv     *)
(* adds that: a connection that getConn has dialed and not yet put or      *)
(* closed is open, not the pooled one, and of one goroutine.               *)
(*                                                                         *)
(* OwnAnswer needs that a call which finds no other in flight finds a      *)
(* clean connection.  AnswerInv gets it by counting: a connection never    *)
(* holds more pieces than the calls in flight on it have written and not   *)
(* yet taken, and a call that fails takes the connection down with it.     *)
(***************************************************************************)
EXTENDS Transport, SequenceTheorems, FiniteSetTheorems, TLAPS

\* More than the default of 5 seconds, so that a slow machine does not matter.
USE SMTT(30), ZenonT(30)

Pieces == [msg : Nat, part : {"head", "tail"}]
Link == [open : BOOLEAN, served : BOOLEAN, timer : {"unset", "set", "expired"},
         toPeer : Seq(Pieces), toUs : Seq(Pieces)]
Using == {"head", "tail", "read", "close"}
Caller == [pc : Using \cup {"returned", "dial", "put"}, req : Nat, conn : Nat \cup {NoConn},
           buf : Seq(Pieces), got : Nat \cup {Error}, alone : BOOLEAN]

LinkType == link \in Seq(Link)
CallerType == caller \in [Callers -> Caller]

Dialed(c) == caller[c].pc = "put"

PoolInv ==
  /\ conns # NoConn => conns \in DOMAIN link /\ link[conns].open
  /\ \A c \in Callers : caller[c].pc \in Using => caller[c].conn \in DOMAIN link
  /\ \A c \in Callers : Dialed(c) =>
       /\ caller[c].conn \in DOMAIN link /\ link[caller[c].conn].open
       /\ caller[c].conn # conns
  /\ \A c, d \in Callers : Dialed(c) /\ Dialed(d) /\ caller[c].conn = caller[d].conn => c = d
  /\ \A i \in DOMAIN link : link[i].open =>
       i = conns \/ \E c \in Callers : Dialed(c) /\ caller[c].conn = i

TInv == LinkType /\ CallerType /\ calls \in Nat /\ PoolInv

LEMMA TInvInit == Init => TInv
<1> SUFFICES ASSUME Init PROVE TInv
  BY Zenon
<1>1. LinkType /\ calls \in Nat /\ DOMAIN link = {}
  BY DEF Init, LinkType
<1>2. CallerType /\ \A c \in Callers : caller[c].pc = "returned"
  BY DEF Init, Returned, CallerType, Caller, Junk
<1> QED BY <1>1, <1>2, Zenon DEF TInv, PoolInv, Init, Using, Dialed

-----------------------------------------------------------------------------
\* Kinds of steps, as far as the pool can tell

SameOpen ==
  /\ DOMAIN link' = DOMAIN link
  /\ \A i \in DOMAIN link : link'[i].open = link[i].open

\* c's call goes on, or ends, with the connection it has or with the pooled one.
Moves(c) ==
  /\ \A d \in Callers \ {c} : caller'[d].pc = caller[d].pc /\ caller'[d].conn = caller[d].conn
  /\ caller'[c].pc # "put"
  /\ caller'[c].pc \in Using => caller'[c].conn \in DOMAIN link

\* No connection is opened or closed, and no call takes or puts one.
LEMMA QuietLink ==
  ASSUME PoolInv, SameOpen, conns' = conns, UNCHANGED caller
  PROVE  PoolInv'
  BY Zenon DEF PoolInv, SameOpen, Dialed

LEMMA QuietCaller ==
  ASSUME PoolInv, SameOpen, conns' = conns,
         NEW c \in Callers, caller[c].pc # "put", Moves(c)
  PROVE  PoolInv'
<1> USE DEF PoolInv, SameOpen, Moves, Dialed
<1>1. \A d \in Callers : Dialed(d)' <=> Dialed(d)
  BY Zenon
<1>2. \A d \in Callers : Dialed(d) => caller'[d].conn = caller[d].conn
  BY Zenon
<1> QED BY <1>1, <1>2

LEMMA ClosedIsLink == Closed \in Link /\ ~Closed.open /\ Fresh \in Link /\ Fresh.open
<1>1. <<>> \in Seq(Pieces)
  OBVIOUS
<1>2. Fresh \in Link /\ Fresh.open
  BY <1>1, Zenon DEF Fresh, Link
<1>3. Closed = [Fresh EXCEPT !.open = FALSE, !.served = FALSE]
  BY Zenon DEF Closed
<1> QED BY <1>2, <1>3, Zenon DEF Link

\* The pooled connection is closed and forgotten.
LEMMA CloseKeeps ==
  ASSUME TInv, closeConn,
         \/ UNCHANGED caller
         \/ \E c \in Callers : caller[c].pc # "put" /\ Moves(c)
  PROVE  LinkType' /\ PoolInv'
<1>1. /\ LinkType' /\ DOMAIN link' = DOMAIN link /\ conns' = NoConn
      /\ \A i \in DOMAIN link : i # conns => link'[i] = link[i]
      /\ conns # NoConn => ~link'[conns].open
  <2>1. CASE conns = NoConn
    BY <2>1, Zenon DEF closeConn, TInv, LinkType
  <2>2. CASE conns # NoConn
    <3>1. conns \in DOMAIN link
      BY <2>2, Zenon DEF TInv, PoolInv
    <3>2. link' = [link EXCEPT ![conns] = Closed]
      BY <2>2, Zenon DEF closeConn
    <3> QED BY <3>1, <3>2, ClosedIsLink DEF closeConn, TInv, LinkType
  <2> QED BY <2>1, <2>2, Zenon
<1>2. NoConn \notin DOMAIN link
  BY NoConnAssumption DEF TInv, LinkType
<1>3. /\ \A d \in Callers : Dialed(d)' <=> Dialed(d)
      /\ \A d \in Callers : Dialed(d) => caller'[d].conn = caller[d].conn
      /\ \A d \in Callers : caller'[d].pc \in Using => caller'[d].conn \in DOMAIN link
  BY Zenon DEF Dialed, Moves, TInv, PoolInv
<1> QED BY <1>1, <1>2, <1>3 DEF TInv, PoolInv

LEMMA SetLink ==
  ASSUME NEW ln \in Seq(Link), NEW i \in DOMAIN ln, NEW l \in Link
  PROVE  /\ [ln EXCEPT ![i] = l] \in Seq(Link)
         /\ DOMAIN [ln EXCEPT ![i] = l] = DOMAIN ln
         /\ [ln EXCEPT ![i] = l][i] = l
         /\ \A j \in DOMAIN ln \ {i} : [ln EXCEPT ![i] = l][j] = ln[j]
  OBVIOUS

LEMMA SetCaller ==
  ASSUME CallerType, NEW c \in Callers, NEW k \in Caller, caller' = [caller EXCEPT ![c] = k]
  PROVE  CallerType' /\ caller'[c] = k /\ \A d \in Callers \ {c} : caller'[d] = caller[d]
  BY Zenon DEF CallerType

LEMMA EmptyPieces == <<>> \in Seq(Pieces)
  OBVIOUS

LEMMA DialedType ==
  ASSUME NEW k \in Caller, NEW n \in Nat
  PROVE  /\ [k EXCEPT !.pc = "put", !.conn = n] \in Caller
         /\ [k EXCEPT !.pc = "put", !.conn = n].pc = "put"
         /\ [k EXCEPT !.pc = "put", !.conn = n].conn = n
  BY Zenon DEF Caller

LEMMA FirstTwo ==
  ASSUME NEW b \in Seq(Pieces), ~(Len(b) < 2)
  PROVE  b[1] \in Pieces /\ b[2] \in Pieces
<1>1. Len(b) \in Nat /\ 1 \in 1 .. Len(b) /\ 2 \in 1 .. Len(b)
  OBVIOUS
<1> QED BY <1>1

-----------------------------------------------------------------------------
\* Taking a connection

LEMMA ReturnedType ==
  ASSUME NEW r \in Nat, NEW m \in Nat \cup {Error}, NEW alone \in BOOLEAN
  PROVE  Returned(r, m, alone) \in Caller /\ Returned(r, m, alone).pc = "returned"
<1>1. <<>> \in Seq(Pieces)
  OBVIOUS
<1> QED BY <1>1, Zenon DEF Returned, Caller

\* A call goes on with connection i of ln.
LEMMA UseEffect ==
  ASSUME TInv, NEW c \in Callers, NEW r \in Nat, NEW ln \in Seq(Link), NEW i \in DOMAIN ln,
         Use(c, r, i, ln)
  PROVE  /\ LinkType' /\ CallerType'
         /\ DOMAIN link' = DOMAIN ln
         /\ \A j \in DOMAIN ln : link'[j].open = ln[j].open
         /\ caller'[c].pc = "head" /\ caller'[c].conn = i
         /\ \A d \in Callers \ {c} : caller'[d].pc = caller[d].pc /\ caller'[d].conn = caller[d].conn
<1>1. PICK new : new = [Returned(r, Error, Users(i) = {}) EXCEPT !.pc = "head", !.conn = i]
  BY Zenon
<1>2. Returned(r, Error, Users(i) = {}) \in Caller
  BY ReturnedType, Zenon
<1>3. i \in Nat
  OBVIOUS
<1>4. new \in Caller /\ new.pc = "head" /\ new.conn = i
  BY <1>1, <1>2, <1>3, Zenon DEF Caller, Using
<1>5. ASSUME NEW d \in Callers
      PROVE  /\ [caller[d] EXCEPT !.alone = @ /\ d \notin Users(i)] \in Caller
             /\ [caller[d] EXCEPT !.alone = @ /\ d \notin Users(i)].pc = caller[d].pc
             /\ [caller[d] EXCEPT !.alone = @ /\ d \notin Users(i)].conn = caller[d].conn
  <2>1. caller[d] \in Caller
    BY Zenon DEF TInv, CallerType
  <2> QED BY <2>1, Zenon DEF Caller
<1>6. caller' = [d \in Callers |-> IF d = c THEN new
                                   ELSE [caller[d] EXCEPT !.alone = @ /\ d \notin Users(i)]]
  BY <1>1, Zenon DEF Use
<1>7. /\ CallerType' /\ caller'[c] = new
      /\ \A d \in Callers \ {c} : caller'[d].pc = caller[d].pc /\ caller'[d].conn = caller[d].conn
  BY <1>4, <1>5, <1>6, Zenon DEF CallerType
<1>8. /\ LinkType' /\ DOMAIN link' = DOMAIN ln
      /\ \A j \in DOMAIN ln : link'[j].open = ln[j].open
  <2>1. /\ [ln[i] EXCEPT !.timer = "set"] \in Link
        /\ [ln[i] EXCEPT !.timer = "set"].open = ln[i].open
    <3>1. ln[i] \in Link
      OBVIOUS
    <3> QED BY <3>1, Zenon DEF Link
  <2>2. link' = [ln EXCEPT ![i] = [ln[i] EXCEPT !.timer = "set"]]
    BY Zenon DEF Use
  <2> QED BY <2>1, <2>2, SetLink, Zenon DEF LinkType
<1> QED BY <1>4, <1>7, <1>8, Zenon

LEMMA CallKeeps ==
  ASSUME TInv, NEW c \in Callers, Call(c)
  PROVE  TInv'
<1>0. calls' \in Nat /\ calls + 1 \in Nat /\ caller[c].pc = "returned" /\ conns' = conns
  BY DEF Call, TInv
<1>1. CASE conns # NoConn
  <2>1. conns \in DOMAIN link /\ link \in Seq(Link) /\ Use(c, calls + 1, conns, link)
    BY <1>1, Zenon DEF Call, TInv, PoolInv, LinkType
  <2>2. LinkType' /\ CallerType' /\ SameOpen /\ Moves(c)
    BY <1>0, <2>1, UseEffect DEF SameOpen, Moves
  <2>3. PoolInv'
    BY <1>0, <2>2, QuietCaller, Zenon DEF TInv
  <2> QED BY <1>0, <2>2, <2>3, Zenon DEF TInv
<1>2. CASE conns = NoConn
  <2>1. PICK new : new = [Returned(calls + 1, Error, TRUE) EXCEPT !.pc = "dial"]
    BY Zenon
  <2>2. new \in Caller /\ new.pc = "dial"
    <3>1. Returned(calls + 1, Error, TRUE) \in Caller
      BY <1>0, ReturnedType, Zenon
    <3> QED BY <2>1, <3>1, Zenon DEF Caller
  <2>3. caller' = [caller EXCEPT ![c] = new] /\ link' = link
    BY <1>2, <2>1, Zenon DEF Call
  <2>4. CallerType' /\ LinkType' /\ SameOpen /\ Moves(c)
    BY <2>2, <2>3, SetCaller, Zenon DEF TInv, LinkType, SameOpen, Moves, Using
  <2>5. PoolInv'
    BY <1>0, <2>4, QuietCaller, Zenon DEF TInv
  <2> QED BY <1>0, <2>4, <2>5, Zenon DEF TInv
<1> QED BY <1>1, <1>2, Zenon

LEMMA DialKeeps ==
  ASSUME TInv, NEW c \in Callers, Dial(c)
  PROVE  TInv'
<1>1. /\ LinkType' /\ Len(link) \in Nat /\ DOMAIN link = 1 .. Len(link)
      /\ DOMAIN link' = 1 .. Len(link) + 1
      /\ \A i \in DOMAIN link : link'[i] = link[i]
      /\ link'[Len(link) + 1].open
  BY ClosedIsLink DEF Dial, TInv, LinkType
<1>2. caller[c] \in Caller /\ caller[c].pc = "dial"
  BY Zenon DEF Dial, TInv, CallerType
<1>3. /\ CallerType' /\ caller'[c].pc = "put" /\ caller'[c].conn = Len(link) + 1
      /\ \A d \in Callers \ {c} : caller'[d] = caller[d]
  <2>1. PICK new : new = [caller[c] EXCEPT !.pc = "put", !.conn = Len(link) + 1]
    BY Zenon
  <2>2. new \in Caller /\ new.pc = "put" /\ new.conn = Len(link) + 1
    <3>1. Len(link) + 1 \in Nat /\ caller[c] \in Caller
      BY <1>1, <1>2
    <3> QED BY <2>1, <3>1, DialedType, Zenon
  <2>3. caller' = [caller EXCEPT ![c] = new]
    BY <2>1, Zenon DEF Dial, TInv, CallerType
  <2> QED BY <2>2, <2>3, SetCaller, Zenon DEF TInv
<1>4. Len(link) + 1 \notin DOMAIN link
  BY <1>1
<1>5. conns' = conns /\ calls' = calls /\ conns # Len(link) + 1
  BY <1>1, <1>4, NoConnAssumption DEF Dial, TInv, PoolInv
<1>6. PoolInv'
  <2>1. /\ \A d \in Callers \ {c} : Dialed(d)' <=> Dialed(d)
        /\ Dialed(c)' /\ ~Dialed(c)
    BY <1>2, <1>3, Zenon DEF Dialed
  <2>2. \A i \in DOMAIN link' : i \in DOMAIN link \/ i = Len(link) + 1
    BY <1>1
  <2>3. DOMAIN link \subseteq DOMAIN link' /\ Len(link) + 1 \in DOMAIN link'
    BY <1>1
  <2>4. conns' # NoConn => conns' \in DOMAIN link' /\ link'[conns'].open
    BY <1>1, <1>5, <2>3, Zenon DEF TInv, PoolInv
  <2>5. \A d \in Callers : caller'[d].pc \in Using => caller'[d].conn \in DOMAIN link'
    BY <1>3, <2>3, Zenon DEF TInv, PoolInv
  <2>6. \A d \in Callers : Dialed(d)' =>
          /\ caller'[d].conn \in DOMAIN link' /\ link'[caller'[d].conn].open
          /\ caller'[d].conn # conns'
    BY <1>1, <1>3, <1>5, <2>1, <2>3 DEF TInv, PoolInv
  <2>7. \A d, e \in Callers : Dialed(d)' /\ Dialed(e)' /\ caller'[d].conn = caller'[e].conn => d = e
    BY <1>3, <1>4, <2>1 DEF TInv, PoolInv
  <2>8. \A i \in DOMAIN link' : link'[i].open =>
          i = conns' \/ \E d \in Callers : Dialed(d)' /\ caller'[d].conn = i
    BY <1>1, <1>3, <1>5, <2>1, <2>2 DEF TInv, PoolInv
  <2> QED BY <2>4, <2>5, <2>6, <2>7, <2>8, Zenon DEF PoolInv
<1> QED BY <1>1, <1>3, <1>5, <1>6, Zenon DEF TInv

LEMMA PutKeeps ==
  ASSUME TInv, NEW c \in Callers, Put(c)
  PROVE  TInv'
<1> DEFINE own == caller[c].conn
<1>1. /\ Dialed(c) /\ own \in DOMAIN link /\ link[own].open /\ own # conns
      /\ caller[c].req \in Nat /\ calls' \in Nat /\ link \in Seq(Link)
  BY Zenon DEF Put, TInv, PoolInv, CallerType, LinkType, Caller, Dialed
<1>2. CASE conns = NoConn
  <2>1. conns' = own /\ Use(c, caller[c].req, own, link)
    BY <1>2, Zenon DEF Put
  <2>2. /\ LinkType' /\ CallerType' /\ SameOpen
        /\ caller'[c].pc = "head" /\ caller'[c].conn = own
        /\ \A d \in Callers \ {c} : caller'[d].pc = caller[d].pc /\ caller'[d].conn = caller[d].conn
    BY <1>1, <2>1, UseEffect DEF SameOpen
  <2>3. \A d \in Callers : Dialed(d)' <=> Dialed(d) /\ d # c
    BY <2>2, Zenon DEF Dialed
  <2>4. PoolInv'
    BY <1>1, <1>2, <2>1, <2>2, <2>3, NoConnAssumption DEF TInv, PoolInv, SameOpen
  <2> QED BY <1>1, <2>2, <2>4, Zenon DEF TInv
<1>3. CASE conns # NoConn
  <2>1. PICK ln : ln = [link EXCEPT ![own] = Closed]
    BY Zenon
  <2>2. /\ ln \in Seq(Link) /\ DOMAIN ln = DOMAIN link /\ ~ln[own].open
        /\ \A j \in DOMAIN link \ {own} : ln[j] = link[j]
    BY <1>1, <2>1, SetLink, ClosedIsLink, Zenon
  <2>3. conns' = conns /\ Use(c, caller[c].req, conns, ln) /\ conns \in DOMAIN ln
    BY <1>3, <2>1, <2>2, Zenon DEF Put, TInv, PoolInv
  <2>4. /\ LinkType' /\ CallerType' /\ DOMAIN link' = DOMAIN link /\ ~link'[own].open
        /\ \A j \in DOMAIN link \ {own} : link'[j].open = link[j].open
        /\ caller'[c].pc = "head" /\ caller'[c].conn = conns
        /\ \A d \in Callers \ {c} : caller'[d].pc = caller[d].pc /\ caller'[d].conn = caller[d].conn
    BY <1>1, <2>2, <2>3, UseEffect
  <2>5. \A d \in Callers : Dialed(d)' <=> Dialed(d) /\ d # c
    BY <2>4, Zenon DEF Dialed
  <2>6. PoolInv'
    BY <1>1, <1>3, <2>2, <2>3, <2>4, <2>5 DEF TInv, PoolInv
  <2> QED BY <1>1, <2>4, <2>6, Zenon DEF TInv
<1> QED BY <1>2, <1>3, Zenon

-----------------------------------------------------------------------------
\* The exchange

\* A step of c's call that gives it the value k and touches at most the
\* contents of one connection.
LEMMA ExchangeKeeps ==
  ASSUME TInv, NEW c \in Callers, caller[c].pc # "put", NEW k \in Caller,
         caller' = [caller EXCEPT ![c] = k], k.pc # "put",
         k.pc \in Using => caller[c].pc \in Using /\ k.conn = caller[c].conn,
         LinkType', SameOpen, conns' = conns, calls' = calls
  PROVE  TInv'
<1>1. CallerType' /\ caller'[c] = k /\ \A d \in Callers \ {c} : caller'[d] = caller[d]
  BY SetCaller, Zenon DEF TInv
<1>2. Moves(c)
  BY <1>1, Zenon DEF Moves, TInv, PoolInv
<1>3. PoolInv'
  BY <1>2, QuietCaller, Zenon DEF TInv
<1> QED BY <1>1, <1>3, Zenon DEF TInv

LEMMA LinkStep ==
  ASSUME LinkType, NEW i \in DOMAIN link, NEW l \in Link, l.open = link[i].open,
         link' = [link EXCEPT ![i] = l]
  PROVE  LinkType' /\ SameOpen
<1>1. link \in Seq(Link)
  BY Zenon DEF LinkType
<1> QED BY <1>1, SetLink, Zenon DEF LinkType, SameOpen

LEMMA DialFailsKeeps ==
  ASSUME TInv, NEW c \in Callers, DialFails(c)
  PROVE  TInv'
<1>1. PICK k : k = Returned(caller[c].req, Error, caller[c].alone)
  BY Zenon
<1>2. k \in Caller /\ k.pc = "returned"
  <2>1. caller[c].req \in Nat /\ caller[c].alone \in BOOLEAN
    BY Zenon DEF TInv, CallerType, Caller
  <2> QED BY <1>1, <2>1, ReturnedType, Zenon
<1>3. caller' = [caller EXCEPT ![c] = k] /\ caller[c].pc # "put"
  BY <1>1, Zenon DEF DialFails
<1>4. LinkType' /\ SameOpen /\ conns' = conns /\ calls' = calls
  BY Zenon DEF DialFails, TInv, LinkType, SameOpen
<1> QED BY <1>2, <1>3, <1>4, ExchangeKeeps, Zenon DEF Using

LEMMA WriteKeeps ==
  ASSUME TInv, NEW c \in Callers, Write(c)
  PROVE  TInv'
<1> DEFINE i == caller[c].conn
           piece == [msg |-> caller[c].req, part |-> caller[c].pc]
<1>1. caller[c] \in Caller /\ caller[c].pc \in {"head", "tail"}
  BY Zenon DEF Write, TInv, CallerType
<1>2. i \in DOMAIN link /\ link[i] \in Link
  BY <1>1 DEF TInv, PoolInv, LinkType, Using
<1>3. LinkType' /\ SameOpen
  <2>1. CASE ~link[i].served
    BY <2>1, Zenon DEF Write, TInv, LinkType, SameOpen
  <2>2. CASE link[i].served
    <3>1. Append(link[i].toPeer, piece) \in Seq(Pieces)
      <4>1. piece \in Pieces
        BY <1>1, Zenon DEF Caller, Pieces
      <4>2. link[i].toPeer \in Seq(Pieces)
        BY <1>2, Zenon DEF Link
      <4> QED BY <4>1, <4>2
    <3>2. PICK l : l = [link[i] EXCEPT !.toPeer = Append(link[i].toPeer, piece)]
      BY Zenon
    <3>3. l \in Link /\ l.open = link[i].open
      BY <1>2, <3>1, <3>2, Zenon DEF Link
    <3>4. link' = [link EXCEPT ![i] = l]
      BY <2>2, <3>2, Zenon DEF Write
    <3> QED BY <1>2, <3>3, <3>4, LinkStep, Zenon DEF TInv
  <2> QED BY <2>1, <2>2, Zenon
<1>4. PICK k : k = [caller[c] EXCEPT !.pc = IF caller[c].pc = "head" THEN "tail" ELSE "read"]
  BY Zenon
<1>5. k \in Caller /\ k.pc \in {"tail", "read"} /\ k.conn = i
  BY <1>1, <1>4, Zenon DEF Caller, Using
<1>6. caller' = [caller EXCEPT ![c] = k] /\ conns' = conns /\ calls' = calls
  BY <1>4, Zenon DEF Write
<1> QED BY <1>1, <1>3, <1>5, <1>6, ExchangeKeeps, Zenon DEF Using

LEMMA DecodedType ==
  ASSUME NEW p \in Pieces, NEW q \in Pieces, NEW m \in Decoded(p, q)
  PROVE  m \in Nat \cup {Error}
  BY DEF Decoded, Pieces, Junk

LEMMA ReadKeeps ==
  ASSUME TInv, NEW c \in Callers, NEW n \in Nat, caller[c].pc = "read",
         n <= Len(link[caller[c].conn].toUs), Read(c, n)
  PROVE  TInv'
<1> DEFINE i == caller[c].conn
           buf == caller[c].buf \o SubSeq(link[i].toUs, 1, n)
<1>1. caller[c] \in Caller /\ caller[c].pc \in Using /\ caller[c].pc # "put"
  BY Zenon DEF TInv, CallerType, Using
<1>2. i \in DOMAIN link /\ link[i] \in Link /\ link[i].toUs \in Seq(Pieces)
  <2>1. i \in DOMAIN link /\ link[i] \in Link
    BY <1>1 DEF TInv, PoolInv, LinkType
  <2> QED BY <2>1, Zenon DEF Link
<1>3. SubSeq(link[i].toUs, 1, n) \in Seq(Pieces)
  BY <1>2, SubSeqProperties
<1>4. SubSeq(link[i].toUs, n + 1, Len(link[i].toUs)) \in Seq(Pieces)
  BY <1>2, SubSeqProperties
<1>5. buf \in Seq(Pieces)
  BY <1>1, <1>3 DEF Caller
<1>6. LinkType' /\ SameOpen
  <2>1. PICK l : l = [link[i] EXCEPT !.toUs = SubSeq(link[i].toUs, n + 1, Len(link[i].toUs))]
    BY Zenon
  <2>2. l \in Link /\ l.open = link[i].open
    BY <1>2, <1>4, <2>1, Zenon DEF Link
  <2>3. link' = [link EXCEPT ![i] = l]
    BY <2>1, Zenon DEF Read
  <2> QED BY <1>2, <2>2, <2>3, LinkStep, Zenon DEF TInv
<1>7. conns' = conns /\ calls' = calls
  BY Zenon DEF Read
<1>8. \E k \in Caller : /\ caller' = [caller EXCEPT ![c] = k] /\ k.pc # "put"
                        /\ k.pc \in Using => k.conn = i
  <2>1. CASE Len(buf) < 2
    <3>1. PICK k : k = [caller[c] EXCEPT !.buf = buf]
      BY Zenon
    <3>2. k \in Caller /\ k.pc # "put" /\ k.conn = i
      BY <1>1, <1>5, <3>1, Zenon DEF Caller
    <3>3. caller' = [caller EXCEPT ![c] = k]
      BY <2>1, <3>1, Zenon DEF Read
    <3> QED BY <3>2, <3>3, Zenon
  <2>2. CASE ~(Len(buf) < 2)
    <3>1. buf[1] \in Pieces /\ buf[2] \in Pieces
      BY <1>5, <2>2, FirstTwo, Zenon
    <3>2. PICK m \in Decoded(buf[1], buf[2]) :
            caller' = [caller EXCEPT ![c] =
                         IF m = Error THEN [caller[c] EXCEPT !.pc = "close", !.buf = <<>>]
                         ELSE Returned(caller[c].req, m, caller[c].alone)]
      BY <2>2, Zenon DEF Read
    <3>3. m \in Nat \cup {Error}
      BY <3>1, DecodedType, Zenon
    <3>4. caller[c].req \in Nat /\ caller[c].alone \in BOOLEAN
      BY <1>1, Zenon DEF Caller
    <3>5. CASE m = Error
      <4>1. PICK k : k = [caller[c] EXCEPT !.pc = "close", !.buf = <<>>]
        BY Zenon
      <4>2. k \in Caller /\ k.pc # "put" /\ k.conn = i
        BY <1>1, <4>1, EmptyPieces, Zenon DEF Caller, Using
      <4> QED BY <3>2, <3>5, <4>1, <4>2, Zenon
    <3>6. CASE m # Error
      <4>1. PICK k : k = Returned(caller[c].req, m, caller[c].alone)
        BY Zenon
      <4>2. k \in Caller /\ k.pc = "returned"
        BY <3>3, <3>4, <4>1, ReturnedType, Zenon
      <4> QED BY <3>2, <3>6, <4>1, <4>2, Zenon DEF Using
    <3> QED BY <3>5, <3>6, Zenon
  <2> QED BY <2>1, <2>2, Zenon
<1> QED BY <1>1, <1>6, <1>7, <1>8, ExchangeKeeps, Zenon

LEMMA ExchangeFailsKeeps ==
  ASSUME TInv, NEW c \in Callers, ExchangeFails(c)
  PROVE  TInv'
<1>1. caller[c] \in Caller /\ caller[c].pc \in Using /\ caller[c].pc # "put"
  BY Zenon DEF ExchangeFails, TInv, CallerType, Using
<1>2. PICK k : k = [caller[c] EXCEPT !.pc = "close", !.buf = <<>>]
  BY Zenon
<1>3. k \in Caller /\ k.pc = "close" /\ k.conn = caller[c].conn
  BY <1>1, <1>2, EmptyPieces, Zenon DEF Caller, Using
<1>4. caller' = [caller EXCEPT ![c] = k]
  BY <1>2, Zenon DEF ExchangeFails, TInv, CallerType
<1>5. LinkType' /\ SameOpen /\ conns' = conns /\ calls' = calls
  BY Zenon DEF ExchangeFails, TInv, LinkType, SameOpen
<1> QED BY <1>1, <1>3, <1>4, <1>5, ExchangeKeeps, Zenon

LEMMA FailReturnsKeeps ==
  ASSUME TInv, NEW c \in Callers, FailReturns(c)
  PROVE  TInv'
<1>1. PICK k : k = Returned(caller[c].req, Error, caller[c].alone)
  OBVIOUS
<1>2. k \in Caller /\ k.pc = "returned"
  <2>1. caller[c].req \in Nat /\ caller[c].alone \in BOOLEAN
    BY DEF TInv, CallerType, Caller
  <2> QED BY <1>1, <2>1, ReturnedType, Zenon
<1>3. caller' = [caller EXCEPT ![c] = k] /\ caller[c].pc # "put" /\ closeConn /\ calls' \in Nat
  BY <1>1, Zenon DEF FailReturns, TInv
<1>4. CallerType' /\ caller'[c] = k /\ \A d \in Callers \ {c} : caller'[d] = caller[d]
  BY <1>2, <1>3, SetCaller, Zenon DEF TInv
<1>5. Moves(c)
  BY <1>2, <1>4, Zenon DEF Moves, Using
<1> QED BY <1>3, <1>4, <1>5, CloseKeeps, Zenon DEF TInv

-----------------------------------------------------------------------------
\* Deadlines and the other end

\* A step that changes connection i to l, without closing our end of it.
LEMMA PeerKeeps ==
  ASSUME TInv, NEW i \in DOMAIN link, NEW l \in Link, l.open = link[i].open,
         link' = [link EXCEPT ![i] = l], UNCHANGED <<conns, caller, calls>>
  PROVE  TInv'
<1>1. LinkType' /\ SameOpen
  BY LinkStep, Zenon DEF TInv
<1>2. PoolInv'
  BY <1>1, QuietLink, Zenon DEF TInv
<1> QED BY <1>1, <1>2, Zenon DEF TInv, CallerType

LEMMA ExpireKeeps ==
  ASSUME TInv, NEW i \in DOMAIN link, Expire(i)
  PROVE  TInv'
<1>1. PICK l : l = [link[i] EXCEPT !.timer = "expired"]
  BY Zenon
<1>2. link[i] \in Link
  BY DEF TInv, LinkType
<1>3. l \in Link /\ l.open = link[i].open
  BY <1>1, <1>2, Zenon DEF Link
<1>4. link' = [link EXCEPT ![i] = l] /\ UNCHANGED <<conns, caller, calls>>
  BY <1>1, Zenon DEF Expire
<1> QED BY <1>3, <1>4, PeerKeeps, Zenon

LEMMA PeerClosesKeeps ==
  ASSUME TInv, NEW i \in DOMAIN link, PeerCloses(i)
  PROVE  TInv'
<1>1. PICK rest \in {link[i].toUs, <<>>} :
        link' = [link EXCEPT ![i] = [link[i] EXCEPT !.served = FALSE, !.toPeer = <<>>, !.toUs = rest]]
  BY Zenon DEF PeerCloses, TInv, LinkType
<1>2. link[i] \in Link /\ link[i].toUs \in Seq(Pieces)
  <2>1. link[i] \in Link
    BY DEF TInv, LinkType
  <2> QED BY <2>1, Zenon DEF Link
<1>3. PICK l : l = [link[i] EXCEPT !.served = FALSE, !.toPeer = <<>>, !.toUs = rest]
  BY Zenon
<1>4. l \in Link /\ l.open = link[i].open
  BY <1>2, <1>3, EmptyPieces, Zenon DEF Link
<1>5. link' = [link EXCEPT ![i] = l] /\ UNCHANGED <<conns, caller, calls>>
  BY <1>1, <1>3, Zenon DEF PeerCloses
<1> QED BY <1>4, <1>5, PeerKeeps, Zenon

LEMMA ServedType ==
  ASSUME NEW l \in Link, NEW m \in Nat \cup {Error}
  PROVE  Served(l, m) \in Link /\ Served(l, m).open = l.open
<1>1. l.toPeer \in Seq(Pieces) /\ l.toUs \in Seq(Pieces)
  BY Zenon DEF Link
<1>2. CASE m = Error
  <2>1. Served(l, m) = [l EXCEPT !.served = FALSE, !.toPeer = <<>>]
    BY <1>2, Zenon DEF Served
  <2> QED BY <2>1, EmptyPieces, Zenon DEF Link
<1>3. CASE m # Error
  <2>1. SubSeq(l.toPeer, 3, Len(l.toPeer)) \in Seq(Pieces)
    BY <1>1, SubSeqProperties
  <2>2. Head_(m) \in Pieces /\ Tail_(m) \in Pieces
    BY <1>3, Zenon DEF Head_, Tail_, Pieces
  <2>3. l.toUs \o <<Head_(m), Tail_(m)>> \in Seq(Pieces)
    BY <1>1, <2>2
  <2>4. Served(l, m) = [l EXCEPT !.toPeer = SubSeq(l.toPeer, 3, Len(l.toPeer)),
                                 !.toUs = l.toUs \o <<Head_(m), Tail_(m)>>]
    BY <1>3, Zenon DEF Served
  <2> QED BY <2>1, <2>3, <2>4, Zenon DEF Link
<1> QED BY <1>2, <1>3, Zenon

LEMMA handleConnKeeps ==
  ASSUME TInv, NEW i \in DOMAIN link, handleConn(i)
  PROVE  TInv'
<1> DEFINE in == link[i].toPeer
<1>1. link[i] \in Link /\ in \in Seq(Pieces)
  <2>1. link[i] \in Link
    BY DEF TInv, LinkType
  <2> QED BY <2>1, Zenon DEF Link
<1>2. PICK m \in Decoded(in[1], in[2]) : link' = [link EXCEPT ![i] = Served(link[i], m)]
  BY Zenon DEF handleConn
<1>3. ~(Len(in) < 2) /\ UNCHANGED <<conns, caller, calls>>
  BY <1>1 DEF handleConn
<1>4. m \in Nat \cup {Error}
  <2>1. in[1] \in Pieces /\ in[2] \in Pieces
    BY <1>1, <1>3, FirstTwo, Zenon
  <2> QED BY <2>1, DecodedType, Zenon
<1>5. Served(link[i], m) \in Link /\ Served(link[i], m).open = link[i].open
  BY <1>1, <1>4, ServedType, Zenon
<1> QED BY <1>2, <1>3, <1>5, PeerKeeps, Zenon

-----------------------------------------------------------------------------
LEMMA TInvNext == TInv /\ [Next]_vars => TInv'
<1> SUFFICES ASSUME TInv, [Next]_vars PROVE TInv'
  BY Zenon
<1>1. CASE CloseConnection
  <2>1. closeConn /\ UNCHANGED caller /\ calls' \in Nat
    BY <1>1, Zenon DEF CloseConnection, TInv
  <2>2. LinkType' /\ PoolInv'
    BY <2>1, CloseKeeps, Zenon
  <2> QED BY <2>1, <2>2, Zenon DEF TInv, CallerType
<1>2. CASE \E c \in Callers : Call(c)
  BY <1>2, CallKeeps, Zenon
<1>3. ASSUME NEW c \in Callers, Step(c) PROVE TInv'
  <2>1. CASE Dial(c)
    BY <2>1, DialKeeps, Zenon
  <2>2. CASE DialFails(c)
    BY <2>2, DialFailsKeeps, Zenon
  <2>3. CASE Put(c)
    BY <2>3, PutKeeps
  <2>4. CASE Write(c)
    BY <2>4, WriteKeeps
  <2>5. CASE ExchangeFails(c)
    BY <2>5, ExchangeFailsKeeps
  <2>6. CASE FailReturns(c)
    BY <2>6, FailReturnsKeeps
  <2>7. CASE \E n \in 1 .. 2 * MaxCalls :
               caller[c].pc = "read" /\ n <= Len(link[caller[c].conn].toUs) /\ Read(c, n)
    <3>1. PICK n \in Nat :
            caller[c].pc = "read" /\ n <= Len(link[caller[c].conn].toUs) /\ Read(c, n)
      BY <2>7, TransportBoundsAssumption
    <3> QED BY <3>1, ReadKeeps, Zenon
  <2> QED BY <1>3, <2>1, <2>2, <2>3, <2>4, <2>5, <2>6, <2>7, Zenon DEF Step
<1>4. CASE \E i \in DOMAIN link : Expire(i)
  BY <1>4, ExpireKeeps, Zenon
<1>5. CASE \E i \in DOMAIN link : handleConn(i)
  BY <1>5, handleConnKeeps, Zenon
<1>6. CASE \E i \in DOMAIN link : PeerCloses(i)
  BY <1>6, PeerClosesKeeps
<1>7. CASE UNCHANGED vars
  <2>1. SameOpen /\ conns' = conns /\ UNCHANGED caller
    BY <1>7, Zenon DEF vars, SameOpen
  <2>2. PoolInv'
    BY <2>1, QuietLink, Zenon DEF TInv
  <2> QED BY <1>7, <2>2, Zenon DEF vars, TInv, LinkType, CallerType
<1> QED BY <1>1, <1>2, <1>3, <1>4, <1>5, <1>6, <1>7, Zenon DEF Next

\* The pool is exact with any number of goroutines: getConn, its re-check
\* after dialing and closeConn leak no connection and hand out no closed one.
THEOREM PoolCorrect == Spec => []PoolExact
<1>1. TInv => PoolExact
  <2> SUFFICES ASSUME TInv PROVE PoolExact
    BY Zenon
  <2>1. \A c \in Callers : caller[c].pc = "put" <=> Dialed(c)
    BY Zenon DEF Dialed
  <2>2. \A i \in DOMAIN link : i # NoConn
    BY NoConnAssumption DEF TInv, LinkType
  <2>3. ASSUME NEW i \in DOMAIN link, link[i].open
        PROVE  i \in ({conns} \ {NoConn})
                     \cup {caller[c].conn : c \in {d \in Callers : caller[d].pc = "put"}}
    BY <2>1, <2>2, <2>3, ZenonT(30) DEF TInv, PoolInv
  <2>4. ASSUME NEW i \in ({conns} \ {NoConn})
                       \cup {caller[c].conn : c \in {d \in Callers : caller[d].pc = "put"}}
        PROVE  i \in DOMAIN link /\ link[i].open
    BY <2>1 DEF TInv, PoolInv
  <2> QED BY <2>3, <2>4, Zenon DEF PoolExact
<1> QED BY <1>1, TInvInit, TInvNext, PTL DEF Spec

-----------------------------------------------------------------------------
\* Whose answer a call gets

Size(l) == Len(l.toPeer) + Len(l.toUs)

\* How many pieces a call in flight may have put on its connection and not
\* taken off it, at most.
Weight(k) ==
  IF k.pc = "close" \/ (k.pc = "read" /\ k.buf = <<>>) THEN 2
  ELSE IF k.pc \in {"tail", "read"} THEN 1 ELSE 0

Owing(i, w) == {d \in Callers : caller[d].conn = i /\ Weight(caller[d]) >= w}

\* A call that is alone on connection l finds there what it wrote, or the
\* answer to that, or what is left of either.
InOrder(k, l) ==
  LET h == Head_(k.req)
      t == Tail_(k.req)
  IN  /\ k.pc = "head" => l.toPeer = <<>> /\ l.toUs = <<>>
      /\ k.pc = "tail" => l.toPeer = (IF l.served THEN <<h>> ELSE <<>>) /\ l.toUs = <<>>
      /\ k.pc = "read" =>
           \/ l.toPeer = <<h, t>> /\ k.buf = <<>> /\ l.toUs = <<>>
           \/ l.toPeer = <<>> /\ k.buf = <<>> /\ l.toUs \in {<<>>, <<h, t>>}
           \/ l.toPeer = <<>> /\ k.buf = <<h>> /\ l.toUs \in {<<>>, <<t>>}

Dead(l) == ~l.open => l.toPeer = <<>> /\ l.toUs = <<>> /\ ~l.served

BufFits(k) ==
  /\ k.pc \in {"head", "tail", "close"} => k.buf = <<>>
  /\ k.pc = "read" => Len(k.buf) < 2

Answered(k) == k.pc = "returned" => k.got \in {k.req, Error} \/ ~k.alone

Solitary(c) == \A d \in Callers : caller[d].pc \in Using /\ caller[d].conn = caller[c].conn => d = c

\* What is on a connection is owed to the calls in flight on it, so that a
\* call that finds none in flight finds the connection clean.
Counted(i) ==
  /\ IsFiniteSet(Owing(i, 1)) /\ IsFiniteSet(Owing(i, 2))
  /\ Size(link[i]) <= Cardinality(Owing(i, 1)) + Cardinality(Owing(i, 2))

AnswerInv ==
  /\ \A i \in DOMAIN link : Dead(link[i]) /\ Counted(i)
  /\ \A c, d \in Callers : caller[c].pc \in Using /\ Dialed(d) => caller[c].conn # caller[d].conn
  /\ \A c \in Callers : BufFits(caller[c]) /\ Answered(caller[c])
  /\ \A c \in Callers : caller[c].pc \in Using /\ caller[c].alone =>
       Solitary(c) /\ InOrder(caller[c], link[caller[c].conn])

LEMMA SizeType ==
  ASSUME NEW l \in Link
  PROVE  /\ Size(l) \in Nat /\ l.toPeer \in Seq(Pieces) /\ l.toUs \in Seq(Pieces)
         /\ Size(l) = 0 => l.toPeer = <<>> /\ l.toUs = <<>>
         /\ l.toPeer = <<>> /\ l.toUs = <<>> => Size(l) = 0
<1>1. l.toPeer \in Seq(Pieces) /\ l.toUs \in Seq(Pieces)
  BY Zenon DEF Link
<1>2. \A q \in Seq(Pieces) : Len(q) \in Nat /\ (Len(q) = 0 <=> q = <<>>)
  BY EmptySeq
<1>3. PICK m \in Nat, n \in Nat : m = Len(l.toPeer) /\ n = Len(l.toUs)
  BY <1>1, <1>2, Zenon
<1>4. Size(l) = m + n
  BY <1>3, Zenon DEF Size
<1>5. m + n \in Nat /\ (m + n = 0 <=> m = 0 /\ n = 0)
  OBVIOUS
<1> QED BY <1>1, <1>2, <1>3, <1>4, <1>5, Zenon

LEMMA WeightFacts ==
  ASSUME NEW k
  PROVE  Weight(k) \in 0 .. 2 /\ (Weight(k) >= 1 => k.pc \in Using)
  BY DEF Weight, Using

\* A set that loses or gains c.
LEMMA Recount ==
  ASSUME NEW S, NEW T, NEW c, IsFiniteSet(S), S \ {c} = T \ {c}
  PROVE  /\ IsFiniteSet(T) /\ Cardinality(S) \in Nat /\ Cardinality(T) \in Nat
         /\ Cardinality(T) + (IF c \in S THEN 1 ELSE 0)
              = Cardinality(S) + (IF c \in T THEN 1 ELSE 0)
<1>1. PICK R : R = S \ {c}
  BY Zenon
<1>2. IsFiniteSet(R) /\ c \notin R
  BY <1>1, FS_RemoveElement, Zenon
<1>3. Cardinality(R) \in Nat
  BY <1>2, FS_CardinalityType, Zenon
<1>4. IsFiniteSet(R \cup {c}) /\ Cardinality(R \cup {c}) = Cardinality(R) + 1
  BY <1>2, FS_AddElement, Zenon
<1>5. \A U : U \ {c} = R => U = IF c \in U THEN R \cup {c} ELSE R
  BY Zenon
<1>6. \A U : U \ {c} = R =>
        /\ IsFiniteSet(U)
        /\ Cardinality(U) = Cardinality(R) + (IF c \in U THEN 1 ELSE 0)
  <2>1. TAKE U
  <2>2. HAVE U \ {c} = R
  <2>3. CASE c \in U
    <3>1. U = R \cup {c}
      BY <1>5, <2>2, <2>3, Zenon
    <3> QED BY <1>4, <2>3, <3>1, Zenon
  <2>4. CASE c \notin U
    <3>1. U = R
      BY <1>5, <2>2, <2>4, Zenon
    <3>2. Cardinality(R) = Cardinality(R) + 0
      BY <1>3
    <3> QED BY <1>2, <2>4, <3>1, <3>2, Zenon
  <2> QED BY <2>3, <2>4, Zenon
<1>7. PICK r \in Nat : r = Cardinality(R)
  BY <1>3, Zenon
<1>8. Cardinality(S) = r + (IF c \in S THEN 1 ELSE 0) /\ Cardinality(T) = r + (IF c \in T THEN 1 ELSE 0)
  BY <1>1, <1>6, <1>7, Zenon
<1>9. IsFiniteSet(T)
  BY <1>1, <1>6, Zenon
<1> QED BY <1>8, <1>9

LEMMA ClosedOrder ==
  ASSUME NEW k, NEW l, InOrder(k, l)
  PROVE  InOrder(k, Closed)
<1>1. Closed.toPeer = <<>> /\ Closed.toUs = <<>> /\ ~Closed.served
  BY Zenon DEF Closed, Fresh
<1> QED BY <1>1, Zenon DEF InOrder

LEMMA ClosedDead == Dead(Closed) /\ Dead(Fresh) /\ Size(Closed) = 0 /\ Size(Fresh) = 0
<1>1. /\ Closed.toPeer = <<>> /\ Closed.toUs = <<>> /\ ~Closed.served
      /\ Fresh.open /\ Fresh.toPeer = <<>> /\ Fresh.toUs = <<>>
  BY Zenon DEF Closed, Fresh
<1> QED BY <1>1, Len(<<>>) = 0 DEF Dead, Size

LEMMA AnswerInit == Init => AnswerInv
<1> SUFFICES ASSUME Init PROVE AnswerInv
  OBVIOUS
<1>1. DOMAIN link = {} /\ \A c \in Callers : caller[c] = Returned(Junk, Junk, TRUE)
  BY DEF Init
<1>2. PICK k : k = Returned(Junk, Junk, TRUE)
  BY Zenon
<1>3. k.pc = "returned" /\ k.got = k.req
  BY <1>2, Zenon DEF Returned
<1>4. k.pc \notin Using /\ BufFits(k) /\ Answered(k)
  BY <1>3, Zenon DEF Using, Answered, BufFits
<1> QED BY <1>1, <1>2, <1>4, Zenon DEF AnswerInv

-----------------------------------------------------------------------------
\* Kinds of steps, as far as answers can tell

\* A step of c, in flight on connection i, that gives it the value k.
MovesTo(c, k) ==
  /\ caller[c].pc \in Using /\ k \in Caller
  /\ caller' = [caller EXCEPT ![c] = k]
  /\ k.pc = "returned" \/ (k.pc \in Using /\ k.conn = caller[c].conn /\ k.alone = caller[c].alone)
  /\ BufFits(k) /\ Answered(k)

Balances(c, k) ==
  LET i == caller[c].conn IN
  \/ Size(link'[i]) = 0
  \/ Size(link'[i]) + Weight(caller[c]) <= Size(link[i]) + Weight(k)

LEMMA Counting ==
  ASSUME TInv, TInv', AnswerInv, NEW c \in Callers, NEW k, MovesTo(c, k), Balances(c, k),
         DOMAIN link' = DOMAIN link,
         \A j \in DOMAIN link \ {caller[c].conn} : link'[j] \in {link[j], Closed}
  PROVE  \A j \in DOMAIN link : Counted(j)'
<1>1. SUFFICES ASSUME NEW j \in DOMAIN link PROVE Counted(j)'
  BY Zenon
<1>2. /\ caller'[c] = k /\ \A d \in Callers \ {c} : caller'[d] = caller[d]
  BY Zenon DEF MovesTo, TInv, CallerType
<1>3. Counted(j) /\ link[j] \in Link /\ link'[j] \in Link
  BY DEF AnswerInv, TInv, LinkType
<1>4. \A w : Owing(j, w)' \ {c} = Owing(j, w) \ {c}
  BY <1>2, Zenon DEF Owing
<1>5. PICK s \in Nat, o \in Nat : s = Cardinality(Owing(j, 1)) /\ o = Cardinality(Owing(j, 2))
  BY <1>3, FS_CardinalityType, Zenon DEF Counted
<1>6. /\ IsFiniteSet(Owing(j, 1)') /\ Cardinality(Owing(j, 1)') \in Nat
      /\ Cardinality(Owing(j, 1)') + (IF c \in Owing(j, 1) THEN 1 ELSE 0)
           = s + (IF c \in Owing(j, 1)' THEN 1 ELSE 0)
  <2>1. PICK S, T : S = Owing(j, 1) /\ T = Owing(j, 1)'
    BY Zenon
  <2>2. IsFiniteSet(S) /\ S \ {c} = T \ {c}
    BY <1>3, <1>4, <2>1, Zenon DEF Counted
  <2>3. /\ IsFiniteSet(T) /\ Cardinality(S) \in Nat /\ Cardinality(T) \in Nat
        /\ Cardinality(T) + (IF c \in S THEN 1 ELSE 0)
             = Cardinality(S) + (IF c \in T THEN 1 ELSE 0)
    BY <2>2, Recount, Zenon
  <2> QED BY <1>5, <2>1, <2>3, Zenon
<1>7. /\ IsFiniteSet(Owing(j, 2)') /\ Cardinality(Owing(j, 2)') \in Nat
      /\ Cardinality(Owing(j, 2)') + (IF c \in Owing(j, 2) THEN 1 ELSE 0)
           = o + (IF c \in Owing(j, 2)' THEN 1 ELSE 0)
  <2>1. PICK S, T : S = Owing(j, 2) /\ T = Owing(j, 2)'
    BY Zenon
  <2>2. IsFiniteSet(S) /\ S \ {c} = T \ {c}
    BY <1>3, <1>4, <2>1, Zenon DEF Counted
  <2>3. /\ IsFiniteSet(T) /\ Cardinality(S) \in Nat /\ Cardinality(T) \in Nat
        /\ Cardinality(T) + (IF c \in S THEN 1 ELSE 0)
             = Cardinality(S) + (IF c \in T THEN 1 ELSE 0)
    BY <2>2, Recount, Zenon
  <2> QED BY <1>5, <2>1, <2>3, Zenon
<1>8. Size(link[j]) <= s + o /\ Size(link[j]) \in Nat /\ Size(link'[j]) \in Nat
  BY <1>3, <1>5, SizeType, Zenon DEF Counted
<1>9. /\ Weight(caller[c]) \in 0 .. 2 /\ Weight(k) \in 0 .. 2
      /\ k.pc = "returned" => Weight(k) = 0
  BY WeightFacts, Zenon DEF Weight
<1>10. Size(link'[j]) <= Cardinality(Owing(j, 1)') + Cardinality(Owing(j, 2)')
  <2>1. CASE j # caller[c].conn
    <3>1. c \notin Owing(j, 1) /\ c \notin Owing(j, 2)
      BY <2>1, Zenon DEF Owing
    <3>2. Size(link'[j]) <= Size(link[j])
      BY <1>8, <2>1, ClosedDead
    <3> QED BY <1>5, <1>6, <1>7, <1>8, <3>1, <3>2
  <2>2. CASE j = caller[c].conn
    <3>1. /\ c \in Owing(j, 1) <=> Weight(caller[c]) >= 1
          /\ c \in Owing(j, 2) <=> Weight(caller[c]) >= 2
      BY <2>2, Zenon DEF Owing
    <3>2. /\ c \in Owing(j, 1)' <=> Weight(k) >= 1
          /\ c \in Owing(j, 2)' <=> Weight(k) >= 2
      <4>1. k.conn = j \/ Weight(k) = 0
        BY <1>9, <2>2, Zenon DEF MovesTo
      <4>2. \A w : c \in Owing(j, w)' <=> k.conn = j /\ Weight(k) >= w
        BY <1>2, Zenon DEF Owing, Weight
      <4> QED BY <1>9, <4>1, <4>2
    <3>3. Cardinality(Owing(j, 1)') + Cardinality(Owing(j, 2)') + Weight(caller[c])
            = s + o + Weight(k)
      BY <1>5, <1>6, <1>7, <1>9, <3>1, <3>2
    <3>4. Size(link'[j]) = 0 \/ Size(link'[j]) + Weight(caller[c]) <= Size(link[j]) + Weight(k)
      BY <2>2, Zenon DEF Balances
    <3> QED BY <1>5, <1>6, <1>7, <1>8, <1>9, <3>3, <3>4
  <2> QED BY <2>1, <2>2, Zenon
<1> QED BY <1>6, <1>7, <1>10, Zenon DEF Counted

LEMMA MoveAnswers ==
  ASSUME TInv, TInv', AnswerInv, NEW c \in Callers, NEW k, MovesTo(c, k), Balances(c, k),
         DOMAIN link' = DOMAIN link,
         \A j \in DOMAIN link \ {caller[c].conn} : link'[j] \in {link[j], Closed},
         Dead(link'[caller[c].conn]),
         k.pc \in Using /\ k.alone => InOrder(k, link'[caller[c].conn])
  PROVE  AnswerInv'
<1>1. /\ caller'[c] = k /\ \A d \in Callers \ {c} : caller'[d] = caller[d]
  BY Zenon DEF MovesTo, TInv, CallerType
<1>2. \A j \in DOMAIN link' : Counted(j)'
  BY Counting, Zenon
<1>3. \A j \in DOMAIN link' : Dead(link'[j])
  BY ClosedDead, Zenon DEF AnswerInv
<1>4. \A d \in Callers : caller'[d].pc \in Using =>
        /\ caller[d].pc \in Using /\ caller'[d].conn = caller[d].conn
        /\ caller'[d].alone = caller[d].alone
  <2>1. TAKE d \in Callers
  <2>2. HAVE caller'[d].pc \in Using
  <2>3. CASE d = c
    <3>1. k.pc # "returned"
      BY <1>1, <2>2, <2>3, Zenon DEF Using
    <3> QED BY <1>1, <2>3, <3>1, Zenon DEF MovesTo
  <2>4. CASE d # c
    BY <1>1, <2>2, <2>4, Zenon
  <2> QED BY <2>3, <2>4, Zenon
<1>5. \A d \in Callers : Dialed(d)' => Dialed(d) /\ caller'[d].conn = caller[d].conn
  BY <1>1, Zenon DEF MovesTo, Dialed, Using
<1>6. \A d \in Callers : BufFits(caller'[d]) /\ Answered(caller'[d])
  BY <1>1, Zenon DEF MovesTo, AnswerInv
<1>7. ASSUME NEW d \in Callers, caller'[d].pc \in Using, caller'[d].alone
      PROVE  Solitary(d)' /\ InOrder(caller'[d], link'[caller'[d].conn])
  <2>1. caller[d].pc \in Using /\ caller[d].alone /\ caller'[d].conn = caller[d].conn
    BY <1>4, <1>7, Zenon
  <2>2. Solitary(d) /\ InOrder(caller[d], link[caller[d].conn])
    BY <2>1, Zenon DEF AnswerInv
  <2>3. Solitary(d)'
    BY <1>4, <2>1, <2>2, Zenon DEF Solitary
  <2>4. CASE d = c
    BY <1>1, <1>7, <2>1, <2>3, <2>4, Zenon
  <2>5. CASE d # c
    <3>1. caller[d].conn # caller[c].conn /\ caller[d].conn \in DOMAIN link
      BY <2>1, <2>2, <2>5, Zenon DEF Solitary, MovesTo, TInv, PoolInv
    <3>2. link'[caller[d].conn] \in {link[caller[d].conn], Closed}
      BY <3>1, Zenon
    <3>3. InOrder(caller[d], link'[caller[d].conn])
      BY <2>2, <3>2, ClosedOrder, ZenonT(30)
    <3> QED BY <1>1, <2>1, <2>3, <2>5, <3>3, Zenon
  <2> QED BY <2>4, <2>5, Zenon
<1>8. \A d, e \in Callers : caller'[d].pc \in Using /\ Dialed(e)' => caller'[d].conn # caller'[e].conn
  BY <1>4, <1>5 DEF AnswerInv
<1> QED BY <1>2, <1>3, <1>6, <1>7, <1>8, Zenon DEF AnswerInv

\* A step of a connection: nothing is added to it, and what is in order stays so.
LEMMA LinkAnswers ==
  ASSUME TInv, TInv', AnswerInv, UNCHANGED caller, DOMAIN link' = DOMAIN link,
         \A j \in DOMAIN link :
           /\ Dead(link'[j]) /\ Size(link'[j]) <= Size(link[j])
           /\ \A d \in Callers : InOrder(caller[d], link[j]) => InOrder(caller[d], link'[j])
  PROVE  AnswerInv'
<1>1. \A j \in DOMAIN link : Counted(j)'
  <2>1. TAKE j \in DOMAIN link
  <2>2. link[j] \in Link /\ link'[j] \in Link /\ Counted(j)
    BY DEF AnswerInv, TInv, LinkType
  <2>3. Owing(j, 1)' = Owing(j, 1) /\ Owing(j, 2)' = Owing(j, 2)
    BY Zenon DEF Owing, Weight
  <2>4. PICK a \in Nat, b \in Nat : a = Cardinality(Owing(j, 1)) /\ b = Cardinality(Owing(j, 2))
    BY <2>2, FS_CardinalityType, Zenon DEF Counted
  <2>5. Size(link'[j]) \in Nat /\ Size(link[j]) \in Nat /\ Size(link'[j]) <= Size(link[j])
    BY <2>2, SizeType, Zenon
  <2>6. Size(link[j]) <= a + b
    BY <2>2, <2>4, Zenon DEF Counted
  <2>7. Size(link'[j]) <= a + b
    BY <2>5, <2>6
  <2> QED BY <2>2, <2>3, <2>4, <2>7, Zenon DEF Counted
<1>2. \A d \in Callers : caller[d].pc \in Using => caller[d].conn \in DOMAIN link
  BY Zenon DEF TInv, PoolInv
<1>3. \A d \in Callers : Solitary(d)' <=> Solitary(d)
  BY Zenon DEF Solitary
<1>4. \A d \in Callers : Dialed(d)' <=> Dialed(d)
  BY Zenon DEF Dialed
<1> QED BY <1>1, <1>2, <1>3, <1>4, Zenon DEF AnswerInv

\* A step of c outside an exchange.
LEMMA OutsideAnswers ==
  ASSUME TInv, TInv', AnswerInv, NEW c \in Callers, caller[c].pc \notin Using,
         caller'[c].pc \notin Using, \A d \in Callers \ {c} : caller'[d] = caller[d],
         BufFits(caller'[c]), Answered(caller'[c]),
         DOMAIN link \subseteq DOMAIN link', \A j \in DOMAIN link : link'[j] = link[j],
         \A j \in DOMAIN link' \ DOMAIN link : link'[j] = Fresh,
         caller'[c].pc = "put" => caller'[c].conn \notin DOMAIN link
  PROVE  AnswerInv'
<1>1. Weight(caller[c]) = 0 /\ Weight(caller'[c]) = 0
  BY WeightFacts
<1>2. ASSUME NEW j, NEW w \in {1, 2} PROVE Owing(j, w)' = Owing(j, w)
  <2>1. \A d \in Callers : d \in Owing(j, w)' <=> d \in Owing(j, w)
    <3>1. TAKE d \in Callers
    <3>2. CASE d = c
      <4>1. ~(Weight(caller[c]) >= w) /\ ~(Weight(caller'[c]) >= w)
        BY <1>1
      <4>2. Weight(caller[c])' = Weight(caller'[c])
        BY Zenon DEF Weight
      <4> QED BY <3>2, <4>1, <4>2, Zenon DEF Owing
    <3>3. CASE d # c
      <4>1. caller'[d] = caller[d]
        BY <3>3, Zenon
      <4> QED BY <4>1, Zenon DEF Owing, Weight
    <3> QED BY <3>2, <3>3, Zenon
  <2> QED BY <2>1, Zenon DEF Owing
<1>3. \A j \in DOMAIN link' : Dead(link'[j])
  BY ClosedDead, Zenon DEF AnswerInv
<1>4. \A j \in DOMAIN link' : Counted(j)'
  <2>1. TAKE j \in DOMAIN link'
  <2>2. Owing(j, 1)' = Owing(j, 1) /\ Owing(j, 2)' = Owing(j, 2)
    BY <1>2, Zenon
  <2>3. CASE j \in DOMAIN link
    <3>1. Counted(j) /\ link'[j] = link[j]
      BY <2>3, Zenon DEF AnswerInv
    <3> QED BY <2>2, <3>1, Zenon DEF Counted
  <2>4. CASE j \notin DOMAIN link
    <3>1. \A d \in Callers : caller[d].pc \in Using => caller[d].conn # j
      BY <2>4 DEF TInv, PoolInv
    <3>2. \A d \in Callers : Weight(caller[d]) >= 2 => Weight(caller[d]) >= 1
      BY WeightFacts
    <3>3. Owing(j, 1) = {} /\ Owing(j, 2) = {}
      BY <3>1, <3>2, WeightFacts, Zenon DEF Owing
    <3>4. IsFiniteSet({}) /\ Cardinality({}) = 0
      BY FS_EmptySet, Zenon
    <3>5. Size(link'[j]) = 0
      BY <2>4, ClosedDead, Zenon
    <3>6. IsFiniteSet(Owing(j, 1)') /\ IsFiniteSet(Owing(j, 2)')
      BY <2>2, <3>3, <3>4, Zenon
    <3>7. Cardinality(Owing(j, 1)') = 0 /\ Cardinality(Owing(j, 2)') = 0
      BY <2>2, <3>3, <3>4, Zenon
    <3>8. Size(link'[j]) <= Cardinality(Owing(j, 1)') + Cardinality(Owing(j, 2)')
      BY <3>5, <3>7
    <3> QED BY <3>6, <3>8, Zenon DEF Counted
  <2> QED BY <2>3, <2>4, Zenon
<1>5. \A d \in Callers : caller'[d].pc \in Using =>
        d # c /\ caller'[d] = caller[d] /\ caller[d].conn \in DOMAIN link
  BY Zenon DEF TInv, PoolInv
<1>6. \A d, e \in Callers : caller'[d].pc \in Using /\ Dialed(e)' => caller'[d].conn # caller'[e].conn
  <2>1. ASSUME NEW d \in Callers, NEW e \in Callers, caller'[d].pc \in Using, Dialed(e)'
        PROVE  caller'[d].conn # caller'[e].conn
    <3>1. CASE e = c
      BY <1>5, <2>1, <3>1, ZenonT(30) DEF Dialed
    <3>2. CASE e # c
      BY <1>5, <2>1, <3>2 DEF Dialed, AnswerInv
    <3> QED BY <3>1, <3>2, Zenon
  <2> QED BY <2>1, Zenon
<1>7. \A d \in Callers : BufFits(caller'[d]) /\ Answered(caller'[d])
  BY Zenon DEF AnswerInv
<1>8. ASSUME NEW d \in Callers, caller'[d].pc \in Using, caller'[d].alone
      PROVE  Solitary(d)' /\ InOrder(caller'[d], link'[caller'[d].conn])
  <2>1. caller'[d] = caller[d] /\ caller[d].conn \in DOMAIN link
    BY <1>5, <1>8, Zenon
  <2>2. Solitary(d) /\ InOrder(caller[d], link[caller[d].conn])
    BY <1>8, <2>1, Zenon DEF AnswerInv
  <2>3. Solitary(d)'
    BY <1>5, <2>1, <2>2, Zenon DEF Solitary
  <2> QED BY <2>1, <2>2, <2>3, Zenon
<1> QED BY <1>3, <1>4, <1>6, <1>7, <1>8, Zenon DEF AnswerInv

\* A call goes on with connection i, which is clean if no other uses it.
LEMMA UseAnswers ==
  ASSUME TInv, TInv', AnswerInv, NEW c \in Callers, caller[c].pc \notin Using, NEW r \in Nat,
         NEW ln \in Seq(Link), NEW i \in DOMAIN ln, Use(c, r, i, ln), DOMAIN ln = DOMAIN link,
         ln[i] = link[i], link[i].open, \A j \in DOMAIN link : ln[j] \in {link[j], Closed},
         \A d \in Callers \ {c} : Dialed(d) => caller[d].conn # i
  PROVE  AnswerInv'
<1>1. PICK l : l = [ln[i] EXCEPT !.timer = "set"]
  BY Zenon
<1>2. /\ l \in Link /\ l.open /\ l.served = link[i].served
      /\ l.toPeer = link[i].toPeer /\ l.toUs = link[i].toUs
  <2>1. ln[i] \in Link
    OBVIOUS
  <2> QED BY <1>1, <2>1, Zenon DEF Link
<1>3. /\ DOMAIN link' = DOMAIN link /\ link'[i] = l
      /\ \A j \in DOMAIN link \ {i} : link'[j] \in {link[j], Closed}
  <2>1. link' = [ln EXCEPT ![i] = l]
    BY <1>1, Zenon DEF Use
  <2> QED BY <1>2, <2>1, SetLink, Zenon
<1>4. PICK k : k = [Returned(r, Error, Users(i) = {}) EXCEPT !.pc = "head", !.conn = i]
  BY Zenon
<1>5. k.pc = "head" /\ k.conn = i /\ k.buf = <<>> /\ (k.alone <=> Users(i) = {})
  BY <1>4, Zenon DEF Returned
<1>6. ASSUME NEW d \in Callers \ {c}
      PROVE  /\ caller'[d].pc = caller[d].pc /\ caller'[d].conn = caller[d].conn
             /\ caller'[d].buf = caller[d].buf /\ caller'[d].got = caller[d].got
             /\ caller'[d].req = caller[d].req
             /\ caller'[d].alone => caller[d].alone /\ d \notin Users(i)
  <2>1. caller'[d] = [caller[d] EXCEPT !.alone = @ /\ d \notin Users(i)]
    BY Zenon DEF Use
  <2>2. caller[d] \in Caller
    BY Zenon DEF TInv, CallerType
  <2> QED BY <2>1, <2>2, ZenonT(30) DEF Caller
<1>7. caller'[c] = k
  BY <1>4, Zenon DEF Use
<1>8. \A d \in Callers : d \in Users(i) <=> caller[d].pc \in Using /\ caller[d].conn = i
  BY Zenon DEF Users, Using
<1>9. ASSUME NEW j, NEW w \in {1, 2} PROVE Owing(j, w)' = Owing(j, w)
  <2>1. Weight(caller[c]) = 0 /\ Weight(caller'[c]) = 0
    BY <1>5, <1>7, WeightFacts DEF Weight
  <2>2. \A d \in Callers : d \in Owing(j, w)' <=> d \in Owing(j, w)
    <3>1. TAKE d \in Callers
    <3>2. CASE d = c
      <4>1. ~(Weight(caller[c]) >= w) /\ ~(Weight(caller'[c]) >= w)
        BY <2>1
      <4>2. Weight(caller[c])' = Weight(caller'[c])
        BY Zenon DEF Weight
      <4> QED BY <3>2, <4>1, <4>2, Zenon DEF Owing
    <3>3. CASE d # c
      <4>1. Weight(caller[d])' = Weight(caller[d]) /\ caller'[d].conn = caller[d].conn
        BY <1>6, <3>3, ZenonT(30) DEF Weight
      <4> QED BY <4>1, Zenon DEF Owing
    <3> QED BY <3>2, <3>3, Zenon
  <2> QED BY <2>2, Zenon DEF Owing
<1>10. \A j \in DOMAIN link : link[j] \in Link /\ link'[j] \in Link /\ Counted(j) /\ Dead(link[j])
  BY <1>3 DEF AnswerInv, TInv, LinkType
<1>11. \A j \in DOMAIN link : Size(link'[j]) <= Size(link[j]) /\ Dead(link'[j])
  <2>1. TAKE j \in DOMAIN link
  <2>2. Size(link[j]) \in Nat
    BY <1>10, SizeType, Zenon
  <2>3. CASE j = i
    <3>1. Size(link'[j]) = Size(link[j])
      BY <1>2, <1>3, <2>3, Zenon DEF Size
    <3>2. Dead(link'[j])
      BY <1>2, <1>3, <2>3, ZenonT(30) DEF Dead
    <3> QED BY <2>2, <3>1, <3>2
  <2>4. CASE j # i
    BY <1>3, <1>10, <2>2, <2>4, ClosedDead
  <2> QED BY <2>3, <2>4, Zenon
<1>12. \A j \in DOMAIN link : Counted(j)'
  <2>1. TAKE j \in DOMAIN link
  <2>2. Counted(j) /\ Owing(j, 1)' = Owing(j, 1) /\ Owing(j, 2)' = Owing(j, 2)
    BY <1>9, <1>10, Zenon
  <2>3. PICK a \in Nat, b \in Nat : a = Cardinality(Owing(j, 1)) /\ b = Cardinality(Owing(j, 2))
    BY <2>2, FS_CardinalityType, Zenon DEF Counted
  <2>4. Size(link'[j]) \in Nat /\ Size(link[j]) \in Nat /\ Size(link'[j]) <= Size(link[j])
    BY <1>10, <1>11, SizeType, Zenon
  <2>5. Size(link[j]) <= a + b
    BY <2>2, <2>3, Zenon DEF Counted
  <2>6. Size(link'[j]) <= a + b
    BY <2>4, <2>5
  <2> QED BY <2>2, <2>3, <2>6, Zenon DEF Counted
<1>13. k.alone => l.toPeer = <<>> /\ l.toUs = <<>>
  <2>1. HAVE k.alone
  <2>2. \A d \in Callers : ~(caller[d].pc \in Using /\ caller[d].conn = i)
    BY <1>5, <1>8, <2>1, Zenon
  <2>3. \A d \in Callers : Weight(caller[d]) >= 2 => Weight(caller[d]) >= 1
    BY WeightFacts
  <2>4. Owing(i, 1) = {} /\ Owing(i, 2) = {}
    BY <2>2, <2>3, WeightFacts, Zenon DEF Owing
  <2>5. Cardinality({}) = 0
    BY FS_EmptySet, Zenon
  <2>6. i \in DOMAIN link
    BY Zenon
  <2>7. Size(link[i]) <= 0 + 0
    BY <1>10, <2>4, <2>5, <2>6, ZenonT(30) DEF Counted
  <2>8. link[i].toPeer = <<>> /\ link[i].toUs = <<>>
    BY <1>10, <2>6, <2>7, SizeType
  <2> QED BY <1>2, <2>8, Zenon
<1>14. \A d \in Callers : BufFits(caller'[d]) /\ Answered(caller'[d])
  <2>1. TAKE d \in Callers
  <2>2. CASE d = c
    BY <1>5, <1>7, <2>2, Zenon DEF BufFits, Answered
  <2>3. CASE d # c
    <3>1. BufFits(caller[d]) /\ Answered(caller[d])
      BY Zenon DEF AnswerInv
    <3> QED BY <1>6, <2>3, <3>1, Zenon DEF BufFits, Answered
  <2> QED BY <2>2, <2>3, Zenon
<1>15. \A d, e \in Callers : caller'[d].pc \in Using /\ Dialed(e)' => caller'[d].conn # caller'[e].conn
  <2>1. ASSUME NEW d \in Callers, NEW e \in Callers, caller'[d].pc \in Using, Dialed(e)'
        PROVE  caller'[d].conn # caller'[e].conn
    <3>1. e # c
      BY <1>5, <1>7, <2>1, Zenon DEF Dialed
    <3>2. Dialed(e) /\ caller'[e].conn = caller[e].conn
      BY <1>6, <2>1, <3>1, Zenon DEF Dialed
    <3>3. CASE d = c
      BY <1>5, <1>7, <3>1, <3>2, <3>3, ZenonT(30)
    <3>4. CASE d # c
      <4>1. caller[d].pc \in Using /\ caller'[d].conn = caller[d].conn
        BY <1>6, <2>1, <3>4, Zenon
      <4> QED BY <3>2, <4>1, Zenon DEF AnswerInv
    <3> QED BY <3>3, <3>4, Zenon
  <2> QED BY <2>1, Zenon
<1>16. ASSUME NEW d \in Callers, caller'[d].pc \in Using, caller'[d].alone
       PROVE  Solitary(d)' /\ InOrder(caller'[d], link'[caller'[d].conn])
  <2>1. CASE d = c
    <3>1. \A e \in Callers : ~(caller[e].pc \in Using /\ caller[e].conn = i)
      BY <1>5, <1>7, <1>8, <1>16, <2>1, ZenonT(30)
    <3>2. Solitary(d)'
      BY <1>5, <1>6, <1>7, <2>1, <3>1, ZenonT(30) DEF Solitary
    <3>3. InOrder(k, l)
      BY <1>5, <1>7, <1>13, <1>16, <2>1, Zenon DEF InOrder
    <3> QED BY <1>3, <1>5, <1>7, <2>1, <3>2, <3>3, ZenonT(30)
  <2>2. CASE d # c
    <3>1. /\ caller[d].pc \in Using /\ caller[d].alone /\ d \notin Users(i)
          /\ caller'[d].conn = caller[d].conn
      BY <1>6, <1>16, <2>2, Zenon
    <3>2. caller[d].conn # i /\ caller[d].conn \in DOMAIN link
      BY <1>8, <3>1, Zenon DEF TInv, PoolInv
    <3>3. Solitary(d) /\ InOrder(caller[d], link[caller[d].conn])
      BY <3>1, Zenon DEF AnswerInv
    <3>4. Solitary(d)'
      <4>1. SUFFICES ASSUME NEW e \in Callers, caller'[e].pc \in Using,
                            caller'[e].conn = caller'[d].conn
                     PROVE  e = d
        BY Zenon DEF Solitary
      <4>2. e # c
        BY <1>5, <1>7, <3>1, <3>2, <4>1, ZenonT(30)
      <4> QED BY <1>6, <3>1, <3>3, <4>1, <4>2, ZenonT(30) DEF Solitary
    <3>5. InOrder(caller[d], link'[caller[d].conn])
      BY <1>3, <3>2, <3>3, ClosedOrder, ZenonT(30)
    <3>6. InOrder(caller'[d], link'[caller[d].conn])
      BY <1>6, <2>2, <3>5, Zenon DEF InOrder
    <3> QED BY <3>1, <3>4, <3>6, Zenon
  <2> QED BY <2>1, <2>2, Zenon
<1> QED BY <1>3, <1>11, <1>12, <1>14, <1>15, <1>16, ZenonT(30) DEF AnswerInv

-----------------------------------------------------------------------------
\* The steps

LEMMA CallAnswers ==
  ASSUME TInv, TInv', AnswerInv, NEW c \in Callers, Call(c)
  PROVE  AnswerInv'
<1>1. caller[c].pc = "returned" /\ caller[c].pc \notin Using /\ calls + 1 \in Nat
  BY Zenon DEF Call, Using, TInv
<1>2. CASE conns # NoConn
  <2>1. /\ conns \in DOMAIN link /\ link[conns].open /\ link \in Seq(Link)
        /\ Use(c, calls + 1, conns, link)
    BY <1>2, Zenon DEF Call, TInv, PoolInv, LinkType
  <2>2. \A d \in Callers \ {c} : Dialed(d) => caller[d].conn # conns
    BY Zenon DEF TInv, PoolInv
  <2>3. \A j \in DOMAIN link : link[j] \in {link[j], Closed}
    BY Zenon
  <2> QED BY <1>1, <2>1, <2>2, <2>3, UseAnswers, ZenonT(30)
<1>3. CASE conns = NoConn
  <2>1. PICK k : k = [Returned(calls + 1, Error, TRUE) EXCEPT !.pc = "dial"]
    BY Zenon
  <2>2. k.pc = "dial"
    BY <2>1, Zenon DEF Returned
  <2>3. caller' = [caller EXCEPT ![c] = k] /\ link' = link
    BY <1>3, <2>1, Zenon DEF Call
  <2>4. caller'[c] = k /\ \A d \in Callers \ {c} : caller'[d] = caller[d]
    BY <2>3, Zenon DEF TInv, CallerType
  <2>5. k.pc \notin Using /\ BufFits(k) /\ Answered(k)
    BY <2>2, Zenon DEF Using, BufFits, Answered
  <2> QED BY <1>1, <2>2, <2>3, <2>4, <2>5, OutsideAnswers, ZenonT(30)
<1> QED BY <1>2, <1>3, Zenon

LEMMA DialAnswers ==
  ASSUME TInv, TInv', AnswerInv, NEW c \in Callers, Dial(c)
  PROVE  AnswerInv'
<1>1. caller[c].pc \notin Using
  BY Zenon DEF Dial, Using
<1>2. PICK k : k = [caller[c] EXCEPT !.pc = "put", !.conn = Len(link) + 1]
  BY Zenon
<1>3. link \in Seq(Link) /\ Len(link) \in Nat /\ Len(link) + 1 \in Nat
  BY DEF TInv, LinkType
<1>4. k.pc = "put" /\ k.conn = Len(link) + 1
  <2>1. caller[c] \in Caller
    BY Zenon DEF TInv, CallerType
  <2> QED BY <1>2, <1>3, <2>1, DialedType, Zenon
<1>5. caller' = [caller EXCEPT ![c] = k]
  BY <1>2, Zenon DEF Dial, TInv, CallerType
<1>6. caller'[c] = k /\ \A d \in Callers \ {c} : caller'[d] = caller[d]
  BY <1>5, Zenon DEF TInv, CallerType
<1>7. k.pc \notin Using /\ BufFits(k) /\ Answered(k)
  BY <1>4, Zenon DEF Using, BufFits, Answered
<1>8. /\ DOMAIN link \subseteq DOMAIN link'
      /\ \A j \in DOMAIN link : link'[j] = link[j]
      /\ \A j \in DOMAIN link' \ DOMAIN link : link'[j] = Fresh
      /\ Len(link) + 1 \notin DOMAIN link
  BY <1>3, ClosedIsLink DEF Dial
<1> QED BY <1>1, <1>4, <1>6, <1>7, <1>8, OutsideAnswers, ZenonT(30)

LEMMA DialFailsAnswers ==
  ASSUME TInv, TInv', AnswerInv, NEW c \in Callers, DialFails(c)
  PROVE  AnswerInv'
<1>1. PICK k : k = Returned(caller[c].req, Error, caller[c].alone)
  BY Zenon
<1>2. k.pc = "returned" /\ k.got = Error
  BY <1>1, Zenon DEF Returned
<1>3. caller' = [caller EXCEPT ![c] = k] /\ link' = link /\ caller[c].pc \notin Using
  BY <1>1, Zenon DEF DialFails, Using
<1>4. caller'[c] = k /\ \A d \in Callers \ {c} : caller'[d] = caller[d]
  BY <1>3, Zenon DEF TInv, CallerType
<1>5. k.pc \notin Using /\ BufFits(k) /\ Answered(k)
  BY <1>2, Zenon DEF Using, BufFits, Answered
<1> QED BY <1>2, <1>3, <1>4, <1>5, OutsideAnswers, ZenonT(30)

LEMMA PutAnswers ==
  ASSUME TInv, TInv', AnswerInv, NEW c \in Callers, Put(c)
  PROVE  AnswerInv'
<1> DEFINE own == caller[c].conn
<1>1. /\ Dialed(c) /\ caller[c].pc \notin Using /\ own \in DOMAIN link /\ link[own].open
      /\ own # conns /\ caller[c].req \in Nat /\ link \in Seq(Link)
  BY Zenon DEF Put, TInv, PoolInv, CallerType, LinkType, Caller, Dialed, Using
<1>2. CASE conns = NoConn
  <2>1. Use(c, caller[c].req, own, link)
    BY <1>2, Zenon DEF Put
  <2>2. \A d \in Callers \ {c} : Dialed(d) => caller[d].conn # own
    BY <1>1, Zenon DEF TInv, PoolInv
  <2>3. \A j \in DOMAIN link : link[j] \in {link[j], Closed}
    OBVIOUS
  <2> QED BY <1>1, <2>1, <2>2, <2>3, UseAnswers, Zenon
<1>3. CASE conns # NoConn
  <2>1. PICK ln : ln = [link EXCEPT ![own] = Closed]
    BY Zenon
  <2>2. /\ ln \in Seq(Link) /\ DOMAIN ln = DOMAIN link
        /\ \A j \in DOMAIN link \ {own} : ln[j] = link[j]
        /\ ln[own] = Closed
    BY <1>1, <2>1, SetLink, ClosedIsLink, Zenon
  <2>3. /\ Use(c, caller[c].req, conns, ln) /\ conns \in DOMAIN ln
        /\ ln[conns] = link[conns] /\ link[conns].open
    BY <1>1, <1>3, <2>1, <2>2, ZenonT(30) DEF Put, TInv, PoolInv
  <2>4. \A d \in Callers \ {c} : Dialed(d) => caller[d].conn # conns
    BY DEF TInv, PoolInv
  <2>5. \A j \in DOMAIN link : ln[j] \in {link[j], Closed}
    BY <2>2, Zenon
  <2> QED BY <1>1, <2>2, <2>3, <2>4, <2>5, UseAnswers, Zenon
<1> QED BY <1>2, <1>3, Zenon

\* Sequences of up to two pieces.
LEMMA ShortSeq ==
  ASSUME NEW q \in Seq(Pieces)
  PROVE  /\ Len(q) = 0 <=> q = <<>>
         /\ Len(q) = 1 => q = <<q[1]>>
         /\ Len(q) = 2 => q = <<q[1], q[2]>>
<1>1. Len(q) = 0 <=> q = <<>>
  BY EmptySeq, Zenon
<1>2. ASSUME Len(q) = 1 PROVE q = <<q[1]>>
  BY <1>2
<1>3. ASSUME Len(q) = 2 PROVE q = <<q[1], q[2]>>
  BY <1>3
<1> QED BY <1>1, <1>2, <1>3, Zenon

LEMMA AppendOne ==
  ASSUME NEW x \in Pieces, NEW y \in Pieces
  PROVE  Append(<<x>>, y) = <<x, y>>
<1>1. <<x>> \in Seq(Pieces) /\ Len(<<x>>) = 1 /\ <<x>>[1] = x
  OBVIOUS
<1>2. PICK a \in Seq(Pieces) : a = <<x>> /\ Len(a) = 1 /\ a[1] = x
  BY <1>1, Zenon
<1>3. Append(a, y) \in Seq(Pieces)
  OBVIOUS
<1>4. Len(Append(a, y)) = 2
  BY <1>2
<1>5. Append(a, y)[1] = x
  BY <1>2
<1>6. Append(a, y)[2] = y
  BY <1>2
<1>7. PICK b \in Seq(Pieces) : b = Append(a, y)
  BY <1>3, Zenon
<1>8. Len(b) = 2 /\ b[1] = x /\ b[2] = y
  BY <1>4, <1>5, <1>6, <1>7, Zenon
<1>9. b = <<x, y>>
  BY <1>8
<1> QED BY <1>2, <1>7, <1>9, Zenon

LEMMA WriteAnswers ==
  ASSUME TInv, TInv', AnswerInv, NEW c \in Callers, Write(c)
  PROVE  AnswerInv'
<1>1. PICK i : i = caller[c].conn
  BY Zenon
<1>2. /\ caller[c] \in Caller /\ caller[c].pc \in {"head", "tail"} /\ caller[c].pc \in Using
      /\ caller[c].buf = <<>>
  BY Zenon DEF Write, TInv, CallerType, Using, AnswerInv, BufFits
<1>3. /\ i \in DOMAIN link /\ link[i] \in Link /\ link[i].open
      /\ link[i].toPeer \in Seq(Pieces) /\ link[i].toUs \in Seq(Pieces)
  <2>1. i \in DOMAIN link /\ link[i] \in Link /\ link[i].open
    BY <1>1, <1>2 DEF TInv, PoolInv, LinkType, Write, Usable
  <2> QED BY <2>1, ZenonT(30) DEF Link
<1>4. PICK piece : piece = [msg |-> caller[c].req, part |-> caller[c].pc]
  BY Zenon
<1>5. piece \in Pieces
  BY <1>2, <1>4, Zenon DEF Caller, Pieces
<1>6. /\ caller[c].pc = "head" => piece = Head_(caller[c].req)
      /\ caller[c].pc = "tail" => piece = Tail_(caller[c].req)
  BY <1>4, Zenon DEF Head_, Tail_
<1>7. PICK l : l = IF link[i].served
                   THEN [link[i] EXCEPT !.toPeer = Append(link[i].toPeer, piece)] ELSE link[i]
  BY Zenon
<1>8. /\ l \in Link /\ l.open /\ l.served = link[i].served /\ l.toUs = link[i].toUs
      /\ l.toPeer = IF l.served THEN Append(link[i].toPeer, piece) ELSE link[i].toPeer
  <2>1. Append(link[i].toPeer, piece) \in Seq(Pieces)
    BY <1>3, <1>5
  <2>2. CASE link[i].served
    <3>1. l = [link[i] EXCEPT !.toPeer = Append(link[i].toPeer, piece)]
      BY <1>7, <2>2, Zenon
    <3> QED BY <1>3, <2>1, <2>2, <3>1, ZenonT(30) DEF Link
  <2>3. CASE ~link[i].served
    BY <1>3, <1>7, <2>3, Zenon
  <2> QED BY <2>2, <2>3, Zenon
<1>9. link' = IF link[i].served
              THEN [link EXCEPT ![i] = [link[i] EXCEPT !.toPeer = Append(link[i].toPeer, piece)]] ELSE link
  BY <1>1, <1>4, Zenon DEF Write
<1>10. DOMAIN link' = DOMAIN link /\ link'[i] = l /\ \A j \in DOMAIN link \ {i} : link'[j] = link[j]
  <2>1. link \in Seq(Link)
    BY Zenon DEF TInv, LinkType
  <2>2. CASE link[i].served
    BY <1>3, <1>7, <1>8, <1>9, <2>1, <2>2, SetLink
  <2>3. CASE ~link[i].served
    BY <1>7, <1>9, <2>3, Zenon
  <2> QED BY <2>2, <2>3, Zenon
<1>11. PICK k : k = [caller[c] EXCEPT !.pc = IF caller[c].pc = "head" THEN "tail" ELSE "read"]
  BY Zenon
<1>12. /\ k \in Caller /\ k.pc = (IF caller[c].pc = "head" THEN "tail" ELSE "read")
       /\ k.conn = i /\ k.alone = caller[c].alone /\ k.req = caller[c].req /\ k.buf = <<>>
  BY <1>1, <1>2, <1>11, Zenon DEF Caller, Using
<1>13. MovesTo(c, k)
  <2>1. caller' = [caller EXCEPT ![c] = k]
    BY <1>11, Zenon DEF Write
  <2>2. k.pc \in Using /\ k.pc # "returned" /\ BufFits(k) /\ Answered(k)
    BY <1>12 DEF Using, BufFits, Answered
  <2> QED BY <1>1, <1>2, <1>12, <2>1, <2>2, ZenonT(30) DEF MovesTo
<1>14. Balances(c, k)
  <2>1. Size(l) <= Size(link[i]) + 1 /\ Size(l) \in Nat /\ Size(link[i]) \in Nat
    <3>1. Len(Append(link[i].toPeer, piece)) = Len(link[i].toPeer) + 1
      BY <1>3, <1>5
    <3>2. Len(link[i].toPeer) \in Nat /\ Len(link[i].toUs) \in Nat
      BY <1>3
    <3>3. Len(l.toPeer) <= Len(link[i].toPeer) + 1 /\ Len(l.toPeer) \in Nat
      BY <1>8, <3>1, <3>2
    <3>4. PICK m \in Nat, n \in Nat, u \in Nat :
            m = Len(l.toPeer) /\ n = Len(link[i].toPeer) /\ u = Len(link[i].toUs)
      BY <3>2, <3>3, Zenon
    <3>5. Size(l) = m + u /\ Size(link[i]) = n + u
      BY <1>8, <3>4, Zenon DEF Size
    <3>6. m <= n + 1
      BY <3>3, <3>4, ZenonT(30)
    <3> QED BY <3>5, <3>6
  <2>2. Weight(k) = Weight(caller[c]) + 1 /\ Weight(k) \in 0 .. 2 /\ Weight(caller[c]) \in 0 .. 2
    BY <1>2, <1>12, WeightFacts DEF Weight
  <2> QED BY <1>1, <1>10, <2>1, <2>2 DEF Balances
<1>15. ASSUME k.alone PROVE InOrder(k, l)
  <2>1. InOrder(caller[c], link[i])
    BY <1>1, <1>2, <1>12, <1>15, ZenonT(30) DEF AnswerInv
  <2>2. CASE caller[c].pc = "head"
    <3>1. link[i].toPeer = <<>> /\ link[i].toUs = <<>> /\ piece = Head_(k.req) /\ k.pc = "tail"
      BY <1>6, <1>12, <2>1, <2>2, ZenonT(30) DEF InOrder
    <3>2. Append(<<>>, piece) = <<piece>>
      OBVIOUS
    <3>3. l.toPeer = (IF l.served THEN <<Head_(k.req)>> ELSE <<>>) /\ l.toUs = <<>>
      BY <1>8, <3>1, <3>2, Zenon
    <3>4. k.pc # "head" /\ k.pc # "read"
      BY <3>1, Zenon
    <3> QED BY <3>3, <3>4, Zenon DEF InOrder
  <2>3. CASE caller[c].pc = "tail"
    <3>1. /\ link[i].toPeer = (IF link[i].served THEN <<Head_(k.req)>> ELSE <<>>)
          /\ link[i].toUs = <<>> /\ piece = Tail_(k.req) /\ k.pc = "read"
      BY <1>6, <1>12, <2>1, <2>3, ZenonT(30) DEF InOrder
    <3>2. Append(<<Head_(k.req)>>, piece) = <<Head_(k.req), piece>>
      <4>1. Head_(k.req) \in Pieces
        BY <1>12, Zenon DEF Caller, Head_, Pieces
      <4> QED BY <1>5, <4>1, AppendOne, Zenon
    <3>3. /\ l.toPeer = (IF l.served THEN <<Head_(k.req), Tail_(k.req)>> ELSE <<>>)
          /\ l.toUs = <<>> /\ k.buf = <<>>
      BY <1>8, <1>12, <3>1, <3>2, ZenonT(30)
    <3>4. k.pc # "head" /\ k.pc # "tail"
      BY <3>1, Zenon
    <3>5. <<>> \in {<<>>, <<Head_(k.req), Tail_(k.req)>>}
      BY Zenon
    <3> QED BY <3>3, <3>4, <3>5, Zenon DEF InOrder
  <2> QED BY <1>2, <2>2, <2>3, Zenon
<1>16. Dead(l)
  BY <1>8, Zenon DEF Dead
<1> QED BY <1>1, <1>10, <1>13, <1>14, <1>15, <1>16, MoveAnswers, ZenonT(30)

\* Taking n pieces from the front of a queue.
LEMMA Taken ==
  ASSUME NEW b \in Seq(Pieces), NEW q \in Seq(Pieces), NEW n \in 1 .. Len(q)
  PROVE  /\ b \o SubSeq(q, 1, n) \in Seq(Pieces)
         /\ Len(b \o SubSeq(q, 1, n)) = Len(b) + n
         /\ \A x \in 1 .. Len(b) : (b \o SubSeq(q, 1, n))[x] = b[x]
         /\ \A x \in 1 .. n : (b \o SubSeq(q, 1, n))[Len(b) + x] = q[x]
         /\ SubSeq(q, n + 1, Len(q)) \in Seq(Pieces)
         /\ Len(SubSeq(q, n + 1, Len(q))) = Len(q) - n
         /\ \A x \in 1 .. Len(q) - n : SubSeq(q, n + 1, Len(q))[x] = q[n + x]
<1>1. PICK f : f = SubSeq(q, 1, n)
  BY Zenon
<1>2. f \in Seq(Pieces) /\ Len(f) = n /\ \A x \in 1 .. n : f[x] = q[x]
  BY <1>1, SubSeqProperties
<1>3. PICK e : e = SubSeq(q, n + 1, Len(q))
  BY Zenon
<1>4. e \in Seq(Pieces) /\ Len(e) = Len(q) - n /\ \A x \in 1 .. Len(q) - n : e[x] = q[n + x]
  BY <1>3, SubSeqProperties
<1>5. /\ b \o f \in Seq(Pieces) /\ Len(b \o f) = Len(b) + n
      /\ \A x \in 1 .. Len(b) : (b \o f)[x] = b[x]
      /\ \A x \in 1 .. n : (b \o f)[Len(b) + x] = f[x]
  <2>1. /\ b \o f \in Seq(Pieces) /\ Len(b \o f) = Len(b) + Len(f)
        /\ \A x \in 1 .. Len(b) + Len(f) :
             (b \o f)[x] = IF x <= Len(b) THEN b[x] ELSE f[x - Len(b)]
    BY <1>2, ConcatProperties, Zenon
  <2>2. Len(b) \in Nat /\ n \in Nat /\ Len(f) = n
    BY <1>2
  <2>3. ASSUME NEW x \in 1 .. Len(b) PROVE (b \o f)[x] = b[x]
    BY <2>1, <2>2
  <2>4. ASSUME NEW x \in 1 .. n PROVE (b \o f)[Len(b) + x] = f[x]
    <3>1. PICK y \in 1 .. Len(b) + Len(f) : y = Len(b) + x /\ ~(y <= Len(b)) /\ y - Len(b) = x
      BY <2>2
    <3> QED BY <2>1, <3>1, Zenon
  <2> QED BY <2>1, <2>2, <2>3, <2>4, Zenon
<1> QED BY <1>1, <1>2, <1>3, <1>4, <1>5, ZenonT(30)

LEMMA OwnPieces ==
  ASSUME NEW r, r # Error
  PROVE  Decoded(Head_(r), Tail_(r)) = {r}
  BY Zenon DEF Decoded, Head_, Tail_

LEMMA ReadAnswers ==
  ASSUME TInv, TInv', AnswerInv, NEW c \in Callers, NEW n \in Nat \ {0}, caller[c].pc = "read",
         n <= Len(link[caller[c].conn].toUs), Read(c, n)
  PROVE  AnswerInv'
<1>1. PICK i, r : i = caller[c].conn /\ r = caller[c].req
  BY Zenon
<1>2. /\ caller[c] \in Caller /\ caller[c].pc \in Using /\ r \in Nat /\ r # Error
      /\ caller[c].alone \in BOOLEAN
  BY <1>1, NoConnAssumption, Zenon DEF TInv, CallerType, Caller, Using
<1>3. /\ i \in DOMAIN link /\ link[i] \in Link /\ link[i].open
      /\ link[i].toPeer \in Seq(Pieces) /\ link[i].toUs \in Seq(Pieces)
  <2>1. i \in DOMAIN link /\ link[i] \in Link /\ link[i].open
    <3>1. Usable(i)
      BY <1>1, Zenon DEF Read
    <3> QED BY <1>1, <1>2, <3>1 DEF TInv, PoolInv, LinkType, Usable
  <2> QED BY <2>1, ZenonT(30) DEF Link
<1>4. PICK b, q : b = caller[c].buf /\ q = link[i].toUs
  BY Zenon
<1>5. /\ b \in Seq(Pieces) /\ q \in Seq(Pieces) /\ n \in 1 .. Len(q)
      /\ Len(b) \in {0, 1} /\ Len(q) \in Nat
  <2>1. b \in Seq(Pieces) /\ q \in Seq(Pieces)
    BY <1>2, <1>3, <1>4, Zenon DEF Caller
  <2>2. Len(b) < 2 /\ n <= Len(q)
    BY <1>1, <1>4, Zenon DEF AnswerInv, BufFits
  <2>3. PICK x \in Nat, y \in Nat : x = Len(b) /\ y = Len(q)
    BY <2>1
  <2>4. n \in 1 .. y /\ x \in {0, 1}
    BY <2>2, <2>3
  <2> QED BY <2>1, <2>3, <2>4, Zenon
<1>6. PICK buf, rest :
        /\ buf = b \o SubSeq(q, 1, n)
        /\ rest = SubSeq(q, n + 1, Len(q))
        /\ buf \in Seq(Pieces) /\ Len(buf) = Len(b) + n
        /\ \A x \in 1 .. Len(b) : buf[x] = b[x]
        /\ \A x \in 1 .. n : buf[Len(b) + x] = q[x]
        /\ rest \in Seq(Pieces) /\ Len(rest) = Len(q) - n
        /\ \A x \in 1 .. Len(q) - n : rest[x] = q[n + x]
  <2>1. /\ b \o SubSeq(q, 1, n) \in Seq(Pieces)
        /\ Len(b \o SubSeq(q, 1, n)) = Len(b) + n
        /\ \A x \in 1 .. Len(b) : (b \o SubSeq(q, 1, n))[x] = b[x]
        /\ \A x \in 1 .. n : (b \o SubSeq(q, 1, n))[Len(b) + x] = q[x]
        /\ SubSeq(q, n + 1, Len(q)) \in Seq(Pieces)
        /\ Len(SubSeq(q, n + 1, Len(q))) = Len(q) - n
        /\ \A x \in 1 .. Len(q) - n : SubSeq(q, n + 1, Len(q))[x] = q[n + x]
    <3>1. b \in Seq(Pieces) /\ q \in Seq(Pieces) /\ n \in 1 .. Len(q)
      BY <1>5, Zenon
    <3> QED BY <3>1, Taken
  <2> QED BY <2>1, ZenonT(30)
<1>7. /\ buf \in Seq(Pieces) /\ Len(buf) = Len(b) + n
      /\ \A x \in 1 .. Len(b) : buf[x] = b[x]
      /\ \A x \in 1 .. n : buf[Len(b) + x] = q[x]
      /\ rest \in Seq(Pieces) /\ Len(rest) = Len(q) - n
      /\ \A x \in 1 .. Len(q) - n : rest[x] = q[n + x]
  BY <1>6, Zenon
<1>8. PICK l : l = [link[i] EXCEPT !.toUs = rest]
  BY Zenon
<1>9. /\ l \in Link /\ l.open /\ l.served = link[i].served
      /\ l.toPeer = link[i].toPeer /\ l.toUs = rest
  BY <1>3, <1>7, <1>8, Zenon DEF Link
<1>10. DOMAIN link' = DOMAIN link /\ link'[i] = l /\ \A j \in DOMAIN link \ {i} : link'[j] = link[j]
  <2>1. link' = [link EXCEPT ![i] = l] /\ link \in Seq(Link)
    BY <1>1, <1>4, <1>6, <1>8, ZenonT(30) DEF Read, TInv, LinkType
  <2> QED BY <1>3, <1>9, <2>1, SetLink, Zenon
<1>11. Size(l) + n = Size(link[i]) /\ Size(l) \in Nat /\ Size(link[i]) \in Nat
  <2>1. PICK m \in Nat, u \in Nat, v \in Nat : m = Len(l.toPeer) /\ u = Len(q) /\ v = Len(rest)
    BY <1>3, <1>5, <1>7, <1>9
  <2>2. Size(l) = m + v /\ Size(link[i]) = m + u
    BY <1>4, <1>9, <2>1, ZenonT(30) DEF Size
  <2>3. v + n = u
    BY <1>5, <1>7, <2>1
  <2> QED BY <2>2, <2>3
<1>12. Dead(l)
  BY <1>9, Zenon DEF Dead
<1>13. /\ b = <<>> <=> Len(b) = 0
       /\ Weight(caller[c]) = IF b = <<>> THEN 2 ELSE 1
  BY <1>4, <1>5, ShortSeq, ZenonT(30) DEF Weight
\* What a call that is alone has in hand and before it.
<1>14. ASSUME caller[c].alone
       PROVE  \/ b = <<>> /\ q = <<Head_(r), Tail_(r)>>
              \/ b = <<Head_(r)>> /\ q = <<Tail_(r)>>
  <2>1. InOrder(caller[c], link[i])
    BY <1>1, <1>2, <1>14, ZenonT(30) DEF AnswerInv
  <2>2. q # <<>>
    BY <1>5, ShortSeq
  <2> QED BY <1>1, <1>4, <2>1, <2>2, ZenonT(30) DEF InOrder
<1>15. CASE Len(buf) < 2
  <2>1. n = 1 /\ Len(b) = 0 /\ b = <<>> /\ Len(buf) = 1
    BY <1>5, <1>7, <1>13, <1>15
  <2>2. PICK k : k = [caller[c] EXCEPT !.buf = buf]
    BY Zenon
  <2>3. /\ k \in Caller /\ k.pc = "read" /\ k.conn = i /\ k.alone = caller[c].alone
        /\ k.req = r /\ k.buf = buf
    BY <1>1, <1>2, <1>7, <2>2, ZenonT(30) DEF Caller
  <2>4. caller' = [caller EXCEPT ![c] = k]
    BY <1>1, <1>4, <1>6, <1>15, <2>2, ZenonT(30) DEF Read
  <2>5. MovesTo(c, k)
    <3>1. k.pc \in Using /\ BufFits(k) /\ Answered(k)
      BY <1>15, <2>3, ZenonT(30) DEF Using, BufFits, Answered
    <3> QED BY <1>1, <1>2, <2>3, <2>4, <3>1, ZenonT(30) DEF MovesTo
  <2>6. Balances(c, k)
    <3>1. buf # <<>>
      BY <1>7, <2>1, ShortSeq, ZenonT(30)
    <3>2. Weight(k) = 1 /\ Weight(caller[c]) = 2
      BY <1>13, <2>1, <2>3, <3>1, ZenonT(30) DEF Weight
    <3> QED BY <1>1, <1>10, <1>11, <2>1, <3>2 DEF Balances
  <2>7. ASSUME k.alone PROVE InOrder(k, l)
    <3>1. q = <<Head_(r), Tail_(r)>> /\ Len(q) = 2
      <4>1. <<Head_(r)>> # <<>>
        BY Zenon
      <4>2. q = <<Head_(r), Tail_(r)>>
        BY <1>14, <2>1, <2>3, <2>7, <4>1, ZenonT(30)
      <4> QED BY <4>2, Zenon
    <3>2. buf = <<buf[1]>> /\ buf[1] = Head_(r)
      BY <1>7, <2>1, <3>1, ShortSeq
    <3>3. rest = <<rest[1]>> /\ rest[1] = Tail_(r)
      BY <1>7, <2>1, <3>1, ShortSeq
    <3>4. link[i].toPeer = <<>>
      <4>1. InOrder(caller[c], link[i])
        BY <1>1, <1>2, <2>3, <2>7, ZenonT(30) DEF AnswerInv
      <4>2. q # <<>>
        BY <1>5, ShortSeq
      <4> QED BY <1>4, <4>1, <4>2, ZenonT(30) DEF InOrder
    <3>5. k.buf = <<Head_(k.req)>> /\ l.toUs = <<Tail_(k.req)>> /\ l.toPeer = <<>>
      BY <1>9, <2>3, <3>2, <3>3, <3>4, ZenonT(30)
    <3>6. k.pc # "head" /\ k.pc # "tail"
      BY <2>3, Zenon
    <3>7. l.toUs \in {<<>>, <<Tail_(k.req)>>}
      BY <3>5, Zenon
    <3> QED BY <3>5, <3>6, <3>7, ZenonT(30) DEF InOrder
  <2> QED BY <1>1, <1>10, <1>12, <2>5, <2>6, <2>7, MoveAnswers, ZenonT(30)
<1>16. CASE ~(Len(buf) < 2)
  <2>1. buf[1] \in Pieces /\ buf[2] \in Pieces
    BY <1>7, <1>16, FirstTwo, ZenonT(30)
  <2>2. PICK m \in Decoded(buf[1], buf[2]) :
          caller' = [caller EXCEPT ![c] =
                       IF m = Error THEN [caller[c] EXCEPT !.pc = "close", !.buf = <<>>]
                       ELSE Returned(r, m, caller[c].alone)]
    BY <1>1, <1>4, <1>6, <1>16, ZenonT(30) DEF Read
  <2>3. m \in Nat \cup {Error}
    BY <2>1, DecodedType, ZenonT(30)
  <2>4. CASE m = Error
    <3>1. PICK k : k = [caller[c] EXCEPT !.pc = "close", !.buf = <<>>]
      BY Zenon
    <3>2. /\ k \in Caller /\ k.pc = "close" /\ k.conn = i /\ k.alone = caller[c].alone
          /\ k.buf = <<>>
      BY <1>1, <1>2, <3>1, EmptyPieces, ZenonT(30) DEF Caller, Using
    <3>3. caller' = [caller EXCEPT ![c] = k]
      BY <2>2, <2>4, <3>1, ZenonT(30)
    <3>4. MovesTo(c, k)
      <4>1. k.pc \in Using /\ BufFits(k) /\ Answered(k)
        BY <3>2, ZenonT(30) DEF Using, BufFits, Answered
      <4> QED BY <1>1, <1>2, <3>2, <3>3, <4>1, ZenonT(30) DEF MovesTo
    <3>5. Balances(c, k)
      <4>1. Weight(k) = 2 /\ Weight(caller[c]) \in {1, 2}
        BY <1>13, <3>2, ZenonT(30) DEF Weight
      <4> QED BY <1>1, <1>10, <1>11, <4>1 DEF Balances
    <3>6. InOrder(k, l)
      BY <3>2, Zenon DEF InOrder
    <3> QED BY <1>1, <1>10, <1>12, <3>4, <3>5, <3>6, MoveAnswers
  <2>5. CASE m # Error
    <3>1. PICK k : k = Returned(r, m, caller[c].alone)
      BY Zenon
    <3>2. k \in Caller /\ k.pc = "returned"
      BY <1>2, <2>3, <3>1, ReturnedType, ZenonT(30)
    <3>3. k.req = r /\ k.got = m /\ k.alone = caller[c].alone
      BY <3>1, Zenon DEF Returned
    <3>4. caller' = [caller EXCEPT ![c] = k]
      BY <2>2, <2>5, <3>1, Zenon
    <3>5. ASSUME caller[c].alone PROVE m = r
      <4>1. buf[1] = Head_(r) /\ buf[2] = Tail_(r)
        <5>1. CASE b = <<>> /\ q = <<Head_(r), Tail_(r)>>
          <6>1. Len(b) = 0 /\ q[1] = Head_(r) /\ q[2] = Tail_(r) /\ n = 2
            BY <1>5, <1>7, <1>13, <1>16, <5>1
          <6> QED BY <1>7, <6>1
        <5>2. CASE b = <<Head_(r)>> /\ q = <<Tail_(r)>>
          <6>1. Len(b) = 1 /\ b[1] = Head_(r) /\ q[1] = Tail_(r) /\ 1 \in 1 .. n
            BY <5>2
          <6> QED BY <1>7, <6>1
        <5> QED BY <1>14, <3>5, <5>1, <5>2, ZenonT(30)
      <4>2. Decoded(buf[1], buf[2]) = {r}
        BY <1>2, <4>1, OwnPieces, Zenon
      <4> QED BY <2>2, <4>2, Zenon
    <3>6. MovesTo(c, k)
      <4>1. BufFits(k) /\ Answered(k)
        BY <3>2, <3>3, <3>5, ZenonT(30) DEF BufFits, Answered
      <4> QED BY <1>1, <1>2, <3>2, <3>4, <4>1, Zenon DEF MovesTo
    <3>7. Balances(c, k)
      <4>1. Weight(k) = 0
        BY <3>2, Zenon DEF Weight
      <4>2. Weight(caller[c]) <= n
        BY <1>5, <1>7, <1>13, <1>16
      <4>3. Weight(caller[c]) \in {1, 2}
        BY <1>13, Zenon
      <4> QED BY <1>1, <1>10, <1>11, <4>1, <4>2, <4>3 DEF Balances
    <3>8. k.pc \notin Using
      BY <3>2, Zenon DEF Using
    <3> QED BY <1>1, <1>10, <1>12, <3>6, <3>7, <3>8, MoveAnswers, ZenonT(30)
  <2> QED BY <2>4, <2>5, Zenon
<1> QED BY <1>15, <1>16, Zenon

LEMMA ExchangeFailsAnswers ==
  ASSUME TInv, TInv', AnswerInv, NEW c \in Callers, ExchangeFails(c)
  PROVE  AnswerInv'
<1>1. PICK i : i = caller[c].conn
  BY Zenon
<1>2. /\ caller[c] \in Caller /\ caller[c].pc \in {"head", "tail", "read"} /\ caller[c].pc \in Using
      /\ i \in DOMAIN link
  BY <1>1, Zenon DEF ExchangeFails, TInv, CallerType, Using, PoolInv
<1>3. PICK k : k = [caller[c] EXCEPT !.pc = "close", !.buf = <<>>]
  BY Zenon
<1>4. /\ k \in Caller /\ k.pc = "close" /\ k.conn = i /\ k.alone = caller[c].alone
      /\ k.buf = <<>>
  BY <1>1, <1>2, <1>3, EmptyPieces, Zenon DEF Caller, Using
<1>5. caller' = [caller EXCEPT ![c] = k] /\ UNCHANGED link
  BY <1>3, Zenon DEF ExchangeFails
<1>6. MovesTo(c, k)
  <2>1. k.pc \in Using /\ BufFits(k) /\ Answered(k)
    BY <1>4, Zenon DEF Using, BufFits, Answered
  <2> QED BY <1>1, <1>2, <1>4, <1>5, <2>1, Zenon DEF MovesTo
<1>7. Weight(k) = 2 /\ Weight(caller[c]) \in 0 .. 2
  BY <1>4 DEF Weight
<1>8. link[i] \in Link /\ Size(link[i]) \in Nat /\ Dead(link[i])
  BY <1>2, SizeType DEF TInv, LinkType, AnswerInv
<1>9. DOMAIN link' = DOMAIN link /\ link'[i] = link[i]
      /\ \A j \in DOMAIN link \ {i} : link'[j] = link[j]
  BY <1>5, Zenon
<1>10. Balances(c, k)
  BY <1>1, <1>7, <1>8, <1>9 DEF Balances
<1>11. InOrder(k, link[i])
  BY <1>4, Zenon DEF InOrder
<1> QED BY <1>1, <1>6, <1>8, <1>9, <1>10, <1>11, MoveAnswers, ZenonT(30)

\* What closeConn leaves.
LEMMA CloseEffect ==
  ASSUME TInv, closeConn
  PROVE  /\ DOMAIN link' = DOMAIN link
         /\ \A j \in DOMAIN link : link'[j] = IF j = conns THEN Closed ELSE link[j]
<1>1. link \in Seq(Link) /\ NoConn \notin DOMAIN link
  BY NoConnAssumption DEF TInv, LinkType
<1>2. CASE conns = NoConn
  BY <1>1, <1>2, Zenon DEF closeConn
<1>3. CASE conns # NoConn
  <2>1. conns \in DOMAIN link /\ link' = [link EXCEPT ![conns] = Closed]
    BY <1>3, Zenon DEF TInv, PoolInv, closeConn
  <2> QED BY <1>1, <2>1, SetLink, ClosedIsLink, ZenonT(30)
<1> QED BY <1>2, <1>3, Zenon

\* The call of c has failed: its connection is closed, by it or before it.
LEMMA FailReturnsAnswers ==
  ASSUME TInv, TInv', AnswerInv, NEW c \in Callers, FailReturns(c)
  PROVE  AnswerInv'
<1>1. PICK i : i = caller[c].conn
  BY Zenon
<1>2. caller[c] \in Caller /\ caller[c].pc \in Using /\ i \in DOMAIN link
  BY <1>1, Zenon DEF FailReturns, TInv, CallerType, Using, PoolInv
<1>3. PICK k : k = Returned(caller[c].req, Error, caller[c].alone)
  BY Zenon
<1>4. k \in Caller /\ k.pc = "returned" /\ k.got = Error
  <2>1. caller[c].req \in Nat /\ caller[c].alone \in BOOLEAN
    BY <1>2, Zenon DEF Caller
  <2>2. k \in Caller /\ k.pc = "returned"
    BY <1>3, <2>1, ReturnedType, Zenon
  <2> QED BY <1>3, <2>2, Zenon DEF Returned
<1>5. caller' = [caller EXCEPT ![c] = k] /\ closeConn
  BY <1>3, Zenon DEF FailReturns
<1>6. MovesTo(c, k)
  <2>1. BufFits(k) /\ Answered(k)
    BY <1>4, Zenon DEF BufFits, Answered
  <2> QED BY <1>2, <1>4, <1>5, <2>1, Zenon DEF MovesTo
<1>7. /\ DOMAIN link' = DOMAIN link
      /\ \A j \in DOMAIN link : link'[j] = IF j = conns THEN Closed ELSE link[j]
  BY <1>5, CloseEffect, Zenon
<1>8. Size(link'[i]) = 0 /\ Dead(link'[i])
  <2>1. CASE i = conns
    BY <1>2, <1>7, <2>1, ClosedDead, Zenon
  <2>2. CASE i # conns
    <3>1. ~link[i].open
      <4>1. ~\E d \in Callers : Dialed(d) /\ caller[d].conn = i
        BY <1>1, <1>2, Zenon DEF AnswerInv
      <4> QED BY <1>2, <2>2, <4>1, Zenon DEF TInv, PoolInv
    <3>2. link[i] \in Link /\ Dead(link[i])
      BY <1>2 DEF TInv, LinkType, AnswerInv
    <3>3. Size(link[i]) = 0
      BY <3>1, <3>2, SizeType, Zenon DEF Dead
    <3> QED BY <1>2, <1>7, <2>2, <3>2, <3>3, Zenon
  <2> QED BY <2>1, <2>2, Zenon
<1>9. Balances(c, k)
  BY <1>1, <1>8, Zenon DEF Balances
<1>10. k.pc \notin Using
  BY <1>4, Zenon DEF Using
<1>11. \A j \in DOMAIN link \ {caller[c].conn} : link'[j] \in {link[j], Closed}
  BY <1>7, Zenon
<1> QED BY <1>1, <1>6, <1>7, <1>8, <1>9, <1>10, <1>11, MoveAnswers, ZenonT(30)

-----------------------------------------------------------------------------
\* Deadlines and the other end

\* A step that changes connection i to l.
LEMMA PeerAnswers ==
  ASSUME TInv, TInv', AnswerInv, NEW i \in DOMAIN link, NEW l \in Link,
         link' = [link EXCEPT ![i] = l], UNCHANGED caller,
         Dead(l), Size(l) <= Size(link[i]),
         \A d \in Callers : InOrder(caller[d], link[i]) => InOrder(caller[d], l)
  PROVE  AnswerInv'
<1>1. DOMAIN link' = DOMAIN link /\ link'[i] = l /\ \A j \in DOMAIN link \ {i} : link'[j] = link[j]
  <2>1. link \in Seq(Link)
    BY Zenon DEF TInv, LinkType
  <2> QED BY <2>1, SetLink, Zenon
<1>2. \A j \in DOMAIN link : Size(link[j]) <= Size(link[j])
  <2>1. TAKE j \in DOMAIN link
  <2>2. link[j] \in Link
    BY DEF TInv, LinkType
  <2>3. Size(link[j]) \in Nat
    BY <2>2, SizeType, Zenon
  <2> QED BY <2>3
<1>3. ASSUME NEW j \in DOMAIN link
      PROVE  /\ Dead(link'[j]) /\ Size(link'[j]) <= Size(link[j])
             /\ \A d \in Callers : InOrder(caller[d], link[j]) => InOrder(caller[d], link'[j])
  <2>1. CASE j = i
    BY <1>1, <2>1, Zenon
  <2>2. CASE j # i
    <3>1. Dead(link[j]) /\ link'[j] = link[j]
      BY <1>1, <2>2, Zenon DEF AnswerInv
    <3> QED BY <1>2, <3>1, Zenon
  <2> QED BY <2>1, <2>2, Zenon
<1> QED BY <1>1, <1>3, LinkAnswers, Zenon

LEMMA ExpireAnswers ==
  ASSUME TInv, TInv', AnswerInv, NEW i \in DOMAIN link, Expire(i)
  PROVE  AnswerInv'
<1>1. PICK l : l = [link[i] EXCEPT !.timer = "expired"]
  BY Zenon
<1>2. link[i] \in Link /\ Dead(link[i])
  BY DEF TInv, LinkType, AnswerInv
<1>3. /\ l \in Link /\ l.open = link[i].open /\ l.served = link[i].served
      /\ l.toPeer = link[i].toPeer /\ l.toUs = link[i].toUs
  BY <1>1, <1>2, Zenon DEF Link
<1>4. Dead(l) /\ \A d \in Callers : InOrder(caller[d], link[i]) => InOrder(caller[d], l)
  BY <1>2, <1>3, Zenon DEF Dead, InOrder
<1>5. Size(l) = Size(link[i]) /\ Size(link[i]) \in Nat
  BY <1>2, <1>3, SizeType, Zenon DEF Size
<1>6. Size(l) <= Size(link[i])
  BY <1>5
<1>7. link' = [link EXCEPT ![i] = l] /\ UNCHANGED caller
  BY <1>1, Zenon DEF Expire
<1> QED BY <1>3, <1>4, <1>6, <1>7, PeerAnswers, Zenon

LEMMA PeerClosesAnswers ==
  ASSUME TInv, TInv', AnswerInv, NEW i \in DOMAIN link, PeerCloses(i)
  PROVE  AnswerInv'
<1>1. PICK rest \in {link[i].toUs, <<>>} :
        link' = [link EXCEPT ![i] = [link[i] EXCEPT !.served = FALSE, !.toPeer = <<>>, !.toUs = rest]]
  BY Zenon DEF PeerCloses, TInv, LinkType
<1>2. /\ link[i] \in Link /\ Dead(link[i]) /\ link[i].served
      /\ link[i].toUs \in Seq(Pieces) /\ link[i].toPeer \in Seq(Pieces)
  <2>1. link[i] \in Link /\ Dead(link[i]) /\ link[i].served
    BY DEF TInv, LinkType, AnswerInv, PeerCloses
  <2> QED BY <2>1, SizeType, Zenon
<1>3. PICK l : l = [link[i] EXCEPT !.served = FALSE, !.toPeer = <<>>, !.toUs = rest]
  BY Zenon
<1>4. /\ l \in Link /\ l.open = link[i].open /\ ~l.served
      /\ l.toPeer = <<>> /\ l.toUs = rest
  BY <1>1, <1>2, <1>3, EmptyPieces, Zenon DEF Link
<1>5. Dead(l)
  BY <1>2, <1>4, Zenon DEF Dead
<1>6. Size(l) <= Size(link[i])
  <2>1. PICK m \in Nat, u \in Nat : m = Len(link[i].toPeer) /\ u = Len(link[i].toUs)
    BY <1>2
  <2>2. Len(<<>>) = 0
    BY Zenon
  <2>3. Size(link[i]) = m + u /\ (Size(l) = 0 + u \/ Size(l) = 0 + 0)
    BY <1>1, <1>4, <2>1, <2>2, Zenon DEF Size
  <2> QED BY <2>3
<1>7. ASSUME NEW d \in Callers, InOrder(caller[d], link[i]) PROVE InOrder(caller[d], l)
  <2>1. l.toUs = link[i].toUs \/ l.toUs = <<>>
    BY <1>1, <1>4, Zenon
  <2> QED BY <1>2, <1>4, <1>7, <2>1, Zenon DEF InOrder
<1>8. link' = [link EXCEPT ![i] = l] /\ UNCHANGED caller
  BY <1>1, <1>3, Zenon DEF PeerCloses
<1> QED BY <1>4, <1>5, <1>6, <1>7, <1>8, PeerAnswers, Zenon

\* handleConn's answer to the request of a call that is alone is that call's.
LEMMA ServedOrder ==
  ASSUME NEW l \in Link, NEW k, k.req \in Nat, InOrder(k, l), Len(l.toPeer) >= 2,
         NEW m \in Decoded(l.toPeer[1], l.toPeer[2])
  PROVE  InOrder(k, Served(l, m))
<1>1. PICK h, t : h = Head_(k.req) /\ t = Tail_(k.req)
  BY Zenon
<1>2. l.toPeer # <<>> /\ l.toPeer # <<h>>
  <2>1. Len(<<>>) = 0 /\ Len(<<h>>) = 1
    BY Zenon
  <2>2. 0 < 2 /\ 1 < 2 /\ ~(0 >= 2) /\ ~(1 >= 2)
    OBVIOUS
  <2> QED BY <2>1, <2>2, Zenon
<1>3. k.pc # "head" /\ k.pc # "tail"
  BY <1>1, <1>2, Zenon DEF InOrder
<1>4. CASE k.pc = "read"
  <2>1. l.toPeer = <<h, t>> /\ k.buf = <<>> /\ l.toUs = <<>>
    BY <1>1, <1>2, <1>4, Zenon DEF InOrder
  <2>2. l.toPeer[1] = h /\ l.toPeer[2] = t
    BY <2>1
  <2>3. k.req # Error
    BY NoConnAssumption, Zenon
  <2>4. m = k.req
    <3>1. Decoded(h, t) = {k.req}
      BY <1>1, <2>3, OwnPieces, Zenon
    <3> QED BY <2>2, <3>1, Zenon
  <2>5. Served(l, m) = [l EXCEPT !.toPeer = SubSeq(<<h, t>>, 3, Len(<<h, t>>)),
                                 !.toUs = <<>> \o <<h, t>>]
    BY <1>1, <2>1, <2>3, <2>4, Zenon DEF Served
  <2>6. SubSeq(<<h, t>>, 3, Len(<<h, t>>)) = <<>>
    <3>1. Len(<<h, t>>) \in Int /\ Len(<<h, t>>) < 3 /\ 3 \in Int
      OBVIOUS
    <3> QED BY <3>1, SubSeqEmpty, Zenon
  <2>7. <<>> \o <<h, t>> = <<h, t>>
    <3>1. <<h, t>> \in Seq({h, t})
      OBVIOUS
    <3> QED BY <3>1, ConcatEmptySeq, Zenon
  <2>8. Served(l, m).toPeer = <<>> /\ Served(l, m).toUs = <<h, t>>
    BY <2>5, <2>6, <2>7, Zenon DEF Link
  <2>9. Served(l, m).toUs \in {<<>>, <<h, t>>}
    BY <2>8, Zenon
  <2> QED BY <1>1, <1>3, <2>1, <2>8, <2>9, ZenonT(30) DEF InOrder
<1>5. CASE k.pc # "read"
  BY <1>3, <1>5, Zenon DEF InOrder
<1> QED BY <1>4, <1>5, Zenon

LEMMA ConcatLen ==
  ASSUME NEW a \in Seq(Pieces), NEW b \in Seq(Pieces)
  PROVE  Len(a \o b) = Len(a) + Len(b)
  BY ConcatProperties, Zenon

\* An answer is no longer than its request.
LEMMA ServedSize ==
  ASSUME NEW l \in Link, Len(l.toPeer) >= 2, NEW m \in Nat \cup {Error}
  PROVE  Size(Served(l, m)) <= Size(l)
<1>1. l.toPeer \in Seq(Pieces) /\ l.toUs \in Seq(Pieces)
  BY SizeType, Zenon
<1>2. PICK a \in Nat, u \in Nat : a = Len(l.toPeer) /\ u = Len(l.toUs)
  BY <1>1
<1>3. Size(l) = a + u /\ a >= 2
  BY <1>2, Zenon DEF Size
<1>4. CASE m = Error
  <2>1. Served(l, m).toPeer = <<>> /\ Served(l, m).toUs = l.toUs
    BY <1>4, Zenon DEF Served, Link
  <2>2. Len(<<>>) = 0
    BY Zenon
  <2>3. Size(Served(l, m)) = 0 + u
    BY <1>2, <2>1, <2>2, Zenon DEF Size
  <2> QED BY <1>3, <2>3
<1>5. CASE m # Error
  <2>1. PICK p, q : p = SubSeq(l.toPeer, 3, Len(l.toPeer)) /\ q = <<Head_(m), Tail_(m)>>
    BY Zenon
  <2>2. Len(p) = a - 2
    <3>1. \A x \in 3 .. a : l.toPeer[x] \in Pieces
      BY <1>1, <1>2
    <3>2. Len(p) = IF 3 <= a THEN a - 3 + 1 ELSE 0
      BY <1>2, <2>1, <3>1, SubSeqProperties
    <3> QED BY <1>3, <3>2
  <2>3. q \in Seq(Pieces) /\ Len(q) = 2
    <3>1. Head_(m) \in Pieces /\ Tail_(m) \in Pieces
      BY <1>5, Zenon DEF Head_, Tail_, Pieces
    <3> QED BY <2>1, <3>1
  <2>4. Len(l.toUs \o q) = u + 2
    <3>1. Len(l.toUs \o q) = Len(l.toUs) + Len(q)
      BY <1>1, <2>3, ConcatLen, ZenonT(30)
    <3> QED BY <1>2, <2>3, <3>1, Zenon
  <2>5. Served(l, m).toPeer = p /\ Served(l, m).toUs = l.toUs \o q
    BY <1>5, <2>1, Zenon DEF Served, Link
  <2>6. Size(Served(l, m)) = (a - 2) + (u + 2)
    BY <2>2, <2>4, <2>5, Zenon DEF Size
  <2> QED BY <1>3, <2>6
<1> QED BY <1>4, <1>5, Zenon

LEMMA handleConnAnswers ==
  ASSUME TInv, TInv', AnswerInv, NEW i \in DOMAIN link, handleConn(i)
  PROVE  AnswerInv'
<1>1. PICK in : in = link[i].toPeer
  BY Zenon
<1>2. link[i] \in Link /\ in \in Seq(Pieces) /\ link[i].open
  <2>1. link[i] \in Link /\ Dead(link[i]) /\ link[i].served
    BY DEF TInv, LinkType, AnswerInv, handleConn
  <2> QED BY <1>1, <2>1, SizeType, Zenon DEF Dead
<1>3. PICK m \in Decoded(in[1], in[2]) : link' = [link EXCEPT ![i] = Served(link[i], m)]
  BY <1>1, Zenon DEF handleConn
<1>4. Len(in) >= 2 /\ UNCHANGED caller
  BY <1>1, Zenon DEF handleConn
<1>5. m \in Nat \cup {Error}
  <2>1. ~(Len(in) < 2)
    BY <1>2, <1>4
  <2>2. in[1] \in Pieces /\ in[2] \in Pieces
    BY <1>2, <2>1, FirstTwo, Zenon
  <2> QED BY <2>2, DecodedType, Zenon
<1>6. Served(link[i], m) \in Link /\ Dead(Served(link[i], m))
  BY <1>2, <1>5, ServedType, Zenon DEF Dead
<1>7. Size(Served(link[i], m)) <= Size(link[i])
  BY <1>1, <1>2, <1>4, <1>5, ServedSize, Zenon
<1>8. ASSUME NEW d \in Callers, InOrder(caller[d], link[i])
      PROVE  InOrder(caller[d], Served(link[i], m))
  <2>1. caller[d].req \in Nat
    BY Zenon DEF TInv, CallerType, Caller
  <2> QED BY <1>1, <1>2, <1>3, <1>4, <1>8, <2>1, ServedOrder, ZenonT(30)
<1> QED BY <1>3, <1>4, <1>6, <1>7, <1>8, PeerAnswers, ZenonT(30)

LEMMA CloseConnectionAnswers ==
  ASSUME TInv, TInv', AnswerInv, CloseConnection
  PROVE  AnswerInv'
<1>1. /\ DOMAIN link' = DOMAIN link /\ UNCHANGED caller
      /\ \A j \in DOMAIN link : link'[j] = IF j = conns THEN Closed ELSE link[j]
  BY CloseEffect, Zenon DEF CloseConnection
<1>2. ASSUME NEW j \in DOMAIN link
      PROVE  /\ Dead(link'[j]) /\ Size(link'[j]) <= Size(link[j])
             /\ \A d \in Callers : InOrder(caller[d], link[j]) => InOrder(caller[d], link'[j])
  <2>1. link[j] \in Link /\ Dead(link[j])
    BY DEF TInv, LinkType, AnswerInv
  <2>2. Size(link[j]) \in Nat
    BY <2>1, SizeType, Zenon
  <2>3. CASE link'[j] = Closed
    BY <2>2, <2>3, ClosedDead, ClosedOrder
  <2>4. CASE link'[j] = link[j]
    BY <2>1, <2>2, <2>4
  <2> QED BY <1>1, <2>3, <2>4, Zenon
<1> QED BY <1>1, <1>2, LinkAnswers, Zenon

-----------------------------------------------------------------------------
LEMMA AnswerNext ==
  ASSUME TInv, TInv', AnswerInv, [Next]_vars
  PROVE  AnswerInv'
<1>1. CASE CloseConnection
  BY <1>1, CloseConnectionAnswers, Zenon
<1>2. CASE \E c \in Callers : Call(c)
  BY <1>2, CallAnswers, Zenon
<1>3. ASSUME NEW c \in Callers, Step(c) PROVE AnswerInv'
  <2>1. CASE Dial(c)
    BY <2>1, DialAnswers, Zenon
  <2>2. CASE DialFails(c)
    BY <2>2, DialFailsAnswers
  <2>3. CASE Put(c)
    BY <2>3, PutAnswers
  <2>4. CASE Write(c)
    BY <2>4, WriteAnswers
  <2>5. CASE ExchangeFails(c)
    BY <2>5, ExchangeFailsAnswers
  <2>6. CASE FailReturns(c)
    BY <2>6, FailReturnsAnswers
  <2>7. CASE \E n \in 1 .. 2 * MaxCalls :
               caller[c].pc = "read" /\ n <= Len(link[caller[c].conn].toUs) /\ Read(c, n)
    <3>1. PICK n \in Nat \ {0} :
            caller[c].pc = "read" /\ n <= Len(link[caller[c].conn].toUs) /\ Read(c, n)
      BY <2>7, TransportBoundsAssumption
    <3> QED BY <3>1, ReadAnswers, Zenon
  <2> QED BY <1>3, <2>1, <2>2, <2>3, <2>4, <2>5, <2>6, <2>7, ZenonT(30) DEF Step
<1>4. CASE \E i \in DOMAIN link : Expire(i)
  BY <1>4, ExpireAnswers, Zenon
<1>5. CASE \E i \in DOMAIN link : handleConn(i)
  BY <1>5, handleConnAnswers, Zenon
<1>6. CASE \E i \in DOMAIN link : PeerCloses(i)
  BY <1>6, PeerClosesAnswers
<1>7. CASE UNCHANGED vars
  <2>1. UNCHANGED <<link, caller>>
    BY <1>7, Zenon DEF vars
  <2>2. \A j \in DOMAIN link : Size(link[j]) <= Size(link[j]) /\ Dead(link[j])
    <3>1. \A j \in DOMAIN link : Size(link[j]) \in Nat /\ Dead(link[j])
      BY SizeType DEF TInv, LinkType, AnswerInv
    <3> QED BY <3>1
  <2> QED BY <2>1, <2>2, LinkAnswers, Zenon
<1> QED BY <1>1, <1>2, <1>3, <1>4, <1>5, <1>6, <1>7, ZenonT(30) DEF Next

\* An answer belongs to its request, whatever the number of goroutines and
\* connections: a call that shared its connection with no other in flight gets
\* the peer's answer to its own request or an error, because every call that
\* fails closes the connection its late answer would arrive on.
THEOREM AnswersCorrect == Spec => []OwnAnswer
<1>1. Init => TInv /\ AnswerInv
  BY TInvInit, AnswerInit, Zenon
<1>2. TInv /\ AnswerInv /\ [Next]_vars => (TInv /\ AnswerInv)'
  <2> SUFFICES ASSUME TInv, AnswerInv, [Next]_vars PROVE TInv' /\ AnswerInv'
    BY Zenon
  <2>1. TInv'
    BY TInvNext, Zenon
  <2> QED BY <2>1, AnswerNext, Zenon
<1>3. TInv /\ AnswerInv => OwnAnswer
  BY Zenon DEF AnswerInv, Answered, OwnAnswer
<1> QED BY <1>1, <1>2, <1>3, PTL DEF Spec
=============================================================================
