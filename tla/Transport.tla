----------------------------- MODULE Transport -----------------------------
(***************************************************************************)
(* The client side of the RPC transport (src/internal/transport/rpc.go)    *)
(* towards one address, and the goroutine that serves each connection at   *)
(* the other end.  Addresses share nothing but the mutex of the pool.      *)
(*                                                                         *)
(* One pooled connection carries the calls of all goroutines, without a    *)
(* mutex: the encoder writes a message in several writes and the decoder   *)
(* reads whatever has arrived, so concurrent calls can mix up both         *)
(* directions.  A message is two pieces here.  A decoder that gets pieces  *)
(* of different messages fails, or takes them for a message nobody sent.   *)
(***************************************************************************)
EXTENDS Naturals, Sequences

CONSTANTS
  Callers,   \* goroutines that may be inside call at the same time
  NoConn,    \* no connection in the pool, or none taken yet
  Error,     \* the outcome of a call or of a decoder that failed
  MaxCalls,  \* bound on the number of calls
  MaxConns   \* bound on the number of connections

ASSUME TransportBoundsAssumption == {MaxCalls, MaxConns} \subseteq Nat
ASSUME NoConnAssumption == NoConn \notin Nat /\ Error \notin Nat

VARIABLES
  conns,   \* t.conns[addr]: the number of the pooled connection, or NoConn
  link,    \* link[i]: the connection with number i
  caller,  \* caller[c]: where goroutine c is inside call
  calls    \* how many calls there have been; a request is known by its number

vars == <<conns, link, caller, calls>>

\* A message nobody sent.
Junk == 0

Head_(m) == [msg |-> m, part |-> "head"]
Tail_(m) == [msg |-> m, part |-> "tail"]

\* open: our end is.  served: handleConn runs at the other end.
Fresh == [open |-> TRUE, served |-> TRUE, timer |-> "unset", toPeer |-> <<>>, toUs |-> <<>>]

\* Once our end is closed, what is under way on the connection reaches nobody
\* here (the peer may still process a request that has arrived).
Closed == [Fresh EXCEPT !.open = FALSE, !.served = FALSE]

\* A call that is over: what it asked and what it got.  alone is a history of
\* the call: no other was in flight on its connection at the same time.
Returned(r, m, alone) ==
  [pc |-> "returned", req |-> r, conn |-> NoConn, buf |-> <<>>, got |-> m, alone |-> alone]

Init ==
  /\ conns = NoConn
  /\ link = <<>>
  /\ caller = [c \in Callers |-> Returned(Junk, Junk, TRUE)]
  /\ calls = 0

-----------------------------------------------------------------------------
\* The pool

\* Mutant: the connection is forgotten but not closed.
closeConn_OnlyDeletes ==
  /\ conns' = NoConn
  /\ UNCHANGED link

\* closeConn takes whatever connection is in the pool now.
closeConn ==
  /\ conns' = NoConn
  /\ link' = IF conns = NoConn THEN link ELSE [link EXCEPT ![conns] = Closed]

\* The calls in flight on connection i.
Users(i) == {d \in Callers : caller[d].pc \in {"head", "tail", "read", "close"} /\ caller[d].conn = i}

\* Mutant: no deadline is set.
Use_NoDeadline(c, r, i, ln) ==
  /\ caller' = [d \in Callers |->
       IF d = c THEN [Returned(r, Error, Users(i) = {}) EXCEPT !.pc = "head", !.conn = i]
       ELSE [caller[d] EXCEPT !.alone = @ /\ d \notin Users(i)]]
  /\ link' = ln

\* getConn has returned connection i; SetDeadline sets the deadline of every
\* call on it.
Use(c, r, i, ln) ==
  /\ caller' = [d \in Callers |->
       IF d = c THEN [Returned(r, Error, Users(i) = {}) EXCEPT !.pc = "head", !.conn = i]
       ELSE [caller[d] EXCEPT !.alone = @ /\ d \notin Users(i)]]
  /\ link' = [ln EXCEPT ![i].timer = "set"]

\* call looks in the pool, under the read lock.
Call(c) ==
  /\ caller[c].pc = "returned"
  /\ calls < MaxCalls
  /\ calls' = calls + 1
  /\ IF conns # NoConn
     THEN Use(c, calls + 1, conns, link)
     ELSE /\ caller' = [caller EXCEPT ![c] = [Returned(calls + 1, Error, TRUE) EXCEPT !.pc = "dial"]]
          /\ UNCHANGED link
  /\ UNCHANGED conns

\* DialTimeout, with no lock held.
Dial(c) ==
  /\ caller[c].pc = "dial"
  /\ Len(link) < MaxConns
  /\ link' = Append(link, Fresh)
  /\ caller' = [caller EXCEPT ![c].pc = "put", ![c].conn = Len(link) + 1]
  /\ UNCHANGED <<conns, calls>>

DialFails(c) ==
  /\ caller[c].pc = "dial"
  /\ caller' = [caller EXCEPT ![c] = Returned(@.req, Error, @.alone)]
  /\ UNCHANGED <<conns, link, calls>>

\* Mutant: the connection dialed in vain is not closed.
Put_KeepsBoth(c) ==
  /\ caller[c].pc = "put"
  /\ conns' = IF conns = NoConn THEN caller[c].conn ELSE conns
  /\ Use(c, caller[c].req, conns', link)
  /\ UNCHANGED calls

\* Another goroutine may have put its connection in the pool meanwhile.
Put(c) ==
  LET own == caller[c].conn IN
  /\ caller[c].pc = "put"
  /\ IF conns = NoConn
     THEN conns' = own /\ Use(c, caller[c].req, own, link)
     ELSE /\ UNCHANGED conns
          /\ Use(c, caller[c].req, conns, [link EXCEPT ![own] = Closed])
  /\ UNCHANGED calls

-----------------------------------------------------------------------------
\* The exchange

\* What a decoder makes of two pieces.
Decoded(p, q) ==
  IF p.msg = q.msg /\ p.part = "head" /\ q.part = "tail" THEN {p.msg} ELSE {Junk, Error}

Usable(i) == link[i].open /\ link[i].timer # "expired"

\* Encode: two writes, with room for those of another call in between.
Write(c) ==
  LET i == caller[c].conn
      piece == [msg |-> caller[c].req, part |-> caller[c].pc]
  IN  /\ caller[c].pc \in {"head", "tail"}
      /\ Usable(i)
      /\ link' = IF link[i].served THEN [link EXCEPT ![i].toPeer = Append(@, piece)] ELSE link
      /\ caller' = [caller EXCEPT ![c].pc = IF @ = "head" THEN "tail" ELSE "read"]
      /\ UNCHANGED <<conns, calls>>

\* Decode: the n pieces that have arrived go to this call's decoder.  What it
\* holds beyond its own message is lost with it.
Read(c, n) ==
  LET i == caller[c].conn
      buf == caller[c].buf \o SubSeq(link[i].toUs, 1, n)
  IN  /\ caller[c].pc = "read"
      /\ Usable(i)
      /\ link' = [link EXCEPT ![i].toUs = SubSeq(@, n + 1, Len(@))]
      /\ IF Len(buf) < 2
         THEN caller' = [caller EXCEPT ![c].buf = buf]
         ELSE \E m \in Decoded(buf[1], buf[2]) :
                caller' = [caller EXCEPT ![c] =
                             IF m = Error THEN [@ EXCEPT !.pc = "close", !.buf = <<>>]
                             ELSE Returned(@.req, m, @.alone)]
      /\ UNCHANGED <<conns, calls>>

\* The deadline has passed, another goroutine has closed the connection, or
\* the other end has (a write may be the first to notice that, or not).
ExchangeFails(c) ==
  LET i == caller[c].conn IN
  /\ caller[c].pc \in {"head", "tail", "read"}
  /\ \/ ~Usable(i)
     \/ ~link[i].served /\ (caller[c].pc = "read" => link[i].toUs = <<>>)
  /\ caller' = [caller EXCEPT ![c].pc = "close", ![c].buf = <<>>]
  /\ UNCHANGED <<conns, link, calls>>

\* Mutant: a failed call leaves the connection in the pool.
FailReturns_KeepsConn(c) ==
  /\ caller[c].pc = "close"
  /\ caller' = [caller EXCEPT ![c] = Returned(@.req, Error, @.alone)]
  /\ UNCHANGED <<conns, link, calls>>

FailReturns(c) ==
  /\ caller[c].pc = "close"
  /\ closeConn
  /\ caller' = [caller EXCEPT ![c] = Returned(@.req, Error, @.alone)]
  /\ UNCHANGED calls

\* The deadline of connection i passes while calls wait on it.
Expire(i) ==
  /\ link[i].open /\ link[i].timer = "set" /\ Users(i) # {}
  /\ link' = [link EXCEPT ![i].timer = "expired"]
  /\ UNCHANGED <<conns, caller, calls>>

\* A node has left, or the transport stops.
CloseConnection ==
  /\ conns # NoConn
  /\ closeConn
  /\ UNCHANGED <<caller, calls>>

-----------------------------------------------------------------------------
\* The other end

\* handleConn has decoded request m: it processes it and encodes the response;
\* it gives up on a request it cannot decode.
Served(l, m) ==
  IF m = Error THEN [l EXCEPT !.served = FALSE, !.toPeer = <<>>]
  ELSE [l EXCEPT !.toPeer = SubSeq(@, 3, Len(@)), !.toUs = @ \o <<Head_(m), Tail_(m)>>]

handleConn(i) ==
  LET in == link[i].toPeer IN
  /\ link[i].served /\ Len(in) >= 2
  /\ \E m \in Decoded(in[1], in[2]) : link' = [link EXCEPT ![i] = Served(@, m)]
  /\ UNCHANGED <<conns, caller, calls>>

\* The peer closes the connection; what it has sent arrives, or is lost.
PeerCloses(i) ==
  /\ link[i].served
  /\ \E rest \in {link[i].toUs, <<>>} :
       link' = [link EXCEPT ![i].served = FALSE, ![i].toPeer = <<>>, ![i].toUs = rest]
  /\ UNCHANGED <<conns, caller, calls>>

-----------------------------------------------------------------------------
Step(c) ==
  \/ Dial(c) \/ DialFails(c) \/ Put(c) \/ Write(c) \/ ExchangeFails(c) \/ FailReturns(c)
  \/ \E n \in 1 .. 2 * MaxCalls :
       caller[c].pc = "read" /\ n <= Len(link[caller[c].conn].toUs) /\ Read(c, n)

Next ==
  \/ CloseConnection
  \/ \E c \in Callers : Call(c) \/ Step(c)
  \/ \E i \in DOMAIN link : Expire(i) \/ handleConn(i) \/ PeerCloses(i)

Spec == Init /\ [][Next]_vars

\* Goroutines are scheduled and deadlines pass; nothing is assumed of the peer.
Fairness ==
  /\ \A c \in Callers : WF_vars(Step(c))
  /\ \A i \in 1 .. MaxConns : WF_vars(i \in DOMAIN link /\ Expire(i))

FairSpec == Spec /\ Fairness

-----------------------------------------------------------------------------
\* Properties

\* An answer belongs to its request.  Responses carry no number: a call takes
\* the next response on its connection, so a late answer to a call that timed
\* out would be taken for the next call's if the connection lived on.  Only a
\* call that shared its connection with another one in flight may be given an
\* answer that is not its own.
OwnAnswer ==
  \A c \in Callers :
    LET k == caller[c] IN
    k.pc = "returned" /\ k.got \notin {k.req, Error} => ~k.alone

\* No connection is leaked and no closed one handed out: our ends that are
\* open are the pooled one and those that getConn is about to put or to close.
PoolExact ==
  {i \in DOMAIN link : link[i].open}
    = ({conns} \ {NoConn}) \cup {caller[c].conn : c \in {d \in Callers : caller[d].pc = "put"}}

\* Every call returns, even if the peer never answers ("5-second timeout").
CallReturns == \A c \in Callers : caller[c].pc # "returned" ~> caller[c].pc = "returned"
=============================================================================
