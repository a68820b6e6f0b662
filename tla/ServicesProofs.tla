--------------------------- MODULE ServicesProofs ---------------------------
(***************************************************************************)
(* Proofs about the two services that a cache keeps beside its store and   *)
(* that share nothing with it: the broker of events and the rate limiters. *)
(*                                                                         *)
(* The broker: what its lock and the flag of a subscription are good for,  *)
(* for any subscriptions, publishers, keys, patterns and buffer size.      *)
(*                                                                         *)
(* The limiters: the bounds on what gets through, and that Remaining is    *)
(* kept, for any options, limit and window.  The token bucket's invariant  *)
(* is a potential: what is left plus what was let through since any        *)
(* request came out of one burst and the refill since then.  The sliding   *)
(* window's says which requests its two counts leave out, and that the     *)
(* estimate only falls while time passes.                                  *)
(***************************************************************************)
EXTENDS Broker, RateLimits, TLAPS

USE SMTT(30), ZenonT(30)

-----------------------------------------------------------------------------
\* The broker

PubStates ==
  {Idle}
    \cup [pc : {"visit"}, key : Keys, todo : SUBSET Subs]
    \cup [pc : {"send"}, key : Keys, todo : SUBSET Subs, to : Subs]

LockerStates ==
  {Idle}
    \cup [pc : {"visit"}, todo : SUBSET Subs]
    \cup [pc : {"close", "closeCh"}, todo : SUBSET Subs, at : Subs]

\* The owner of s has called Close.
Touched(s) == owner[s] \in {"close", "closeCh", "returned"}

BrokerType ==
  /\ subscriptions \subseteq Subs
  /\ closed \in [Subs -> BOOLEAN]
  /\ chClosed \in [Subs -> BOOLEAN]
  /\ pub \in [Publishers -> PubStates]
  /\ owner \in [Subs -> {"unborn", "idle", "close", "closeCh", "returned"}]
  /\ locker \in LockerStates

\* The write lock keeps publishers out.
Exclusion == locker # Idle => NoReaders

\* The flag, done and the channel of a subscription are closed in this order.
\* In between, someone is on the way from one to the other.
FlagInv ==
  /\ done = closed
  /\ locker.pc = "closeCh" => closed[locker.at]
  /\ \A s \in Subs :
       /\ chClosed[s] \/ owner[s] = "closeCh" => closed[s]
       /\ closed[s] /\ ~chClosed[s] =>
            owner[s] = "closeCh" \/ (locker.pc = "closeCh" /\ locker.at = s)

\* Unless its owner closes it, a subscription has not been closed since it was
\* tested by whoever is at it.
TestedInv ==
  /\ \A p \in Publishers :
       pub[p].pc = "send" => Touched(pub[p].to) \/ ~closed[pub[p].to]
  /\ locker.pc = "close" => Touched(locker.at) \/ ~closed[locker.at]
  /\ locker.pc = "closeCh" => Touched(locker.at) \/ ~chClosed[locker.at]

BrokerInv ==
  /\ BrokerType
  /\ Exclusion
  /\ FlagInv
  /\ TestedInv
  /\ OnlyClosersPanic
  /\ ForgottenIsClosed

-----------------------------------------------------------------------------
LEMMA SetFlag ==
  ASSUME NEW f \in [Subs -> BOOLEAN], NEW s \in Subs, NEW g, g = [f EXCEPT ![s] = TRUE]
  PROVE  g \in [Subs -> BOOLEAN] /\ g[s] /\ \A t \in Subs \ {s} : g[t] = f[t]
BY Zenon

LEMMA LockerFacts ==
  ASSUME NEW l \in LockerStates
  PROVE  /\ l = Idle <=> l.pc = "idle"
         /\ l.pc # "idle" => l.todo \in SUBSET Subs
         /\ l.pc \in {"close", "closeCh"} =>
              l.at \in Subs /\ l = [pc |-> l.pc, todo |-> l.todo, at |-> l.at]
BY DEF LockerStates, Idle

LEMMA PubFacts ==
  ASSUME NEW q \in PubStates
  PROVE  /\ q = Idle <=> q.pc = "idle"
         /\ q.pc # "idle" => q.key \in Keys /\ q.todo \in SUBSET Subs
         /\ q.pc = "send" => q.to \in Subs
BY DEF PubStates, Idle

LEMMA BrokerInvInit == Init => BrokerInv
BY DEF Init, BrokerInv, BrokerType, Exclusion, FlagInv, TestedInv, OnlyClosersPanic,
       ForgottenIsClosed, NoReaders, PubStates, LockerStates, Idle

\* A publisher's step changes nothing but where it is, and it leaves for a
\* send only to a subscription that it has found open.
LEMMA PublisherKeeps ==
  ASSUME BrokerInv, NEW p \in Publishers, NEW q \in PubStates,
         locker = Idle,
         pub' = [pub EXCEPT ![p] = q],
         q.pc = "send" => ~closed[q.to],
         UNCHANGED <<subscriptions, closed, done, chClosed, owner, locker>>,
         \A s \in panicked' : Touched(s)
  PROVE  BrokerInv'
<1>1. BrokerType' BY Zenon DEF BrokerInv, BrokerType
<1>2. Exclusion' BY Zenon DEF Exclusion
<1>3. FlagInv' BY Zenon DEF BrokerInv, FlagInv
<1>4. TestedInv'
  <2>1. \A r \in Publishers : pub'[r] = IF r = p THEN q ELSE pub[r]
    BY Zenon DEF BrokerInv, BrokerType
  <2> QED BY <2>1 DEF BrokerInv, TestedInv, Touched
<1>5. OnlyClosersPanic' BY Zenon DEF OnlyClosersPanic, Touched
<1>6. ForgottenIsClosed' BY Zenon DEF BrokerInv, ForgottenIsClosed
<1> QED BY <1>1, <1>2, <1>3, <1>4, <1>5, <1>6, Zenon DEF BrokerInv

LEMMA PublishKeeps ==
  ASSUME BrokerInv, panicked = {}, NEW p \in Publishers, NEW k \in Keys, Publish(p, k)
  PROVE  BrokerInv'
<1> DEFINE q == [pc |-> "visit", key |-> k, todo |-> subscriptions]
<1>1. q \in PubStates /\ q.pc = "visit" BY Zenon DEF BrokerInv, BrokerType, PubStates
<1>2. locker = Idle /\ pub' = [pub EXCEPT ![p] = q] BY Zenon DEF Publish
<1>3. UNCHANGED <<subscriptions, closed, done, chClosed, owner, locker>>
  BY Zenon DEF Publish, subVars
<1>4. (q.pc = "send" => ~closed[q.to]) /\ \A s \in panicked' : Touched(s)
  BY <1>1, Zenon DEF Publish
<1> HIDE DEF q
<1> QED BY <1>1, <1>2, <1>3, <1>4, PublisherKeeps, Zenon

LEMMA PublishStepKeeps ==
  ASSUME BrokerInv, panicked = {}, NEW p \in Publishers, PublishStep(p)
  PROVE  BrokerInv'
<1>1. pub[p] \in PubStates BY Zenon DEF BrokerInv, BrokerType
<1>2. ASSUME pub[p].pc # "idle" PROVE locker = Idle
  BY <1>1, <1>2, PubFacts, Zenon DEF BrokerInv, Exclusion, NoReaders
<1>3. CASE Send(p)
  <2> DEFINE q == [pc |-> "visit", key |-> pub[p].key, todo |-> pub[p].todo]
  <2>1. q \in PubStates /\ q.pc = "visit" BY <1>1, <1>3, PubFacts, Zenon DEF Send, PubStates
  <2>2. pub[p].to \in Subs BY <1>1, <1>3, PubFacts, Zenon DEF Send
  <2>3. chClosed[pub[p].to] => Touched(pub[p].to)
    BY <1>3, <2>2, Zenon DEF Send, BrokerInv, TestedInv, FlagInv
  <2>4. \A s \in panicked' : Touched(s) BY <1>3, <2>3, Zenon DEF Send, PanicIf
  <2>5. pub' = [pub EXCEPT ![p] = q] BY <1>3, Zenon DEF Send
  <2>6. locker = Idle /\ UNCHANGED <<subscriptions, closed, done, chClosed, owner, locker>>
    BY <1>2, <1>3, Zenon DEF Send
  <2>7. q.pc = "send" => ~closed[q.to] BY <2>1, Zenon
  <2> HIDE DEF q
  <2> QED BY <2>1, <2>4, <2>5, <2>6, <2>7, PublisherKeeps, Zenon
<1>4. CASE PublishReturn(p)
  <2>1. Idle \in PubStates /\ Idle.pc = "idle" BY Zenon DEF PubStates, Idle
  <2>2. locker = Idle /\ pub' = [pub EXCEPT ![p] = Idle] BY <1>2, <1>4, Zenon DEF PublishReturn
  <2>3. UNCHANGED <<subscriptions, closed, done, chClosed, owner, locker>>
    BY <1>4, Zenon DEF PublishReturn, subVars
  <2>4. (Idle.pc = "send" => ~closed[Idle.to]) /\ \A s \in panicked' : Touched(s)
    BY <1>4, <2>1, Zenon DEF PublishReturn
  <2> QED BY <2>1, <2>2, <2>3, <2>4, PublisherKeeps, Zenon
<1>5. ASSUME NEW s \in Subs, Visit(p, s) PROVE BrokerInv'
  <2> DEFINE rest == pub[p].todo \ {s}
             q == IF ~closed[s] /\ pub[p].key \in Matches[s]
                  THEN [pc |-> "send", key |-> pub[p].key, todo |-> rest, to |-> s]
                  ELSE [pc |-> "visit", key |-> pub[p].key, todo |-> rest]
  <2>1. pub[p].key \in Keys /\ rest \in SUBSET Subs BY <1>1, <1>5, PubFacts, Zenon DEF Visit
  <2>2. q \in PubStates BY <2>1, Zenon DEF PubStates
  <2>3. q.pc = "send" => ~closed[q.to] BY Zenon
  <2>4. locker = Idle BY <1>2, <1>5, Zenon DEF Visit
  <2>5. pub' = [pub EXCEPT ![p] = q] BY <1>5, Zenon DEF Visit
  <2>6. UNCHANGED <<subscriptions, closed, done, chClosed, owner, locker>>
    BY <1>5, Zenon DEF Visit, subVars
  <2>7. \A t \in panicked' : Touched(t) BY <1>5, Zenon DEF Visit
  <2> HIDE DEF q
  <2> QED BY <2>2, <2>3, <2>4, <2>5, <2>6, <2>7, PublisherKeeps, Zenon
<1> QED BY <1>3, <1>4, <1>5, Zenon DEF PublishStep

\* Steps that close nothing and leave the publishers alone.
LEMMA SubscribeKeeps ==
  ASSUME BrokerInv, panicked = {}, NEW s \in Subs, Subscribe(s)
  PROVE  BrokerInv'
<1>1. owner' = [owner EXCEPT ![s] = "idle"] /\ owner[s] = "unborn" BY Zenon DEF Subscribe
<1>2. \A t \in Subs : owner'[t] = IF t = s THEN "idle" ELSE owner[t]
  BY <1>1, Zenon DEF BrokerInv, BrokerType
<1>3. /\ subscriptions' = subscriptions \cup {s}
      /\ UNCHANGED <<closed, done, chClosed, pub, locker, panicked>>
  BY Zenon DEF Subscribe, subVars
<1>4. \A t \in Subs : Touched(t)' <=> Touched(t) BY <1>1, <1>2 DEF Touched
<1>5. BrokerType' BY <1>1, <1>3, Zenon DEF BrokerInv, BrokerType
<1>6. Exclusion' BY <1>3, Zenon DEF BrokerInv, Exclusion, NoReaders
<1>7. FlagInv' BY <1>1, <1>2, <1>3 DEF BrokerInv, FlagInv
<1>8. TestedInv'
  <2>1. \A p \in Publishers : pub[p].pc = "send" => pub[p].to \in Subs
    BY PubFacts, Zenon DEF BrokerInv, BrokerType
  <2>2. locker.pc \in {"close", "closeCh"} => locker.at \in Subs
    BY LockerFacts, Zenon DEF BrokerInv, BrokerType
  <2> QED BY <1>3, <1>4, <2>1, <2>2, Zenon DEF BrokerInv, TestedInv
<1>9. OnlyClosersPanic' BY <1>3, Zenon DEF OnlyClosersPanic
<1>10. ForgottenIsClosed' BY <1>2, <1>3, Zenon DEF BrokerInv, ForgottenIsClosed
<1> QED BY <1>5, <1>6, <1>7, <1>8, <1>9, <1>10, Zenon DEF BrokerInv

LEMMA ReceiveKeeps ==
  ASSUME BrokerInv, NEW s \in Subs, Receive(s)
  PROVE  BrokerInv'
BY Zenon DEF Receive, BrokerInv, BrokerType, Exclusion, NoReaders, FlagInv, TestedInv, Touched,
       OnlyClosersPanic, ForgottenIsClosed

\* An owner's step moves the owner and may close the flag or the channel of its
\* own subscription, which is Touched from then on.
OwnerMoves(s, o) ==
  /\ owner[s] # "unborn"
  /\ owner' = [owner EXCEPT ![s] = o]
  /\ closed' \in [Subs -> BOOLEAN] /\ chClosed' \in [Subs -> BOOLEAN] /\ done' = closed'
  /\ \A t \in Subs \ {s} : closed'[t] = closed[t] /\ chClosed'[t] = chClosed[t]
  /\ closed[s] => closed'[s]
  /\ chClosed[s] \/ owner[s] = "closeCh" => chClosed'[s]
  /\ chClosed'[s] \/ o = "closeCh" => closed'[s]
  /\ closed'[s] /\ ~chClosed'[s] =>
       o = "closeCh" \/ (locker.pc = "closeCh" /\ locker.at = s)
  /\ UNCHANGED <<subscriptions, pub, locker>>
  /\ \A t \in panicked' : t = s

LEMMA OwnerKeeps ==
  ASSUME BrokerInv, NEW s \in Subs, NEW o \in {"close", "closeCh", "returned"}, OwnerMoves(s, o)
  PROVE  BrokerInv'
<1> USE DEF OwnerMoves
<1>1. \A t \in Subs : owner'[t] = IF t = s THEN o ELSE owner[t]
  BY Zenon DEF BrokerInv, BrokerType
<1>2. Touched(s)' /\ \A t \in Subs : Touched(t) => Touched(t)' BY <1>1 DEF Touched
<1>3. \A p \in Publishers : pub[p].pc = "send" => pub[p].to \in Subs
  BY PubFacts, Zenon DEF BrokerInv, BrokerType
<1>4. locker.pc \in {"close", "closeCh"} => locker.at \in Subs
  BY LockerFacts, Zenon DEF BrokerInv, BrokerType
<1>5. BrokerType'
  <2>1. owner' \in [Subs -> {"unborn", "idle", "close", "closeCh", "returned"}]
    BY Zenon DEF BrokerInv, BrokerType
  <2> QED BY <2>1, Zenon DEF BrokerInv, BrokerType
<1>6. Exclusion' BY Zenon DEF BrokerInv, Exclusion, NoReaders
<1>7. FlagInv' BY <1>1, <1>4 DEF BrokerInv, FlagInv
<1>8. TestedInv'
  <2>1. ASSUME NEW p \in Publishers, pub[p].pc = "send"
        PROVE  Touched(pub[p].to)' \/ ~closed'[pub[p].to]
    BY <1>2, <1>3, <2>1, Zenon DEF BrokerInv, TestedInv
  <2>2. locker.pc = "close" => Touched(locker.at)' \/ ~closed'[locker.at]
    BY <1>2, <1>4, Zenon DEF BrokerInv, TestedInv
  <2>3. locker.pc = "closeCh" => Touched(locker.at)' \/ ~chClosed'[locker.at]
    BY <1>2, <1>4, Zenon DEF BrokerInv, TestedInv
  <2> QED BY <2>1, <2>2, <2>3, Zenon DEF TestedInv, Touched
<1>9. OnlyClosersPanic' BY <1>1, Zenon DEF OnlyClosersPanic
<1>10. ForgottenIsClosed' BY <1>1 DEF BrokerInv, ForgottenIsClosed
<1> QED BY <1>5, <1>6, <1>7, <1>8, <1>9, <1>10, Zenon DEF BrokerInv

LEMMA OwnerStepsKeep ==
  ASSUME BrokerInv, panicked = {}, NEW s \in Subs,
         OwnerCloseTest(s) \/ OwnerCloseFlag(s) \/ OwnerCloseChannel(s)
  PROVE  BrokerInv'
<1>1. /\ closed \in [Subs -> BOOLEAN] /\ chClosed \in [Subs -> BOOLEAN] /\ done = closed
      /\ chClosed[s] \/ owner[s] = "closeCh" => closed[s]
      /\ closed[s] /\ ~chClosed[s] =>
           owner[s] = "closeCh" \/ (locker.pc = "closeCh" /\ locker.at = s)
  BY Zenon DEF BrokerInv, BrokerType, FlagInv
<1>2. CASE OwnerCloseTest(s)
  <2> DEFINE o == IF closed[s] THEN "returned" ELSE "close"
  <2>1. owner[s] = "idle" /\ owner' = [owner EXCEPT ![s] = o] BY <1>2, Zenon DEF OwnerCloseTest
  <2>2. UNCHANGED <<closed, done, chClosed, subscriptions, pub, locker, panicked>>
    BY <1>2, Zenon DEF OwnerCloseTest, subVars
  <2>3. o \in {"close", "closeCh", "returned"} /\ o # "closeCh" BY Zenon
  <2> HIDE DEF o
  <2>4. OwnerMoves(s, o) BY <1>1, <2>1, <2>2, <2>3, Zenon DEF OwnerMoves
  <2> QED BY <2>3, <2>4, OwnerKeeps, Zenon
<1>3. CASE OwnerCloseFlag(s)
  <2>1. /\ owner[s] = "close" /\ owner' = [owner EXCEPT ![s] = "closeCh"]
        /\ closed' = [closed EXCEPT ![s] = TRUE] /\ done' = [done EXCEPT ![s] = TRUE]
        /\ UNCHANGED <<chClosed, subscriptions, pub, locker>>
        /\ \A t \in panicked' : t = s
    BY <1>3, Zenon DEF OwnerCloseFlag, CloseFlag, PanicIf
  <2>2. /\ closed' \in [Subs -> BOOLEAN] /\ done' = closed' /\ closed'[s]
        /\ \A t \in Subs \ {s} : closed'[t] = closed[t]
    BY <1>1, <2>1, Zenon
  <2>3. OwnerMoves(s, "closeCh") BY <1>1, <2>1, <2>2, Zenon DEF OwnerMoves
  <2> QED BY <2>3, OwnerKeeps, Zenon
<1>4. CASE OwnerCloseChannel(s)
  <2>1. /\ owner[s] = "closeCh" /\ owner' = [owner EXCEPT ![s] = "returned"]
        /\ chClosed' = [chClosed EXCEPT ![s] = TRUE]
        /\ UNCHANGED <<closed, done, subscriptions, pub, locker>>
        /\ \A t \in panicked' : t = s
    BY <1>4, Zenon DEF OwnerCloseChannel, CloseChannel, PanicIf
  <2>2. /\ chClosed' \in [Subs -> BOOLEAN] /\ chClosed'[s]
        /\ \A t \in Subs \ {s} : chClosed'[t] = chClosed[t]
    BY <1>1, <2>1, Zenon
  <2>3. OwnerMoves(s, "returned") BY <1>1, <2>1, <2>2, Zenon DEF OwnerMoves
  <2> QED BY <2>3, OwnerKeeps, Zenon
<1> QED BY <1>2, <1>3, <1>4, Zenon

\* The step that takes the lock, and the one that gives it back.
LEMMA LockKeeps ==
  ASSUME BrokerInv, panicked = {}, NEW l \in LockerStates, l.pc \in {"idle", "visit"},
         locker.pc \in {"idle", "visit"}, NoReaders,
         locker' = l, UNCHANGED <<subscriptions, subVars, pub, owner, panicked>>
  PROVE  BrokerInv'
BY Zenon DEF subVars, BrokerInv, BrokerType, Exclusion, NoReaders, FlagInv, TestedInv, Touched,
       OnlyClosersPanic, ForgottenIsClosed

LEMMA LockAllKeeps ==
  ASSUME BrokerInv, panicked = {}, NEW todo \in SUBSET Subs, LockAll(todo)
  PROVE  BrokerInv'
<1> DEFINE l == [pc |-> "visit", todo |-> todo]
<1>1. l \in LockerStates /\ l.pc \in {"idle", "visit"} BY Zenon DEF LockerStates
<1>2. /\ locker.pc \in {"idle", "visit"} /\ NoReaders /\ locker' = l
      /\ UNCHANGED <<subscriptions, subVars, pub, owner, panicked>>
  BY Zenon DEF LockAll, Idle
<1> HIDE DEF l
<1> QED BY <1>1, <1>2, LockKeeps, Zenon

\* A subscription that is taken out of the map has been closed, or its owner
\* is about to close it.
LEMMA LockerStepKeeps ==
  ASSUME BrokerInv, panicked = {}, LockerStep
  PROVE  BrokerInv'
<1>1. locker \in LockerStates /\ locker # Idle /\ NoReaders
  BY LockerFacts, Zenon
     DEF BrokerInv, BrokerType, Exclusion, LockerStep, LockerCloseTest, LockerCloseFlag,
         LockerCloseChannel, LockerReturn
<1>2. CASE LockerReturn
  <2>1. Idle \in LockerStates /\ Idle.pc = "idle" BY Zenon DEF LockerStates, Idle
  <2>2. locker.pc = "visit" /\ locker' = Idle
        /\ UNCHANGED <<subscriptions, subVars, pub, owner, panicked>>
    BY <1>2, Zenon DEF LockerReturn
  <2> QED BY <1>1, <2>1, <2>2, LockKeeps, Zenon
<1>3. ASSUME NEW s \in Subs, LockerCloseTest(s) PROVE BrokerInv'
  <2>1. /\ locker.pc = "visit" /\ locker.todo \in SUBSET Subs
        /\ UNCHANGED <<closed, done, chClosed, pub, owner, panicked>>
    BY <1>1, <1>3, LockerFacts, Zenon DEF LockerCloseTest, subVars
  <2>2. CASE closed[s]
    <3>1. /\ subscriptions' = subscriptions \ {s}
          /\ locker' = [pc |-> "visit", todo |-> locker.todo \ {s}]
      BY <1>3, <2>2, Zenon DEF LockerCloseTest
    <3>2. locker' \in LockerStates /\ locker'.pc = "visit" BY <2>1, <3>1, Zenon DEF LockerStates
    <3>3. chClosed[s] \/ owner[s] = "closeCh" BY <2>1, <2>2, Zenon DEF BrokerInv, FlagInv
    <3>4. BrokerType' BY <2>1, <3>1, <3>2, Zenon DEF BrokerInv, BrokerType
    <3>5. Exclusion' BY <1>1, <2>1, Zenon DEF Exclusion, NoReaders
    <3>6. FlagInv' BY <2>1, <3>2, Zenon DEF BrokerInv, FlagInv
    <3>7. TestedInv' BY <2>1, <3>2, Zenon DEF BrokerInv, TestedInv, Touched
    <3>8. OnlyClosersPanic' BY <2>1, Zenon DEF OnlyClosersPanic
    <3>9. ForgottenIsClosed' BY <2>1, <3>1, <3>3, Zenon DEF BrokerInv, ForgottenIsClosed
    <3> QED BY <3>4, <3>5, <3>6, <3>7, <3>8, <3>9, Zenon DEF BrokerInv
  <2>3. CASE ~closed[s]
    <3>1. /\ subscriptions' = subscriptions
          /\ locker' = [pc |-> "close", todo |-> locker.todo \ {s}, at |-> s]
      BY <1>3, <2>3, Zenon DEF LockerCloseTest
    <3>2. locker' \in LockerStates /\ locker'.pc = "close" /\ locker'.at = s
      BY <2>1, <3>1, Zenon DEF LockerStates
    <3>4. BrokerType' BY <2>1, <3>1, <3>2, Zenon DEF BrokerInv, BrokerType
    <3>5. Exclusion' BY <1>1, <2>1 DEF Exclusion, NoReaders
    <3>6. FlagInv' BY <2>1, <3>2, Zenon DEF BrokerInv, FlagInv
    <3>7. TestedInv' BY <2>1, <2>3, <3>2, Zenon DEF BrokerInv, TestedInv, Touched
    <3>8. OnlyClosersPanic' BY <2>1 DEF OnlyClosersPanic
    <3>9. ForgottenIsClosed' BY <2>1, <3>1, Zenon DEF BrokerInv, ForgottenIsClosed
    <3> QED BY <3>4, <3>5, <3>6, <3>7, <3>8, <3>9 DEF BrokerInv
  <2> QED BY <2>2, <2>3, Zenon
<1>4. CASE LockerCloseFlag
  <2>1. PICK s \in Subs : locker.pc = "close" /\ s = locker.at /\ locker.todo \in SUBSET Subs
    BY <1>1, <1>4, LockerFacts, Zenon DEF LockerCloseFlag
  <2>2. locker' = [pc |-> "closeCh", todo |-> locker.todo, at |-> s]
    <3>1. locker = [pc |-> "close", todo |-> locker.todo, at |-> s]
      BY <1>1, <2>1, LockerFacts, Zenon
    <3>2. locker' = [locker EXCEPT !.pc = "closeCh"] BY <1>4, Zenon DEF LockerCloseFlag
    <3> QED BY <3>1, <3>2
  <2>3. locker' \in LockerStates /\ locker'.pc = "closeCh" /\ locker'.at = s
    BY <2>1, <2>2, Zenon DEF LockerStates
  <2>4. /\ closed' = [closed EXCEPT ![s] = TRUE] /\ done' = [done EXCEPT ![s] = TRUE]
        /\ UNCHANGED <<chClosed, subscriptions, pub, owner>>
        /\ \A t \in panicked' : t = s /\ done[s]
    BY <1>4, <2>1, Zenon DEF LockerCloseFlag, CloseFlag, PanicIf
  <2>5. Touched(s) \/ ~closed[s] BY <2>1, Zenon DEF BrokerInv, TestedInv
  <2>6. /\ closed' \in [Subs -> BOOLEAN] /\ done' = closed' /\ closed'[s]
        /\ \A t \in Subs \ {s} : closed'[t] = closed[t]
    <3>1. closed \in [Subs -> BOOLEAN] /\ done = closed BY Zenon DEF BrokerInv, BrokerType, FlagInv
    <3> QED BY <2>4, <3>1, SetFlag, ZenonT(30)
  <2>7. BrokerType' BY <2>3, <2>4, <2>6, Zenon DEF BrokerInv, BrokerType
  <2>8. Exclusion' BY <1>1, <2>4, Zenon DEF Exclusion, NoReaders
  <2>9. FlagInv' BY <2>1, <2>3, <2>4, <2>6, Zenon DEF BrokerInv, FlagInv
  <2>10. TestedInv'
    <3>1. \A p \in Publishers : pub'[p].pc = "idle" BY <1>1, <2>4 DEF NoReaders, Idle
    <3>2. Touched(s)' \/ ~chClosed'[s]
      BY <2>1, <2>4, <2>5, Zenon DEF BrokerInv, FlagInv, Touched
    <3> QED BY <2>3, <3>1, <3>2, Zenon DEF TestedInv, Touched
  <2>11. OnlyClosersPanic' BY <2>4, <2>5, Zenon DEF BrokerInv, FlagInv, OnlyClosersPanic, Touched
  <2>12. ForgottenIsClosed' BY <2>4, Zenon DEF BrokerInv, ForgottenIsClosed
  <2> QED BY <2>7, <2>8, <2>9, <2>10, <2>11, <2>12 DEF BrokerInv
<1>5. CASE LockerCloseChannel
  <2>1. PICK s \in Subs : locker.pc = "closeCh" /\ s = locker.at /\ locker.todo \in SUBSET Subs
    BY <1>1, <1>5, LockerFacts, Zenon DEF LockerCloseChannel
  <2>2. /\ locker' = [pc |-> "visit", todo |-> locker.todo]
        /\ subscriptions' = subscriptions \ {s}
        /\ chClosed' = [chClosed EXCEPT ![s] = TRUE]
        /\ UNCHANGED <<closed, done, pub, owner>>
        /\ \A t \in panicked' : t = s /\ chClosed[s]
    BY <1>5, <2>1, Zenon DEF LockerCloseChannel, CloseChannel, PanicIf
  <2>3. (Touched(s) \/ ~chClosed[s]) /\ closed[s] BY <2>1, Zenon DEF BrokerInv, TestedInv, FlagInv
  <2>5. locker' \in LockerStates /\ locker'.pc = "visit" BY <2>1, <2>2, Zenon DEF LockerStates
  <2>6. /\ chClosed' \in [Subs -> BOOLEAN] /\ chClosed'[s]
        /\ \A t \in Subs \ {s} : chClosed'[t] = chClosed[t]
    <3>1. chClosed \in [Subs -> BOOLEAN] BY Zenon DEF BrokerInv, BrokerType
    <3> QED BY <2>2, <3>1, SetFlag, Zenon
  <2>7. BrokerType' BY <2>2, <2>5, <2>6, Zenon DEF BrokerInv, BrokerType
  <2>8. Exclusion' BY <1>1, <2>2, Zenon DEF Exclusion, NoReaders
  <2>9. FlagInv' BY <2>1, <2>2, <2>3, <2>5, <2>6 DEF BrokerInv, FlagInv
  <2>10. TestedInv'
    <3>1. \A p \in Publishers : pub'[p].pc = "idle" BY <1>1, <2>2 DEF NoReaders, Idle
    <3> QED BY <2>5, <3>1, Zenon DEF TestedInv
  <2>11. OnlyClosersPanic' BY <2>2, <2>3, Zenon DEF OnlyClosersPanic, Touched
  <2>12. ForgottenIsClosed' BY <2>2, <2>6, Zenon DEF BrokerInv, ForgottenIsClosed
  <2> QED BY <2>7, <2>8, <2>9, <2>10, <2>11, <2>12 DEF BrokerInv
<1> QED BY <1>2, <1>3, <1>4, <1>5, Zenon DEF LockerStep

-----------------------------------------------------------------------------
LEMMA BrokerInvNext == ASSUME BrokerInv, [Next]_vars PROVE BrokerInv'
<1>1. CASE UNCHANGED vars
  BY <1>1, Zenon DEF vars, subVars, BrokerInv, BrokerType, Exclusion, NoReaders, FlagInv, TestedInv,
              Touched, OnlyClosersPanic, ForgottenIsClosed
<1>2. CASE Next
  <2>1. panicked = {} BY <1>2, Zenon DEF Next
  <2>2. ASSUME NEW p \in Publishers, PublishStep(p) \/ \E k \in Keys : Publish(p, k)
        PROVE  BrokerInv'
    BY <2>1, <2>2, PublishStepKeeps, PublishKeeps, Zenon
  <2>3. CASE LockerStep BY <2>1, <2>3, LockerStepKeeps, Zenon
  <2>4. CASE Shutdown
    <3>1. subscriptions \in SUBSET Subs BY Zenon DEF BrokerInv, BrokerType
    <3> QED BY <2>1, <2>4, <3>1, LockAllKeeps, Zenon DEF Shutdown
  <2>5. ASSUME NEW s \in Subs, Unsubscribe(s) PROVE BrokerInv'
    <3>1. {s} \in SUBSET Subs BY Zenon
    <3> QED BY <2>1, <2>5, <3>1, LockAllKeeps, Zenon DEF Unsubscribe
  <2>6. ASSUME NEW s \in Subs, Subscribe(s) \/ Receive(s) PROVE BrokerInv'
    BY <2>1, <2>6, SubscribeKeeps, ReceiveKeeps, Zenon
  <2>7. ASSUME NEW s \in Subs,
               OwnerCloseTest(s) \/ OwnerCloseFlag(s) \/ OwnerCloseChannel(s)
        PROVE  BrokerInv'
    BY <2>1, <2>7, OwnerStepsKeep, Zenon
  <2> QED BY <1>2, <2>2, <2>3, <2>4, <2>5, <2>6, <2>7, Zenon DEF Next
<1> QED BY <1>1, <1>2, Zenon

LEMMA BrokerInvariant == Spec => []BrokerInv
<1>1. BrokerInv /\ [Next]_vars => BrokerInv' BY BrokerInvNext, Zenon
<1> QED BY <1>1, BrokerInvInit, PTL DEF Spec

\* Publish, Unsubscribe and Shutdown panic only at a subscription whose owner
\* calls Close, which takes no lock (broker.go, subscription.go).
THEOREM PanicsCorrect == Spec => []OnlyClosersPanic
<1>1. BrokerInv => OnlyClosersPanic BY Zenon DEF BrokerInv
<1> QED BY <1>1, BrokerInvariant, PTL

\* The channel of a subscription that is no longer in the broker's map is
\* closed, or its owner is about to close it (Unsubscribe, Shutdown).
THEOREM StreamsEnd == Spec => []ForgottenIsClosed
<1>1. BrokerInv => ForgottenIsClosed BY Zenon DEF BrokerInv
<1> QED BY <1>1, BrokerInvariant, PTL

-----------------------------------------------------------------------------
\* The rate limiters

\* Facts about products and quotients that the limiters' arithmetic needs.
LEMMA MulMono ==
  ASSUME NEW a \in Nat, NEW b \in Nat, NEW c \in Nat, a <= b
  PROVE  a * c <= b * c /\ a * c \in Nat
OBVIOUS

\* A common positive factor cancels.
LEMMA MulCancel ==
  ASSUME NEW a \in Int, NEW b \in Int, NEW c \in Nat \ {0}, a * c <= b * c
  PROVE  a <= b
OBVIOUS

\* The same for a strict inequality.
LEMMA MulCancelLess ==
  ASSUME NEW a \in Int, NEW b \in Int, NEW c \in Nat \ {0}, a * c < b * c
  PROVE  a < b
OBVIOUS

\* What integer division computes.
LEMMA DivFacts ==
  ASSUME NEW x \in Nat, NEW w \in Nat \ {0}
  PROVE  /\ x \div w \in Nat
         /\ (x \div w) * w <= x
         /\ x < (x \div w + 1) * w
OBVIOUS

\* A division without remainder is undone by the product.
LEMMA DivExact ==
  ASSUME NEW x \in Nat, NEW w \in Nat \ {0}, x % w = 0
  PROVE  (x \div w) * w = x
OBVIOUS

\* Time e at rate r and time d at rate q refill no more than all the time at
\* the faster of the two.
LEMMA FasterRate ==
  ASSUME NEW x \in Nat, NEW y \in Nat, NEW r \in Nat, NEW q \in Nat, NEW d \in Nat, NEW e \in Nat,
         x <= y + r * e
  PROVE  x + d * q <= y + r * (d + e) \/ x + d * q <= y + q * (d + e)
<1>1. r * (d + e) = d * r + r * e /\ q * (d + e) = d * q + q * e
  OBVIOUS
<1>2. CASE q <= r
  <2>1. d * q <= d * r
    BY <1>2
  <2> QED  BY <1>1, <2>1
<1>3. CASE r <= q
  <2>1. r * e <= q * e
    BY <1>3
  <2> QED  BY <1>1, <2>1
<1> QED  BY <1>2, <1>3

\* A bound in units of 1 / s of a token, with a rate r per tick of l tokens per
\* window w, as a bound in tokens.
LEMMA Unscale ==
  ASSUME NEW k \in Nat, NEW b \in Nat, NEW l \in Nat, NEW w \in Nat \ {0}, NEW d \in Nat,
         NEW s \in Nat \ {0}, NEW r \in Nat, r * w = l * s, k * s <= b * s + r * d
  PROVE  k * w <= b * w + l * d
<1>1. (k * s) * w <= (b * s + r * d) * w
  OBVIOUS
<1>2. (k * s) * w = (k * w) * s
  OBVIOUS
<1>3. (b * s + r * d) * w = (b * w) * s + (r * w) * d
  OBVIOUS
<1>4. (r * w) * d = (l * d) * s
  OBVIOUS
<1>5. (b * w) * s + (l * d) * s = (b * w + l * d) * s
  OBVIOUS
<1>6. (k * w) * s <= (b * w + l * d) * s
  BY <1>1, <1>2, <1>3, <1>4, <1>5, Zenon
<1>7. k * w \in Int /\ b * w + l * d \in Int
  OBVIOUS
<1> QED  BY <1>6, <1>7, MulCancel, Zenon

\* What the bucket refills in a tick, in units.
Rate(o) == o.limit * (Scale \div o.window)

\* The rate of a call is exact: every window divides Scale.
LEMMA RateFacts ==
  ASSUME NEW o \in Options
  PROVE  /\ o.limit \in Nat /\ o.window \in Nat \ {0}
         /\ Scale \in Nat \ {0} /\ Scale \div o.window \in Nat
         /\ Rate(o) \in Nat /\ Rate(o) * o.window = o.limit * Scale
         /\ o.limit * Scale \in Nat
<1>1. o.limit \in Nat /\ o.window \in Nat \ {0}
  BY OptionsAssumption, Zenon
<1>2. Scale \in Nat \ {0} /\ Scale % o.window = 0
  BY ScaleAssumption, Zenon
<1>3. PICK q \in Nat : q = Scale \div o.window /\ q * o.window = Scale
  BY <1>1, <1>2, DivExact, DivFacts, Zenon
<1>4. Rate(o) = o.limit * q
  BY <1>3, Zenon DEF Rate
<1>5. (o.limit * q) * o.window = o.limit * (q * o.window)
  BY <1>1, <1>3
<1> QED  BY <1>1, <1>2, <1>3, <1>4, <1>5

\* What a key of the token bucket's map holds.
Buckets == [tokens : Nat, lastFill : Nat]

\* What is left in bucket b and what was let through since the i-th request of
\* the history g come out of one burst and the refill since then.
Covered(b, g, i) ==
  \E burst, rate \in Options :
    b.tokens + (Len(g) - i + 1) * Scale
      <= burst.limit * Scale + Rate(rate) * (b.lastFill - g[i])

\* The bound on the rate, for the i-th and the j-th request of the history g.
Paced(g, i, j) ==
  \E burst, rate \in Options :
    (j - i + 1) * rate.window <= burst.limit * rate.window + rate.limit * (g[j] - g[i])

\* The clock and the times of the requests let through.
History == now \in Nat /\ grants \in Seq(Nat)

\* The token bucket: the history is covered, and was paced when it was made.
BucketInv ==
  /\ History
  /\ bucket = NoState => grants = <<>>
  /\ bucket # NoState =>
       /\ bucket \in Buckets /\ bucket.lastFill <= now
       /\ \A i \in 1 .. Len(grants) :
            grants[i] <= bucket.lastFill /\ Covered(bucket, grants, i)
  /\ \A i, j \in 1 .. Len(grants) : i <= j => Paced(grants, i, j)

\* What the caller was told is in the bucket.
HonestInv ==
  /\ state.remaining \in Nat
  /\ state.remaining > 0 =>
       /\ bucket # NoState /\ state.for \in Options
       /\ state.remaining * Scale <= bucket.tokens
       /\ bucket.tokens <= state.for.limit * Scale

\* The effect of Allow on the bucket, once it is there.
LEMMA AllowEffect ==
  ASSUME BucketInv, NEW o \in Options, Bucket!Allow(o)
  PROVE  \E b \in Buckets, t \in Nat, left \in Nat :
           /\ b.lastFill <= now
           /\ bucket # NoState => b = bucket
           /\ \A i \in 1 .. Len(grants) : grants[i] <= b.lastFill /\ Covered(b, grants, i)
           /\ t <= b.tokens + (now - b.lastFill) * Rate(o) /\ t <= o.limit * Scale
           /\ t >= b.tokens \/ t = o.limit * Scale
           /\ left = IF t >= Scale THEN t - Scale ELSE t
           /\ bucket' = [tokens |-> left, lastFill |-> now]
           /\ state' = [allowed |-> t >= Scale,
                        remaining |-> IF t >= Scale THEN left \div Scale ELSE 0, for |-> o]
           /\ grants' = IF t >= Scale THEN Append(grants, now) ELSE grants
           /\ now' = now
<1>1. PICK b : b = IF bucket = NoState
                   THEN [tokens |-> o.limit * Scale, lastFill |-> now] ELSE bucket
  BY Zenon
<1>2. /\ b \in Buckets /\ b.lastFill <= now /\ now \in Nat
      /\ \A i \in 1 .. Len(grants) : grants[i] <= b.lastFill /\ Covered(b, grants, i)
  <2>1. now \in Nat /\ o.limit * Scale \in Nat
    BY RateFacts, Zenon DEF BucketInv, History
  <2>2. CASE bucket = NoState
    <3>1. Len(grants) = 0
      BY <2>2 DEF BucketInv
    <3>2. b \in Buckets /\ b.lastFill = now
      BY <1>1, <2>1, <2>2, Zenon DEF Buckets
    <3> QED  BY <2>1, <3>1, <3>2
  <2>3. CASE bucket # NoState
    BY <1>1, <2>1, <2>3, Zenon DEF BucketInv
  <2> QED  BY <2>2, <2>3, Zenon
<1>3. PICK t : t = Bucket!Refilled(b, o)
  BY Zenon
<1>4. /\ t \in Nat /\ t <= b.tokens + (now - b.lastFill) * Rate(o) /\ t <= o.limit * Scale
      /\ t >= b.tokens \/ t = o.limit * Scale
  <2>1. PICK d \in Nat : d = now - b.lastFill
    BY <1>2 DEF Buckets
  <2>2. PICK l \in Nat, q \in Nat : l = o.limit /\ q = Scale \div o.window
    BY RateFacts, Zenon
  <2>3. d * l * q = d * Rate(o) /\ d * l * q \in Nat
    <3>1. Rate(o) = l * q
      BY <2>2, Zenon DEF Rate
    <3>2. (d * l) * q = d * (l * q) /\ (d * l) * q \in Nat
      OBVIOUS
    <3> QED  BY <3>1, <3>2, Zenon
  <2>4. t = Bucket!Lesser(b.tokens + d * l * q, o.limit * Scale)
    BY <1>3, <2>1, <2>2, Zenon DEF Bucket!Refilled
  <2>5. b.tokens \in Nat /\ o.limit * Scale \in Nat
    BY <1>2, RateFacts, Zenon DEF Buckets
  <2>6. PICK y \in Nat, m \in Nat : y = d * l * q /\ m = o.limit * Scale
    BY <2>3, <2>5, Zenon
  <2>7. t = IF b.tokens + y < m THEN b.tokens + y ELSE m
    BY <2>4, <2>6, Zenon DEF Bucket!Lesser
  <2>8. (now - b.lastFill) * Rate(o) = y
    BY <2>1, <2>3, <2>6, Zenon
  <2> QED  BY <2>5, <2>6, <2>7, <2>8
<1>5. PICK left : left = IF t >= Scale THEN t - Scale ELSE t
  BY Zenon
<1>6. left \in Nat
  BY <1>4, <1>5, ScaleAssumption
<1>7. /\ bucket' = [tokens |-> left, lastFill |-> now]
      /\ state' = [allowed |-> t >= Scale,
                   remaining |-> IF t >= Scale THEN left \div Scale ELSE 0, for |-> o]
      /\ grants' = IF t >= Scale THEN Append(grants, now) ELSE grants
      /\ now' = now
  BY <1>1, <1>3, <1>5, Zenon DEF Bucket!Allow
<1>8. bucket # NoState => b = bucket
  BY <1>1, Zenon
<1> QED  BY <1>2, <1>4, <1>5, <1>6, <1>7, <1>8, Zenon

\* A call of TokenBucket.Allow keeps the bounds.
LEMMA BucketAllow ==
  ASSUME BucketInv, NEW o \in Options, Bucket!Allow(o)
  PROVE  BucketInv'
<1>1. PICK b \in Buckets, t \in Nat, left \in Nat :
           /\ b.lastFill <= now
           /\ bucket # NoState => b = bucket
           /\ \A i \in 1 .. Len(grants) : grants[i] <= b.lastFill /\ Covered(b, grants, i)
           /\ t <= b.tokens + (now - b.lastFill) * Rate(o) /\ t <= o.limit * Scale
           /\ t >= b.tokens \/ t = o.limit * Scale
           /\ left = IF t >= Scale THEN t - Scale ELSE t
           /\ bucket' = [tokens |-> left, lastFill |-> now]
           /\ state' = [allowed |-> t >= Scale,
                        remaining |-> IF t >= Scale THEN left \div Scale ELSE 0, for |-> o]
           /\ grants' = IF t >= Scale THEN Append(grants, now) ELSE grants
           /\ now' = now
  BY AllowEffect, Zenon
<1>2. PICK n \in Nat : n = Len(grants)
  BY DEF BucketInv, History
<1>3. now \in Nat /\ grants \in Seq(Nat) /\ \A i \in 1 .. n : grants[i] \in Nat
  BY <1>2 DEF BucketInv, History
<1>4. bucket' \in Buckets /\ bucket'.tokens = left /\ bucket'.lastFill = now
  BY <1>1, <1>3, Zenon DEF Buckets
<1>5. bucket' # NoState
  BY <1>4, NoStateAssumption, Zenon DEF Buckets
<1>6. \A i \in 1 .. n : \E burst, rate \in Options :
        t + (n - i + 1) * Scale <= burst.limit * Scale + Rate(rate) * (now - grants[i])
  <2>1. TAKE i \in 1 .. n
  <2>2. grants[i] <= b.lastFill /\ Covered(b, grants, i) /\ grants[i] \in Nat
    BY <1>1, <1>2, <1>3, Zenon
  <2>3. PICK burst \in Options, rate \in Options :
          b.tokens + (n - i + 1) * Scale <= burst.limit * Scale + Rate(rate) * (b.lastFill - grants[i])
    BY <1>2, <2>2, Zenon DEF Covered
  <2>4. PICK d \in Nat, e \in Nat : d = now - b.lastFill /\ e = b.lastFill - grants[i]
    BY <1>1, <1>3, <2>2 DEF Buckets
  <2>5. now - grants[i] = d + e
    BY <1>1, <1>3, <2>2, <2>4 DEF Buckets
  <2>6. PICK m \in Nat : m = (n - i + 1) * Scale
    <3>1. n - i + 1 \in Nat /\ Scale \in Nat
      BY ScaleAssumption
    <3> QED  BY <3>1, MulMono
  <2>7. PICK y \in Nat, r \in Nat, q \in Nat : y = burst.limit * Scale /\ r = Rate(rate) /\ q = Rate(o)
    BY RateFacts, Zenon
  <2>8. b.tokens \in Nat /\ b.tokens + m \in Nat
    BY DEF Buckets
  <2>9. b.tokens + m <= y + r * e
    BY <2>3, <2>4, <2>6, <2>7, Zenon
  <2>10. b.tokens + m + d * q <= y + r * (d + e) \/ b.tokens + m + d * q <= y + q * (d + e)
    BY <2>8, <2>9, FasterRate, ZenonT(30)
  <2>11. t <= b.tokens + d * q /\ d * q \in Nat
    BY <1>1, <2>4, <2>7
  <2>12. t + m <= b.tokens + m + d * q
    BY <2>8, <2>11
  <2>13. r * (d + e) \in Nat /\ q * (d + e) \in Nat
    OBVIOUS
  <2>14. t + m <= y + r * (d + e) \/ t + m <= y + q * (d + e)
    BY <2>8, <2>10, <2>11, <2>12, <2>13
  <2>15. \/ t + (n - i + 1) * Scale <= burst.limit * Scale + Rate(rate) * (now - grants[i])
         \/ t + (n - i + 1) * Scale <= burst.limit * Scale + Rate(o) * (now - grants[i])
    BY <2>5, <2>6, <2>7, <2>14, Zenon
  <2> QED  BY <2>15, Zenon
<1>7. t <= o.limit * Scale + Rate(o) * 0
  <2>1. Rate(o) * 0 = 0 /\ o.limit * Scale \in Nat
    BY RateFacts
  <2> QED  BY <1>1, <2>1
<1>8. CASE t < Scale
  <2>1. grants' = grants /\ left = t
    BY <1>1, <1>8, ScaleAssumption
  <2>2. \A i \in 1 .. n : grants[i] <= now /\ Covered(bucket, grants, i)'
    <3>1. \A i \in 1 .. n : grants[i] <= now
      BY <1>1, <1>2, <1>3 DEF Buckets
    <3>2. \A i \in 1 .. n : Covered(bucket, grants, i)'
      BY <1>2, <1>4, <1>6, <2>1, Zenon DEF Covered
    <3> QED  BY <3>1, <3>2, Zenon
  <2>3. \A i, j \in 1 .. n : i <= j => Paced(grants, i, j)'
    BY <1>2, <2>1 DEF BucketInv, Paced
  <2> QED  BY <1>1, <1>2, <1>3, <1>4, <1>5, <2>1, <2>2, <2>3 DEF BucketInv, History
<1>9. CASE t >= Scale
  <2>1. /\ grants' = Append(grants, now) /\ left = t - Scale
        /\ grants' \in Seq(Nat) /\ Len(grants') = n + 1
        /\ \A i \in 1 .. n : grants'[i] = grants[i]
        /\ grants'[n + 1] = now
    BY <1>1, <1>2, <1>3, <1>9
  <2>2. Scale \in Nat \ {0}
    BY ScaleAssumption, Zenon
  <2>3. \A i \in 1 .. n + 1 : grants'[i] <= now
    BY <1>1, <1>2, <1>3, <2>1 DEF Buckets
  <2>4. \A i \in 1 .. n + 1 : \E burst, rate \in Options :
          left + (n + 1 - i + 1) * Scale <= burst.limit * Scale + Rate(rate) * (now - grants'[i])
    <3>1. TAKE i \in 1 .. n + 1
    <3>2. CASE i \in 1 .. n
      <4>1. left + (n + 1 - i + 1) * Scale = t + (n - i + 1) * Scale
        <5>1. (n - i + 1 + 1) * Scale = (n - i + 1) * Scale + Scale /\ (n - i + 1) * Scale \in Int
          BY <2>2
        <5> QED  BY <2>1, <2>2, <5>1
      <4> QED  BY <1>6, <2>1, <3>2, <4>1, Zenon
    <3>3. CASE i = n + 1
      <4>1. now - grants'[i] = 0 /\ left + (n + 1 - i + 1) * Scale = t
        BY <1>3, <2>1, <2>2, <3>3
      <4> QED  BY <1>7, <4>1, Zenon
    <3> QED  BY <3>2, <3>3
  <2>5. \A i \in 1 .. n + 1 : Covered(bucket, grants, i)'
    BY <1>4, <2>1, <2>4 DEF Covered
  <2>6. \A i, j \in 1 .. n + 1 : i <= j => Paced(grants, i, j)'
    <3>1. SUFFICES ASSUME NEW i \in 1 .. n + 1, NEW j \in 1 .. n + 1, i <= j
                   PROVE  Paced(grants, i, j)'
      BY Zenon
    <3>2. CASE j \in 1 .. n
      <4>1. Paced(grants, i, j)
        BY <1>2, <3>1, <3>2 DEF BucketInv
      <4> QED  BY <2>1, <3>1, <3>2, <4>1 DEF Paced
    <3>3. CASE j = n + 1
      <4>1. PICK burst \in Options, rate \in Options :
              left + (n + 1 - i + 1) * Scale <= burst.limit * Scale + Rate(rate) * (now - grants'[i])
        BY <2>4, Zenon
      <4>2. PICK k \in Nat, d \in Nat : k = j - i + 1 /\ d = now - grants'[i]
        <5>1. grants'[i] \in Nat /\ grants'[i] <= now
          BY <1>3, <2>1, <2>3
        <5>2. j - i + 1 \in Nat
          BY <3>1
        <5>3. now - grants'[i] \in Nat
          BY <1>3, <5>1
        <5> QED  BY <5>2, <5>3, Zenon
      <4>3. PICK B \in Nat, l \in Nat, w \in Nat \ {0}, r \in Nat :
              B = burst.limit /\ l = rate.limit /\ w = rate.window /\ r = Rate(rate)
        BY RateFacts, Zenon
      <4>4. r * w = l * Scale
        BY <4>3, RateFacts, Zenon
      <4>5. k * Scale <= B * Scale + r * d
        <5>1. left + k * Scale <= B * Scale + r * d
          BY <3>3, <4>1, <4>2, <4>3
        <5>2. k * Scale \in Nat /\ B * Scale \in Nat /\ r * d \in Nat
          BY <2>2
        <5> QED  BY <5>1, <5>2
      <4>6. k * w <= B * w + l * d
        BY <2>2, <4>4, <4>5, Unscale, Zenon
      <4>7. (j - i + 1) * rate.window
              <= burst.limit * rate.window + rate.limit * (grants'[j] - grants'[i])
        BY <2>1, <3>3, <4>2, <4>3, <4>6, Zenon
      <4> QED  BY <4>7, Zenon DEF Paced
    <3> QED  BY <3>2, <3>3
  <2> QED  BY <1>1, <1>3, <1>4, <1>5, <2>1, <2>3, <2>5, <2>6 DEF BucketInv, History
<1> QED  BY <1>8, <1>9, ScaleAssumption

\* A call of TokenBucket.Allow tells the truth, and keeps the last promise.
LEMMA HonestAllow ==
  ASSUME BucketInv, NEW o \in Options, Bucket!Allow(o)
  PROVE  /\ HonestInv'
         /\ HonestInv /\ state.for = o /\ state.remaining > 0
              => state'.allowed /\ state'.remaining >= state.remaining - 1
<1>1. PICK b \in Buckets, t \in Nat, left \in Nat :
           /\ bucket # NoState => b = bucket
           /\ t <= o.limit * Scale
           /\ t >= b.tokens \/ t = o.limit * Scale
           /\ left = IF t >= Scale THEN t - Scale ELSE t
           /\ bucket' = [tokens |-> left, lastFill |-> now]
           /\ state' = [allowed |-> t >= Scale,
                        remaining |-> IF t >= Scale THEN left \div Scale ELSE 0, for |-> o]
  BY AllowEffect, ZenonT(30)
<1>2. now \in Nat /\ Scale \in Nat \ {0} /\ o.limit * Scale \in Nat
  BY RateFacts, Zenon DEF BucketInv, History
<1>3. PICK q \in Nat : q = left \div Scale /\ q * Scale <= left /\ left < q * Scale + Scale
  BY <1>2, DivFacts
<1>4. bucket' \in Buckets /\ bucket'.tokens = left
  BY <1>1, <1>2, Zenon DEF Buckets
<1>5. bucket' # NoState
  BY <1>4, NoStateAssumption, Zenon DEF Buckets
<1>6. /\ state'.for = o /\ state'.allowed = (t >= Scale)
      /\ state'.remaining = IF t >= Scale THEN q ELSE 0
  BY <1>1, <1>3, Zenon
<1>7. HonestInv'
  <2>1. left <= o.limit * Scale
    BY <1>1, <1>2
  <2>2. state'.remaining \in Nat
    BY <1>6
  <2>3. state'.remaining > 0 => state'.remaining * Scale <= left
    BY <1>3, <1>6
  <2>4. state'.remaining > 0 =>
          /\ bucket' # NoState /\ state'.for \in Options
          /\ state'.remaining * Scale <= bucket'.tokens
          /\ bucket'.tokens <= state'.for.limit * Scale
    BY <1>4, <1>5, <1>6, <2>1, <2>3, Zenon
  <2> QED  BY <2>2, <2>4, Zenon DEF HonestInv
<1>8. ASSUME HonestInv, state.for = o, state.remaining > 0
      PROVE  state'.allowed /\ state'.remaining >= state.remaining - 1
  <2>1. PICK m \in Nat \ {0} : m = state.remaining
    BY <1>8 DEF HonestInv
  <2>2. bucket # NoState /\ m * Scale <= bucket.tokens /\ bucket.tokens <= o.limit * Scale
    BY <1>8, <2>1, Zenon DEF HonestInv
  <2>3. b = bucket /\ b.tokens \in Nat
    BY <1>1, <2>2, Zenon DEF Buckets
  <2>4. t >= m * Scale
    BY <1>1, <1>2, <2>2, <2>3
  <2>5. m * Scale = (m - 1) * Scale + Scale /\ (m - 1) * Scale \in Nat
    BY <1>2
  <2>6. t >= Scale /\ left >= (m - 1) * Scale
    BY <1>1, <1>2, <2>4, <2>5
  <2>7. (m - 1) * Scale < (q + 1) * Scale
    BY <1>2, <1>3, <2>5, <2>6
  <2>8. m - 1 < q + 1
    BY <1>2, <2>7, MulCancelLess
  <2>9. state'.allowed
    BY <1>6, <2>6, Zenon
  <2>10. state'.remaining = q
    BY <1>6, <2>6, Zenon
  <2> QED  BY <2>1, <2>8, <2>9, <2>10
<1> QED  BY <1>7, <1>8, Zenon

-----------------------------------------------------------------------------

\* What a key of the sliding window's map holds.
Windows == [prevCount : Nat, currCount : Nat, currStart : Nat]

\* The counts of window w cover the history g: what they leave out is too old.
Accounts(w, g) ==
  /\ w.prevCount <= Limit /\ w.currCount <= Limit
  /\ w.prevCount + w.currCount <= Len(g)
  /\ \A i \in 1 .. Len(g) :
       /\ g[i] < w.currStart + WindowLen
       /\ i <= Len(g) - w.currCount => g[i] < w.currStart
       /\ i <= Len(g) - w.currCount - w.prevCount => g[i] < w.currStart - WindowLen

\* The estimate of window w when it is e old, in units of 1 / WindowLen.
EstimateAt(w, e) ==
  IF e >= 2 * WindowLen THEN 0
  ELSE IF e >= WindowLen THEN w.currCount * (2 * WindowLen - e)
  ELSE w.prevCount * (WindowLen - e) + w.currCount * WindowLen

\* The bound on bursts, for the i-th and the j-th request of the history g.
Spread(g, i, j) ==
  i <= j /\ g[j] - g[i] < WindowLen => (j - i) * WindowLen < Limit * (WindowLen + g[j] - g[i])

\* The sliding window: the counts cover the history, no burst was too long,
\* and the estimate leaves room for what the caller was promised.
WindowInv ==
  /\ History
  /\ \A i \in 1 .. Len(grants) : grants[i] <= now
  /\ window = NoState => grants = <<>>
  /\ window # NoState =>
       window \in Windows /\ window.currStart <= now /\ Accounts(window, grants)
  /\ \A i, j \in 1 .. Len(grants) : Spread(grants, i, j)
  /\ remaining \in Nat
  /\ remaining > 0 =>
       /\ window # NoState
       /\ EstimateAt(window, now - window.currStart) < (Limit - remaining + 1) * WindowLen

\* Shifting the windows to the present forgets only what is too old.
LEMMA AdvanceFacts ==
  ASSUME NEW w \in Windows, now \in Nat, grants \in Seq(Nat), w.currStart <= now,
         Accounts(w, grants)
  PROVE  /\ Sliding!Advance(w) \in Windows
         /\ Sliding!Advance(w).currStart <= now
         /\ now - Sliding!Advance(w).currStart < WindowLen
         /\ Accounts(Sliding!Advance(w), grants)
<1>1. PICK a : a = Sliding!Advance(w)
  BY Zenon
<1>2. PICK W \in Nat \ {0} : W = WindowLen
  BY WindowAssumption, Zenon
<1>3. PICK p \in Nat, c \in Nat, s \in Nat :
        p = w.prevCount /\ c = w.currCount /\ s = w.currStart
  BY Zenon DEF Windows
<1>4. a = IF now - s >= 2 * W THEN [prevCount |-> 0, currCount |-> 0, currStart |-> now]
          ELSE IF now - s >= W
               THEN [prevCount |-> c, currCount |-> 0, currStart |-> s + W]
               ELSE w
  BY <1>1, <1>2, <1>3, Zenon DEF Sliding!Advance, Sliding!Fresh
<1>5. PICK n \in Nat : n = Len(grants)
  OBVIOUS
<1>6. /\ p <= Limit /\ c <= Limit /\ p + c <= n
      /\ \A i \in 1 .. n :
           /\ grants[i] < s + W /\ grants[i] \in Nat
           /\ i <= n - c => grants[i] < s
           /\ i <= n - c - p => grants[i] < s - W
  BY <1>2, <1>3, <1>5 DEF Accounts
<1>7. Limit \in Nat
  BY WindowAssumption, Zenon
<1>8. CASE now - s >= 2 * W
  <2>1. a \in Windows /\ a.prevCount = 0 /\ a.currCount = 0 /\ a.currStart = now
    BY <1>4, <1>8, Zenon DEF Windows
  <2>2. \A i \in 1 .. n : grants[i] < now - W
    BY <1>3, <1>6, <1>8
  <2>3. Accounts(a, grants)
    BY <1>2, <1>5, <1>7, <1>6, <2>1, <2>2 DEF Accounts
  <2> QED  BY <1>1, <1>2, <2>1, <2>3
<1>9. CASE now - s < 2 * W /\ now - s >= W
  <2>1. a \in Windows /\ a.prevCount = c /\ a.currCount = 0 /\ a.currStart = s + W
    BY <1>4, <1>9 DEF Windows
  <2>2. \A i \in 1 .. n : grants[i] < s + W /\ (i <= n - c => grants[i] < s)
    BY <1>6, Zenon
  <2>3. Accounts(a, grants)
    BY <1>2, <1>5, <1>7, <1>6, <2>1, <2>2 DEF Accounts
  <2> QED  BY <1>1, <1>2, <1>9, <2>1, <2>3
<1>10. CASE now - s < W
  <2>1. a = w
    BY <1>2, <1>4, <1>10
  <2> QED  BY <1>1, <1>2, <1>3, <1>10, <2>1, Zenon
<1> QED  BY <1>2, <1>3, <1>8, <1>9, <1>10

\* The estimate that Allow computes.
LEMMA EstimateFacts ==
  ASSUME NEW w \in Windows, now \in Nat, w.currStart <= now
  PROVE  Sliding!Estimate(Sliding!Advance(w)) = EstimateAt(w, now - w.currStart)
<1>1. PICK W \in Nat \ {0} : W = WindowLen
  BY WindowAssumption, Zenon
<1>2. PICK p \in Nat, c \in Nat, s \in Nat :
        p = w.prevCount /\ c = w.currCount /\ s = w.currStart
  BY Zenon DEF Windows
<1>3. PICK a : a = Sliding!Advance(w)
  BY Zenon
<1>4. a = IF now - s >= 2 * W THEN [prevCount |-> 0, currCount |-> 0, currStart |-> now]
          ELSE IF now - s >= W
               THEN [prevCount |-> c, currCount |-> 0, currStart |-> s + W]
               ELSE w
  BY <1>1, <1>2, <1>3, Zenon DEF Sliding!Advance, Sliding!Fresh
<1>5. Sliding!Estimate(a) =
        a.prevCount * (W - (IF now - a.currStart > W THEN W ELSE now - a.currStart)) + a.currCount * W
  BY <1>1, Zenon DEF Sliding!Estimate
<1>6. EstimateAt(w, now - s) =
        IF now - s >= 2 * W THEN 0
        ELSE IF now - s >= W THEN c * (2 * W - (now - s))
        ELSE p * (W - (now - s)) + c * W
  BY <1>1, <1>2, Zenon DEF EstimateAt
<1>7. CASE now - s >= 2 * W
  <2>1. a.prevCount = 0 /\ a.currCount = 0 /\ a.currStart = now
    BY <1>4, <1>7, Zenon
  <2> QED  BY <1>2, <1>3, <1>5, <1>6, <1>7, <2>1
<1>8. CASE now - s < 2 * W /\ now - s >= W
  <2>1. a.prevCount = c /\ a.currCount = 0 /\ a.currStart = s + W
    BY <1>4, <1>8
  <2>2. now - a.currStart <= W /\ W - (now - a.currStart) = 2 * W - (now - s)
    BY <1>8, <2>1
  <2>3. Sliding!Estimate(a) = c * (2 * W - (now - s)) + 0 * W
    BY <1>5, <2>1, <2>2
  <2>4. c * (2 * W - (now - s)) \in Int
    OBVIOUS
  <2> QED  BY <1>2, <1>3, <1>6, <1>8, <2>3, <2>4
<1>9. CASE now - s < W
  <2>1. a.prevCount = p /\ a.currCount = c /\ a.currStart = s
    BY <1>2, <1>4, <1>9
  <2> QED  BY <1>2, <1>3, <1>5, <1>6, <1>9, <2>1
<1> QED  BY <1>7, <1>8, <1>9

\* The estimate never grows as time passes, from window to window either.
LEMMA EstimateFalls ==
  ASSUME NEW w \in Windows, NEW e \in Nat
  PROVE  /\ EstimateAt(w, e) \in Nat
         /\ EstimateAt(w, e + 1) <= EstimateAt(w, e)
<1>1. PICK W \in Nat \ {0} : W = WindowLen
  BY WindowAssumption, Zenon
<1>2. PICK p \in Nat, c \in Nat : p = w.prevCount /\ c = w.currCount
  BY Zenon DEF Windows
<1>3. \A x : EstimateAt(w, x) = IF x >= 2 * W THEN 0
                               ELSE IF x >= W THEN c * (2 * W - x)
                               ELSE p * (W - x) + c * W
  BY <1>1, <1>2, Zenon DEF EstimateAt
<1>4. CASE e >= 2 * W
  <2>1. EstimateAt(w, e) = 0 /\ EstimateAt(w, e + 1) = 0
    BY <1>3, <1>4
  <2> QED  BY <2>1
<1>5. CASE e >= W /\ e < 2 * W
  <2>1. EstimateAt(w, e) = c * (2 * W - e) /\ 2 * W - e \in Nat \ {0}
    BY <1>3, <1>5
  <2>2. c * (2 * W - e) \in Nat /\ c * (2 * W - (e + 1)) <= c * (2 * W - e)
    BY <2>1
  <2>3. EstimateAt(w, e + 1) = 0 \/ EstimateAt(w, e + 1) = c * (2 * W - (e + 1))
    BY <1>3, <1>5
  <2> QED  BY <2>1, <2>2, <2>3
<1>6. CASE e < W /\ e + 1 >= W
  <2>1. e = W - 1
    BY <1>6
  <2>2. EstimateAt(w, e) = p * (W - e) + c * W
    BY <1>3, <1>6
  <2>3. p * (W - e) \in Nat /\ c * W \in Nat
    BY <2>1
  <2>4. EstimateAt(w, e + 1) = c * (2 * W - W)
    BY <1>3, <2>1
  <2>5. 2 * W - W = W
    OBVIOUS
  <2> QED  BY <2>2, <2>3, <2>4, <2>5
<1>7. CASE e + 1 < W
  <2>1. /\ EstimateAt(w, e) = p * (W - e) + c * W
        /\ EstimateAt(w, e + 1) = p * (W - (e + 1)) + c * W
    <3>1. ~(e >= 2 * W) /\ ~(e >= W) /\ ~(e + 1 >= 2 * W) /\ ~(e + 1 >= W)
      BY <1>7
    <3> QED  BY <1>3, <3>1, Zenon
  <2>2. W - e \in Nat /\ W - (e + 1) \in Nat /\ c * W \in Nat
    BY <1>7
  <2>3. p * (W - (e + 1)) <= p * (W - e) /\ p * (W - e) \in Nat /\ p * (W - (e + 1)) \in Nat
    BY <2>2
  <2> QED  BY <2>1, <2>2, <2>3
<1> QED  BY <1>4, <1>5, <1>6, <1>7

\* The effect of Allow, by what the current window (after Advance) and the
\* estimate are.
LEMMA SlidingEffect ==
  ASSUME WindowInv, Sliding!Allow
  PROVE  \E w \in Windows, est \in Nat :
           /\ w.currStart <= now /\ now - w.currStart < WindowLen
           /\ Accounts(w, grants)
           /\ est = w.prevCount * (WindowLen - (now - w.currStart)) + w.currCount * WindowLen
           /\ window # NoState => est = EstimateAt(window, now - window.currStart)
           /\ now' = now
           /\ \/ /\ est \div WindowLen < Limit
                 /\ window' = [w EXCEPT !.currCount = @ + 1]
                 /\ remaining' = Limit - est \div WindowLen - 1
                 /\ grants' = Append(grants, now)
              \/ /\ ~(est \div WindowLen < Limit)
                 /\ window' = w /\ remaining' = 0 /\ grants' = grants
<1>1. PICK v : v = IF window = NoState THEN Sliding!Fresh ELSE window
  BY Zenon
<1>2. now \in Nat /\ grants \in Seq(Nat) /\ WindowLen \in Nat \ {0} /\ Limit \in Nat
  BY WindowAssumption, Zenon DEF WindowInv, History
<1>3. v \in Windows /\ v.currStart <= now /\ Accounts(v, grants)
  <2>1. CASE window = NoState
    <3>1. v = [prevCount |-> 0, currCount |-> 0, currStart |-> now]
      BY <1>1, <2>1, Zenon DEF Sliding!Fresh
    <3>2. Len(grants) = 0
      BY <2>1 DEF WindowInv
    <3> QED  BY <1>2, <3>1, <3>2 DEF Windows, Accounts
  <2>2. CASE window # NoState
    BY <1>1, <2>2, Zenon DEF WindowInv
  <2> QED  BY <2>1, <2>2, Zenon
<1>4. PICK w : w = Sliding!Advance(v)
  BY Zenon
<1>5. /\ w \in Windows /\ w.currStart <= now /\ now - w.currStart < WindowLen
      /\ Accounts(w, grants)
  BY <1>2, <1>3, <1>4, AdvanceFacts, Zenon
<1>6. PICK est : est = Sliding!Estimate(w)
  OBVIOUS
<1>7. est = EstimateAt(v, now - v.currStart)
  BY <1>2, <1>3, <1>4, <1>6, EstimateFacts, Zenon
<1>8. est \in Nat
  <2>1. now - v.currStart \in Nat
    BY <1>2, <1>3 DEF Windows
  <2> QED  BY <1>3, <1>7, <2>1, EstimateFalls, Zenon
<1>9. est = w.prevCount * (WindowLen - (now - w.currStart)) + w.currCount * WindowLen
  <2>1. PICK s \in Nat : s = w.currStart
    BY <1>5, Zenon DEF Windows
  <2>2. ~(now - w.currStart > WindowLen)
    BY <1>2, <1>5, <2>1
  <2> QED  BY <1>6, <2>2, Zenon DEF Sliding!Estimate
<1>10. /\ now' = now
       /\ \/ /\ est \div WindowLen < Limit
             /\ window' = [w EXCEPT !.currCount = @ + 1]
             /\ remaining' = Limit - est \div WindowLen - 1
             /\ grants' = Append(grants, now)
          \/ /\ ~(est \div WindowLen < Limit)
             /\ window' = w /\ remaining' = 0 /\ grants' = grants
  BY <1>1, <1>4, <1>6, Zenon DEF Sliding!Allow, Sliding!Admits
<1>11. window # NoState => est = EstimateAt(window, now - window.currStart)
  BY <1>1, <1>7, Zenon
<1> QED  BY <1>5, <1>8, <1>9, <1>10, <1>11, Zenon

\* A request let through keeps the bound on bursts: k requests since time a,
\* of which the window counts p and c, or only c.
LEMMA SpreadStep ==
  ASSUME NEW k \in Nat, NEW p \in Nat, NEW c \in Nat, NEW W \in Nat \ {0}, NEW L \in Nat,
         NEW a \in Nat, NEW s \in Nat, NEW b \in Nat, s <= b, b - s < W, a <= b, p <= L,
         p * (W - (b - s)) + c * W < L * W,
         k <= c \/ (k <= p + c /\ a < s)
  PROVE  k * W < L * (W + b - a)
<1>1. PICK d \in Nat, e \in Nat : d = b - s /\ e = b - a
  OBVIOUS
<1>2. L * (W + b - a) = L * W + L * e
  <2>1. W + b - a = W + e
    BY <1>1, Zenon
  <2>2. L * (W + e) = L * W + L * e
    OBVIOUS
  <2> QED  BY <2>1, <2>2, Zenon
<1>3. p * (W - d) = p * W - p * d
  OBVIOUS
<1>4. p * W - p * d + c * W < L * W
  BY <1>1, <1>3, Zenon
<1>5. p * d <= p * W /\ p * d \in Nat /\ p * W \in Nat /\ c * W \in Nat /\ L * W \in Nat
      /\ L * e \in Nat
  BY <1>1
<1>6. CASE k <= c
  <2>1. k * W <= c * W /\ k * W \in Nat
    BY <1>6
  <2> QED  BY <1>2, <1>4, <1>5, <2>1
<1>7. CASE k <= p + c /\ a < s
  <2>1. k * W <= (p + c) * W /\ (p + c) * W = p * W + c * W /\ k * W \in Nat
    BY <1>7
  <2>2. d <= e
    BY <1>1, <1>7
  <2>3. p * d <= L * d /\ L * d <= L * e /\ L * d \in Nat
    BY <2>2
  <2> QED  BY <1>2, <1>4, <1>5, <2>1, <2>3
<1> QED  BY <1>6, <1>7, Zenon

\* A call of SlidingWindow.Allow keeps the bounds and the last promise.
LEMMA WindowAllow ==
  ASSUME WindowInv, Sliding!Allow
  PROVE  WindowInv' /\ (remaining > 0 => grants' # grants /\ remaining' >= remaining - 1)
<1>1. PICK w \in Windows, est \in Nat :
        /\ w.currStart <= now /\ now - w.currStart < WindowLen
        /\ Accounts(w, grants)
        /\ est = w.prevCount * (WindowLen - (now - w.currStart)) + w.currCount * WindowLen
        /\ window # NoState => est = EstimateAt(window, now - window.currStart)
        /\ now' = now
        /\ \/ /\ est \div WindowLen < Limit
              /\ window' = [w EXCEPT !.currCount = @ + 1]
              /\ remaining' = Limit - est \div WindowLen - 1
              /\ grants' = Append(grants, now)
           \/ /\ ~(est \div WindowLen < Limit)
              /\ window' = w /\ remaining' = 0 /\ grants' = grants
  BY SlidingEffect, Zenon
<1>2. PICK W \in Nat \ {0}, L \in Nat : W = WindowLen /\ L = Limit
  BY WindowAssumption, Zenon
<1>3. PICK p \in Nat, c \in Nat, s \in Nat :
        p = w.prevCount /\ c = w.currCount /\ s = w.currStart
  BY Zenon DEF Windows
<1>4. PICK n \in Nat : n = Len(grants)
  BY DEF WindowInv, History
<1>5. /\ now \in Nat /\ grants \in Seq(Nat) /\ remaining \in Nat
      /\ \A i \in 1 .. n : grants[i] \in Nat /\ grants[i] <= now
  BY <1>4 DEF WindowInv, History
<1>6. PICK q \in Nat : q = est \div W /\ q * W <= est /\ est < q * W + W
  BY DivFacts
<1>7. remaining > 0 => q <= L - remaining
  <2>1. HAVE remaining > 0
  <2>2. est < (L - remaining + 1) * W
    BY <1>1, <1>2, <2>1, Zenon DEF WindowInv
  <2>3. q * W < (L - remaining + 1) * W
    BY <1>5, <1>6, <2>2
  <2>4. q < L - remaining + 1
    BY <1>5, <2>3, MulCancelLess
  <2> QED  BY <1>5, <2>4
<1>8. CASE ~(q < L)
  <2>1. window' = w /\ remaining' = 0 /\ grants' = grants
    BY <1>1, <1>2, <1>6, <1>8, Zenon
  <2>2. ~(remaining > 0)
    BY <1>5, <1>7, <1>8
  <2>3. w # NoState
    BY NoStateAssumption, Zenon DEF Windows
  <2>4. /\ History' /\ \A i \in 1 .. Len(grants') : grants'[i] <= now'
        /\ remaining' \in Nat /\ ~(remaining' > 0)
    BY <1>1, <1>4, <1>5, <2>1 DEF History
  <2>5. \A i, j \in 1 .. Len(grants') : Spread(grants, i, j)'
    BY <2>1 DEF WindowInv, Spread
  <2>6. Accounts(window, grants)'
    BY <1>1, <2>1, Zenon DEF Accounts
  <2>7. window' \in Windows /\ window'.currStart <= now' /\ window' # NoState
    BY <1>1, <2>1, <2>3, Zenon
  <2> QED  BY <2>2, <2>4, <2>5, <2>6, <2>7, Zenon DEF WindowInv
<1>9. CASE q < L
  <2>1. /\ window' = [w EXCEPT !.currCount = @ + 1]
        /\ remaining' = L - q - 1
        /\ grants' = Append(grants, now)
    BY <1>1, <1>2, <1>6, <1>9, Zenon
  <2>2. /\ grants' \in Seq(Nat) /\ Len(grants') = n + 1
        /\ \A i \in 1 .. n : grants'[i] = grants[i]
        /\ grants'[n + 1] = now
    BY <1>4, <1>5, <2>1
  <2>3. /\ window' \in Windows /\ window'.prevCount = p
        /\ window'.currCount = c + 1 /\ window'.currStart = s
    BY <1>3, <2>1 DEF Windows
  <2>4. window' # NoState
    BY <2>3, NoStateAssumption, Zenon DEF Windows
  <2>5. /\ s <= now /\ now - s < W
        /\ est = p * (W - (now - s)) + c * W
    BY <1>1, <1>2, <1>3, Zenon
  <2>6. est < L * W
    <3>1. q + 1 <= L /\ (q + 1) * W = q * W + W
      BY <1>9
    <3>2. (q + 1) * W <= L * W /\ (q + 1) * W \in Nat /\ L * W \in Nat
      BY <3>1
    <3> QED  BY <1>6, <3>1, <3>2
  <2>7. c + 1 <= L
    <3>1. p * (W - (now - s)) \in Nat /\ c * W \in Nat /\ L * W \in Nat
      <4>1. W - (now - s) \in Nat
        BY <1>5, <2>5
      <4> QED  BY <4>1
    <3>2. c * W < L * W
      BY <2>5, <2>6, <3>1
    <3>3. c < L
      BY <3>2, MulCancelLess
    <3> QED  BY <3>3
  <2>8. /\ p <= L /\ p + c <= n
        /\ \A i \in 1 .. n :
             /\ grants[i] < s + W
             /\ i <= n - c => grants[i] < s
             /\ i <= n - c - p => grants[i] < s - W
    BY <1>1, <1>2, <1>3, <1>4, Zenon DEF Accounts
  <2>9. Accounts(window, grants)'
    <3>1. \A i \in 1 .. n + 1 :
            /\ grants'[i] < s + W
            /\ i <= n + 1 - (c + 1) => grants'[i] < s
            /\ i <= n + 1 - (c + 1) - p => grants'[i] < s - W
      BY <1>5, <2>2, <2>5, <2>8
    <3> QED  BY <1>2, <2>2, <2>3, <2>7, <2>8, <3>1 DEF Accounts
  <2>10. \A i \in 1 .. n + 1 : grants'[i] \in Nat /\ grants'[i] <= now
    BY <1>5, <2>2
  <2>11. \A i, j \in 1 .. n + 1 : Spread(grants, i, j)'
    <3>1. SUFFICES ASSUME NEW i \in 1 .. n + 1, NEW j \in 1 .. n + 1, i <= j,
                          grants'[j] - grants'[i] < W
                   PROVE  (j - i) * W < L * (W + grants'[j] - grants'[i])
      BY <1>2, Zenon DEF Spread
    <3>2. CASE j \in 1 .. n
      <4>1. Spread(grants, i, j) /\ i \in 1 .. n
        BY <1>4, <3>1, <3>2 DEF WindowInv
      <4> QED  BY <1>2, <2>2, <3>1, <3>2, <4>1, Zenon DEF Spread
    <3>3. CASE j = n + 1
      <4>1. PICK a \in Nat : a = grants'[i] /\ a <= now
        BY <2>10, Zenon
      <4>2. PICK k \in Nat : k = j - i
        BY <3>1
      <4>3. k <= c \/ (k <= p + c /\ a < s)
        <5>1. CASE i = n + 1
          BY <3>3, <4>2, <5>1
        <5>2. CASE i \in 1 .. n
          <6>1. grants'[j] = now /\ a = grants[i]
            BY <2>2, <3>3, <4>1, <5>2, Zenon
          <6>2. ~(a < s - W)
            BY <1>5, <2>5, <3>1, <4>1, <6>1
          <6>3. ~(i <= n - c - p)
            BY <2>8, <5>2, <6>1, <6>2, Zenon
          <6>4. i <= n - c => a < s
            BY <2>8, <5>2, <6>1, Zenon
          <6> QED  BY <3>3, <4>2, <6>3, <6>4
        <5> QED  BY <5>1, <5>2
      <4>4. k * W < L * (W + now - a)
        BY <1>5, <2>5, <2>6, <2>8, <4>1, <4>3, SpreadStep, Zenon
      <4> QED  BY <2>2, <3>3, <4>1, <4>2, <4>4, Zenon
    <3> QED  BY <3>2, <3>3
  <2>12. remaining' \in Nat
    BY <1>9, <2>1
  <2>13. EstimateAt(window', now' - window'.currStart) < (L - remaining' + 1) * W
    <3>1. EstimateAt(window', now - s) = p * (W - (now - s)) + (c + 1) * W
      <4>1. ~(now - s >= 2 * W) /\ ~(now - s >= W)
        BY <1>5, <2>5
      <4> QED  BY <1>2, <2>3, <4>1, Zenon DEF EstimateAt
    <3>2. (c + 1) * W = c * W + W /\ c * W \in Int /\ p * (W - (now - s)) \in Int
      BY <1>5
    <3>3. EstimateAt(window', now - s) = est + W
      BY <2>5, <3>1, <3>2
    <3>4. (L - remaining' + 1) * W = q * W + W + W
      <4>1. L - remaining' + 1 = q + 2
        BY <2>1
      <4>2. (q + 2) * W = q * W + W + W
        OBVIOUS
      <4> QED  BY <4>1, <4>2, Zenon
    <3> QED  BY <1>1, <1>6, <2>3, <3>3, <3>4
  <2>14. remaining > 0 => grants' # grants /\ remaining' >= remaining - 1
    BY <1>4, <1>5, <1>7, <2>1, <2>2
  <2>15. History' /\ \A i \in 1 .. Len(grants') : grants'[i] <= now'
    BY <1>1, <1>5, <2>2, <2>10, Zenon DEF History
  <2>16. \A i, j \in 1 .. Len(grants') : Spread(grants, i, j)'
    BY <2>2, <2>11, Zenon
  <2>17. window'.currStart <= now'
    BY <1>1, <2>3, <2>5, Zenon
  <2>18. EstimateAt(window, now - window.currStart)' < (Limit - remaining' + 1) * WindowLen
    BY <1>2, <2>13, Zenon DEF EstimateAt
  <2> QED  BY <2>3, <2>4, <2>9, <2>12, <2>14, <2>15, <2>16, <2>17, <2>18, Zenon DEF WindowInv
<1> QED  BY <1>8, <1>9, Zenon

-----------------------------------------------------------------------------

\* The inductive invariant of the two limiters.
LimitsInv ==
  /\ algorithm \in {"token_bucket", "sliding_window"}
  /\ algorithm = "token_bucket" => BucketInv /\ HonestInv /\ remaining = 0
  /\ algorithm = "sliding_window" => WindowInv /\ state.remaining = 0

\* The invariant holds at the start.
LEMMA LimitsInit == RateInit => LimitsInv
<1>1. SUFFICES ASSUME RateInit PROVE LimitsInv
  BY Zenon
<1>2. /\ bucket = NoState /\ window = NoState /\ remaining = 0 /\ state.remaining = 0
      /\ grants = <<>> /\ now = 1 /\ Len(grants) = 0
      /\ algorithm \in {"token_bucket", "sliding_window"}
  BY <1>1, Zenon DEF RateInit, Bucket!Init, Bucket!None, Sliding!Init
<1>3. History
  BY <1>2 DEF History
<1>4. BucketInv /\ HonestInv
  BY <1>2, <1>3 DEF BucketInv, HonestInv
<1>5. WindowInv
  BY <1>2, <1>3 DEF WindowInv
<1> QED  BY <1>2, <1>4, <1>5, Zenon DEF LimitsInv

\* Every step of the token bucket keeps its part of the invariant.
LEMMA BucketStep ==
  ASSUME BucketInv, HonestInv, Bucket!Next
  PROVE  BucketInv' /\ HonestInv'
<1>1. CASE Bucket!Tick
  <2>1. bucket' = bucket /\ grants' = grants /\ state' = state /\ now' = now + 1
    BY <1>1, Zenon DEF Bucket!Tick
  <2>2. History' /\ (bucket # NoState => bucket'.lastFill <= now')
    BY <2>1 DEF BucketInv, History, Buckets
  <2>3. \A i, j : /\ Paced(grants, i, j)' = Paced(grants, i, j)
                 /\ Covered(bucket, grants, i)' = Covered(bucket, grants, i)
    BY <2>1 DEF Paced, Covered
  <2>4. BucketInv'
    BY <2>1, <2>2, <2>3, Zenon DEF BucketInv
  <2> QED  BY <2>1, <2>4, Zenon DEF HonestInv
<1>2. CASE Bucket!Reset
  <2>1. /\ bucket' = NoState /\ grants' = <<>> /\ state'.remaining = 0
        /\ now' = now /\ Len(grants') = 0
    BY <1>2, Zenon DEF Bucket!Reset, Bucket!None
  <2>2. History'
    BY <2>1 DEF BucketInv, History
  <2> QED  BY <2>1, <2>2 DEF BucketInv, HonestInv
<1>3. CASE \E o \in Options : Bucket!Allow(o)
  BY <1>3, BucketAllow, HonestAllow, Zenon
<1> QED  BY <1>1, <1>2, <1>3, Zenon DEF Bucket!Next

\* Every step of the sliding window keeps its part of the invariant.
LEMMA WindowStep ==
  ASSUME WindowInv, Sliding!Next
  PROVE  WindowInv'
<1>1. CASE Sliding!Tick
  <2>1. window' = window /\ grants' = grants /\ remaining' = remaining /\ now' = now + 1
    BY <1>1, Zenon DEF Sliding!Tick
  <2>2. /\ History' /\ (window # NoState => window'.currStart <= now')
        /\ \A i \in 1 .. Len(grants') : grants'[i] <= now'
    BY <2>1 DEF WindowInv, History, Windows
  <2>3. \A i, j : Spread(grants, i, j)' = Spread(grants, i, j)
    BY <2>1, Zenon DEF Spread
  <2>4. Accounts(window, grants)' = Accounts(window, grants)
    BY <2>1, Zenon DEF Accounts
  <2>5. remaining > 0 =>
          EstimateAt(window, now - window.currStart)' < (Limit - remaining' + 1) * WindowLen
    <3>1. HAVE remaining > 0
    <3>2. /\ window \in Windows /\ window.currStart <= now /\ now \in Nat /\ remaining \in Nat
          /\ EstimateAt(window, now - window.currStart) < (Limit - remaining + 1) * WindowLen
      BY <3>1, Zenon DEF WindowInv, History
    <3>3. PICK e \in Nat : e = now - window.currStart
      BY <3>2 DEF Windows
    <3>4. now + 1 - window.currStart = e + 1
      BY <3>2, <3>3 DEF Windows
    <3>5. /\ EstimateAt(window, e + 1) <= EstimateAt(window, e)
          /\ EstimateAt(window, e) \in Nat
      BY <3>2, EstimateFalls, Zenon
    <3>6. EstimateAt(window, now - window.currStart)' = EstimateAt(window, e + 1)
      <4>1. now' - window'.currStart = e + 1
        BY <2>1, <3>2, <3>3 DEF Windows
      <4> QED  BY <2>1, <4>1, Zenon DEF EstimateAt
    <3>7. EstimateAt(window, e + 1) \in Nat
      BY <3>2, EstimateFalls
    <3>8. PICK m \in Int : m = (Limit - remaining + 1) * WindowLen
      BY <3>2, WindowAssumption
    <3> QED  BY <2>1, <3>2, <3>3, <3>5, <3>6, <3>7, <3>8
  <2> QED  BY <2>1, <2>2, <2>3, <2>4, <2>5, Zenon DEF WindowInv
<1>2. CASE Sliding!Reset
  <2>1. /\ window' = NoState /\ grants' = <<>> /\ remaining' = 0
        /\ now' = now /\ Len(grants') = 0
    BY <1>2, Zenon DEF Sliding!Reset
  <2>2. History'
    BY <2>1 DEF WindowInv, History
  <2> QED  BY <2>1, <2>2 DEF WindowInv
<1>3. CASE Sliding!Allow
  BY <1>3, WindowAllow, Zenon
<1> QED  BY <1>1, <1>2, <1>3, Zenon DEF Sliding!Next

\* Every step of either limiter keeps the invariant.
LEMMA LimitsStep == LimitsInv /\ [RateNext]_rateVars => LimitsInv'
<1>1. SUFFICES ASSUME LimitsInv, [RateNext]_rateVars PROVE LimitsInv'
  OBVIOUS
<1>2. CASE RateLimit
  <2>1. /\ algorithm = "token_bucket" /\ algorithm' = algorithm
        /\ Bucket!Next /\ remaining' = remaining
    BY <1>2, Zenon DEF RateLimit
  <2>2. BucketInv' /\ HonestInv'
    BY <1>1, <2>1, BucketStep, Zenon DEF LimitsInv
  <2> QED  BY <1>1, <2>1, <2>2, Zenon DEF LimitsInv
<1>3. CASE RateLimitSliding
  <2>1. /\ algorithm = "sliding_window" /\ algorithm' = algorithm
        /\ Sliding!Next /\ state' = state
    BY <1>3, Zenon DEF RateLimitSliding
  <2>2. WindowInv'
    BY <1>1, <2>1, WindowStep, Zenon DEF LimitsInv
  <2> QED  BY <1>1, <2>1, <2>2, Zenon DEF LimitsInv
<1>4. CASE UNCHANGED rateVars
  <2>1. /\ algorithm' = algorithm /\ bucket' = bucket /\ state' = state /\ window' = window
        /\ remaining' = remaining /\ grants' = grants /\ now' = now
    BY <1>4, Zenon DEF rateVars
  <2>2. BucketInv' = BucketInv /\ HonestInv' = HonestInv
    BY <2>1 DEF BucketInv, HonestInv, History, Paced, Covered
  <2>3. WindowInv' = WindowInv
    BY <2>1, Zenon DEF WindowInv, History, Spread, Accounts, EstimateAt
  <2> QED  BY <1>1, <2>1, <2>2, <2>3, Zenon DEF LimitsInv
<1> QED  BY <1>1, <1>2, <1>3, <1>4, Zenon DEF RateNext

\* The invariant of the limiters holds for any options, limits and windows.
THEOREM LimitsInductive == RateSpec => []LimitsInv
BY LimitsInit, LimitsStep, PTL DEF RateSpec

\* Whatever options the calls for a key pass and whenever they come, no more
\* requests get through RateLimit than one burst and the refill allow
\* (tokenbucket.go, Allow).
THEOREM RateCorrect == RateSpec => []RateBounded
<1>1. LimitsInv => RateBounded
  <2>1. SUFFICES ASSUME LimitsInv, algorithm = "token_bucket" PROVE RateBounded
    BY Zenon DEF RateBounded
  <2>2. DOMAIN grants = 1 .. Len(grants)
    BY <2>1 DEF LimitsInv, BucketInv, History
  <2>3. \A i, j \in DOMAIN grants : i <= j => Paced(grants, i, j)
    BY <2>1, <2>2, Zenon DEF LimitsInv, BucketInv
  <2> QED  BY <2>3, Zenon DEF Paced, RateBounded
<1> QED  BY <1>1, LimitsInductive, PTL

\* In any interval shorter than the window, RateLimitSliding lets through
\* less than the limit, one more and the interval's share of another limit
\* (slidingwindow.go, Allow).
THEOREM BurstCorrect == RateSpec => []BurstBounded
<1>1. LimitsInv => BurstBounded
  BY DEF LimitsInv, WindowInv, History, Spread, BurstBounded
<1> QED  BY <1>1, LimitsInductive, PTL

\* Remaining, as RateLimit reports it, is kept at the next call with the same
\* options (tokenbucket.go, Allow).
THEOREM BucketPromise == RateSpec => BucketHonest
<1>1. ASSUME LimitsInv, NEW o \in Options, Bucket!Allow(o), state.for = o, state.remaining > 0
      PROVE  state'.allowed /\ state'.remaining >= state.remaining - 1
  <2>1. BucketInv /\ HonestInv
    BY <1>1 DEF LimitsInv
  <2> QED  BY <1>1, <2>1, HonestAllow, Zenon
<1>2. LimitsInv =>
        \A o \in Options : Bucket!Allow(o) /\ state.for = o /\ state.remaining > 0
          => state'.allowed /\ state'.remaining >= state.remaining - 1
  BY <1>1, Zenon
<1> QED  BY <1>2, LimitsInductive, PTL DEF BucketHonest

\* Remaining, as RateLimitSliding reports it, is kept at the next call, in
\* whatever window that is (slidingwindow.go, Allow).
THEOREM WindowPromise == RateSpec => WindowHonest
<1>1. ASSUME LimitsInv, Sliding!Allow, remaining > 0
      PROVE  grants' # grants /\ remaining' >= remaining - 1
  <2>1. WindowInv
    BY <1>1 DEF LimitsInv
  <2> QED  BY <1>1, <2>1, WindowAllow, Zenon
<1>2. LimitsInv => (Sliding!Allow /\ remaining > 0
                      => grants' # grants /\ remaining' >= remaining - 1)
  BY <1>1, Zenon
<1> QED  BY <1>2, LimitsInductive, PTL DEF WindowHonest
=============================================================================
