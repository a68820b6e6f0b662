------------------------------- MODULE Broker -------------------------------
(***************************************************************************)
(* The event broker (src/internal/pubsub/broker.go, subscription.go and    *)
(* the Subscription of src/pubsub.go).                                     *)
(*                                                                         *)
(* Publish walks the subscriptions under the read lock; Subscribe,         *)
(* Unsubscribe and Shutdown take the write lock.  A subscriber's Close     *)
(* takes no lock at all: it races with all of them on Subscription.closed. *)
(* A send on, or a close of, a closed channel is a panic, after which the  *)
(* process takes no further step.                                          *)
(***************************************************************************)
EXTENDS Naturals, Sequences

CONSTANTS
  Subs,        \* subscriptions
  Closing,     \* those whose owner calls Close
  Publishers,  \* goroutines that publish
  Keys,        \* the keys of events
  Matches,     \* Matches[s]: the keys that match the pattern of s
  BufSize,     \* capacity of a subscription's channel (256 in the code)
  MaxEvents    \* bound on the number of events published

ASSUME SubsAssumption == Closing \subseteq Subs /\ Matches \in [Subs -> SUBSET Keys]
ASSUME BrokerBoundsAssumption == {BufSize, MaxEvents} \subseteq Nat

VARIABLES
  subscriptions,  \* Broker.subscriptions: the ids in the map
  closed,         \* closed[s]: Subscription.closed
  done,           \* done[s]: the channel Subscription.done is closed
  ch,             \* ch[s]: the events in Subscription.ch
  chClosed,       \* chClosed[s]: that channel is closed
  pub,            \* pub[p]: where publisher p is inside Publish
  owner,          \* owner[s]: where the owner of s is inside Close
  locker,         \* the goroutine inside Unsubscribe or Shutdown
  events,         \* how many events have been published
  panicked        \* the subscription at which a goroutine has panicked, if any

subVars == <<closed, done, ch, chClosed>>
vars == <<subscriptions, subVars, pub, owner, locker, events, panicked>>

Idle == [pc |-> "idle"]

Init ==
  /\ subscriptions = {}
  /\ closed = [s \in Subs |-> FALSE]
  /\ done = [s \in Subs |-> FALSE]
  /\ ch = [s \in Subs |-> <<>>]
  /\ chClosed = [s \in Subs |-> FALSE]
  /\ pub = [p \in Publishers |-> Idle]
  /\ owner = [s \in Subs |-> "unborn"]
  /\ locker = Idle
  /\ events = 0
  /\ panicked = {}

PanicIf(bad, s) == panicked' = IF bad THEN {s} ELSE {}

NoReaders == \A p \in Publishers : pub[p] = Idle

-----------------------------------------------------------------------------
\* Subscribing and publishing

Subscribe(s) ==
  /\ owner[s] = "unborn"
  /\ NoReaders /\ locker = Idle
  /\ subscriptions' = subscriptions \cup {s}
  /\ owner' = [owner EXCEPT ![s] = "idle"]
  /\ UNCHANGED <<subVars, pub, locker, events, panicked>>

\* Publish takes the read lock ...
Publish(p, k) ==
  /\ pub[p] = Idle /\ events < MaxEvents
  /\ locker = Idle
  /\ pub' = [pub EXCEPT ![p] = [pc |-> "visit", key |-> k, todo |-> subscriptions]]
  /\ events' = events + 1
  /\ UNCHANGED <<subscriptions, subVars, owner, locker, panicked>>

\* ... looks at one subscription after the other ...
Visit(p, s) ==
  LET rest == pub[p].todo \ {s} IN
  /\ pub[p].pc = "visit" /\ s \in pub[p].todo
  /\ pub' = [pub EXCEPT ![p] =
       IF ~closed[s] /\ pub[p].key \in Matches[s]
       THEN [pc |-> "send", key |-> pub[p].key, todo |-> rest, to |-> s]
       ELSE [pc |-> "visit", key |-> pub[p].key, todo |-> rest]]
  /\ UNCHANGED <<subscriptions, subVars, owner, locker, events, panicked>>

\* Mutant: the send waits for room in the channel.
Send_Blocking(p) ==
  LET s == pub[p].to IN
  /\ pub[p].pc = "send"
  /\ Len(ch[s]) < BufSize
  /\ ch' = [ch EXCEPT ![s] = Append(@, pub[p].key)]
  /\ pub' = [pub EXCEPT ![p] = [pc |-> "visit", key |-> pub[p].key, todo |-> pub[p].todo]]
  /\ UNCHANGED <<subscriptions, closed, done, chClosed, owner, locker, events, panicked>>

\* ... and sends without waiting: the event is dropped if the buffer is full.
Send(p) ==
  LET s == pub[p].to IN
  /\ pub[p].pc = "send"
  /\ PanicIf(chClosed[s], s)
  /\ ch' = IF chClosed[s] \/ Len(ch[s]) >= BufSize THEN ch
           ELSE [ch EXCEPT ![s] = Append(@, pub[p].key)]
  /\ pub' = [pub EXCEPT ![p] = [pc |-> "visit", key |-> pub[p].key, todo |-> pub[p].todo]]
  /\ UNCHANGED <<subscriptions, closed, done, chClosed, owner, locker, events>>

PublishReturn(p) ==
  /\ pub[p].pc = "visit" /\ pub[p].todo = {}
  /\ pub' = [pub EXCEPT ![p] = Idle]
  /\ UNCHANGED <<subscriptions, subVars, owner, locker, events, panicked>>

\* A subscriber takes the next event off its channel, also once it is closed.
Receive(s) ==
  /\ owner[s] # "unborn" /\ ch[s] # <<>>
  /\ ch' = [ch EXCEPT ![s] = Tail(@)]
  /\ UNCHANGED <<subscriptions, closed, done, chClosed, pub, owner, locker, events, panicked>>

-----------------------------------------------------------------------------
\* Closing: Subscription.Close in three steps.  CloseTest is the test of the
\* flag, CloseFlag sets it and closes done, CloseChannel closes ch.

CloseFlag(s) ==
  /\ closed' = [closed EXCEPT ![s] = TRUE]
  /\ done' = [done EXCEPT ![s] = TRUE]
  /\ PanicIf(done[s], s)
  /\ UNCHANGED <<ch, chClosed>>

CloseChannel(s) ==
  /\ chClosed' = [chClosed EXCEPT ![s] = TRUE]
  /\ PanicIf(chClosed[s], s)
  /\ UNCHANGED <<closed, done, ch>>

\* The owner's Close; a further call finds the flag set and does nothing.
OwnerCloseTest(s) ==
  /\ s \in Closing /\ owner[s] = "idle"
  /\ owner' = [owner EXCEPT ![s] = IF closed[s] THEN "returned" ELSE "close"]
  /\ UNCHANGED <<subscriptions, subVars, pub, locker, events, panicked>>

OwnerCloseFlag(s) ==
  /\ owner[s] = "close"
  /\ CloseFlag(s)
  /\ owner' = [owner EXCEPT ![s] = "closeCh"]
  /\ UNCHANGED <<subscriptions, pub, locker, events>>

OwnerCloseChannel(s) ==
  /\ owner[s] = "closeCh"
  /\ CloseChannel(s)
  /\ owner' = [owner EXCEPT ![s] = "returned"]
  /\ UNCHANGED <<subscriptions, pub, locker, events>>

\* Mutant: Unsubscribe and Shutdown only take the read lock.
LockAll_Shared(todo) ==
  /\ locker = Idle
  /\ locker' = [pc |-> "visit", todo |-> todo]
  /\ UNCHANGED <<subscriptions, subVars, pub, owner, events, panicked>>

\* Unsubscribe of one subscription or Shutdown of all takes the write lock,
LockAll(todo) ==
  /\ locker = Idle /\ NoReaders
  /\ locker' = [pc |-> "visit", todo |-> todo]
  /\ UNCHANGED <<subscriptions, subVars, pub, owner, events, panicked>>

Unsubscribe(s) == s \in subscriptions /\ LockAll({s})

Shutdown == subscriptions # {} /\ LockAll(subscriptions)

\* Mutant: a subscription is deleted from the map without Close.
LockerCloseTest_OnlyDeletes(s) ==
  /\ locker.pc = "visit" /\ s \in locker.todo
  /\ subscriptions' = subscriptions \ {s}
  /\ locker' = [pc |-> "visit", todo |-> locker.todo \ {s}]
  /\ UNCHANGED <<subVars, pub, owner, events, panicked>>

\* and for each one calls Close and deletes it from the map.
LockerCloseTest(s) ==
  /\ locker.pc = "visit" /\ s \in locker.todo
  /\ IF closed[s]
     THEN /\ subscriptions' = subscriptions \ {s}
          /\ locker' = [pc |-> "visit", todo |-> locker.todo \ {s}]
     ELSE /\ locker' = [pc |-> "close", todo |-> locker.todo \ {s}, at |-> s]
          /\ UNCHANGED subscriptions
  /\ UNCHANGED <<subVars, pub, owner, events, panicked>>

LockerCloseFlag ==
  /\ locker.pc = "close"
  /\ CloseFlag(locker.at)
  /\ locker' = [locker EXCEPT !.pc = "closeCh"]
  /\ UNCHANGED <<subscriptions, pub, owner, events>>

LockerCloseChannel ==
  /\ locker.pc = "closeCh"
  /\ CloseChannel(locker.at)
  /\ subscriptions' = subscriptions \ {locker.at}
  /\ locker' = [pc |-> "visit", todo |-> locker.todo]
  /\ UNCHANGED <<pub, owner, events>>

\* Mutant: the lock is released on one path only.
LockerReturn_Leaks ==
  /\ locker.pc = "visit" /\ locker.todo = {} /\ subscriptions # {}
  /\ locker' = Idle
  /\ UNCHANGED <<subscriptions, subVars, pub, owner, events, panicked>>

LockerReturn ==
  /\ locker.pc = "visit" /\ locker.todo = {}
  /\ locker' = Idle
  /\ UNCHANGED <<subscriptions, subVars, pub, owner, events, panicked>>

-----------------------------------------------------------------------------
PublishStep(p) == Send(p) \/ PublishReturn(p) \/ \E s \in Subs : Visit(p, s)

LockerStep ==
  LockerCloseFlag \/ LockerCloseChannel \/ LockerReturn \/ \E s \in Subs : LockerCloseTest(s)

Next ==
  /\ panicked = {}
  /\ \/ \E p \in Publishers : PublishStep(p) \/ \E k \in Keys : Publish(p, k)
     \/ LockerStep \/ Shutdown
     \/ \E s \in Subs :
          \/ Subscribe(s) \/ Receive(s) \/ Unsubscribe(s)
          \/ OwnerCloseTest(s) \/ OwnerCloseFlag(s) \/ OwnerCloseChannel(s)

Spec == Init /\ [][Next]_vars

\* A goroutine that can run does; nothing is assumed of the subscribers.
Fairness ==
  /\ \A p \in Publishers : WF_vars(panicked = {} /\ PublishStep(p))
  /\ WF_vars(panicked = {} /\ LockerStep)

FairSpec == Spec /\ Fairness

-----------------------------------------------------------------------------
\* Properties

\* No goroutine sends on a closed channel or closes one again, at any
\* subscription whose owner leaves it to Unsubscribe and Shutdown to close it:
\* their lock keeps Publish away.  Only a Close of the owner's own, which takes
\* no lock, can make Publish, Unsubscribe, Shutdown or itself panic.
OnlyClosersPanic == \A s \in panicked : owner[s] \in {"close", "closeCh", "returned"}

\* The stream of a subscription that the broker has forgotten ends: its channel
\* is closed, or its owner is about to close it.
ForgottenIsClosed ==
  \A s \in Subs : owner[s] # "unborn" /\ s \notin subscriptions
                   => chClosed[s] \/ owner[s] = "closeCh"

\* "Non-blocking": every Publish returns, even if no subscriber ever receives.
PublishReturns ==
  \A p \in Publishers : pub[p] # Idle ~> pub[p] = Idle \/ panicked # {}

\* Unsubscribe and Shutdown return, and let publishers in again.
LockReleased == locker # Idle ~> locker = Idle \/ panicked # {}
==============================================================================
