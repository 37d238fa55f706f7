------------------------------ MODULE EventBus ------------------------------
(***************************************************************************)
(* The publish/subscribe bus every layer of SkyNetra reports through: the  *)
(* subscriber table, the dispatch cache beside it, and publications that   *)
(* nest, because a callback may subscribe, unsubscribe, clear or publish.  *)
(***************************************************************************)
EXTENDS Naturals, Sequences, FiniteSets

CONSTANTS
  Types,         \* the event classes
  Mro,           \* the __mro__ of each class, as a set
  Callbacks,     \* the function objects subscribed
  Priorities,
  MaxSeq,        \* a bound on the subscriptions between two calls of clear
  MaxDepth,      \* a bound on the nesting of publications
  MaxScheduled,  \* a bound on the pending publish_async of each class
  Idle           \* no callback is running

ASSUME ClassAssumption ==
  /\ Mro \in [Types -> SUBSET Types]
  /\ \A t \in Types : t \in Mro[t]
  /\ Priorities \subseteq Nat

VARIABLES
  subscribers,   \* the entries of _subscribers
  cache,         \* _dispatch_cache: the entries of each class it has
  seqCounter,    \* _seq_counter
  frames,        \* the publications in progress, the innermost first
  scheduled      \* the publish_async processes that have not published yet

vars == <<subscribers, cache, seqCounter, frames, scheduled>>

Entries == [type : Types, callback : Callbacks, priority : Priorities, seq : Nat]
Frames == [type : Types, todo : SUBSET Entries, running : Entries \cup {Idle}]

Init ==
  /\ subscribers = {}
  /\ cache = [t \in {} |-> {}]
  /\ seqCounter = 0
  /\ frames = <<>>
  /\ scheduled = [t \in Types |-> 0]

\* The entries registered on the class of an event or on a base of it.
Candidates(t) == {e \in subscribers : e.type \in Mro[t]}

\* candidates_list.sort: by priority, then by subscription.
Before(e, f) ==
  \/ e.priority < f.priority
  \/ e.priority = f.priority /\ e.seq < f.seq

\* Client code has control, outside of any callback or inside of one.
ClientRuns == frames # <<>> => Head(frames).running # Idle

ForgetCache == cache' = [t \in {} |-> {}]
-----------------------------------------------------------------------------
\* Fault: the lists of derived classes stay in the cache.
SubscribeForgettingOneClass(t, c, priority) ==
  /\ ClientRuns
  /\ seqCounter < MaxSeq
  /\ subscribers' = subscribers \cup
       {[type |-> t, callback |-> c, priority |-> priority, seq |-> seqCounter]}
  /\ seqCounter' = seqCounter + 1
  /\ cache' = [u \in DOMAIN cache \ {t} |-> cache[u]]
  /\ UNCHANGED <<frames, scheduled>>

\* Fault: entries are numbered by the size of the table.
SubscribeNumberedBySize(t, c, priority) ==
  /\ ClientRuns
  /\ Cardinality(subscribers) < MaxSeq
  /\ subscribers' = subscribers \cup
       {[type |-> t, callback |-> c, priority |-> priority, seq |-> Cardinality(subscribers)]}
  /\ ForgetCache
  /\ UNCHANGED <<seqCounter, frames, scheduled>>

Subscribe(t, c, priority) ==
  /\ ClientRuns
  /\ seqCounter < MaxSeq
  /\ subscribers' = subscribers \cup
       {[type |-> t, callback |-> c, priority |-> priority, seq |-> seqCounter]}
  /\ seqCounter' = seqCounter + 1
  /\ ForgetCache
  /\ UNCHANGED <<frames, scheduled>>

\* Fault: the cache outlives the entry.
UnsubscribeKeepingCache(t, c) ==
  /\ ClientRuns
  /\ \E e \in subscribers : e.type = t
  /\ subscribers' = {e \in subscribers : ~ (e.type = t /\ e.callback = c)}
  /\ UNCHANGED <<cache, seqCounter, frames, scheduled>>

\* Callbacks are compared by identity; an unknown one only empties the cache.
Unsubscribe(t, c) ==
  /\ ClientRuns
  /\ \E e \in subscribers : e.type = t
  /\ subscribers' = {e \in subscribers : ~ (e.type = t /\ e.callback = c)}
  /\ ForgetCache
  /\ UNCHANGED <<seqCounter, frames, scheduled>>

Clear ==
  /\ ClientRuns
  /\ subscribers' = {}
  /\ seqCounter' = 0
  /\ ForgetCache
  /\ UNCHANGED <<frames, scheduled>>

HasSubscribers(t) ==
  /\ subscribers # {}
  /\ IF t \in DOMAIN cache
     THEN cache[t] # {}
     ELSE \E k \in Mro[t] : \E e \in subscribers : e.type = k

\* publish: the list is taken from the cache, or put there.
Dispatch(t) ==
  LET candidates == IF t \in DOMAIN cache THEN cache[t] ELSE Candidates(t) IN
  /\ subscribers # {}
  /\ cache' = [u \in DOMAIN cache \cup {t} |-> IF u = t THEN candidates ELSE cache[u]]
  /\ frames' = <<[type |-> t, todo |-> candidates, running |-> Idle]>> \o frames
  /\ UNCHANGED <<subscribers, seqCounter>>

Publish(t) ==
  /\ ClientRuns
  /\ Len(frames) < MaxDepth
  /\ Dispatch(t)
  /\ UNCHANGED scheduled

\* The loop over the candidates works on the list it has, whatever becomes of
\* the table and of the cache.
Call ==
  /\ frames # <<>>
  /\ Head(frames).running = Idle
  /\ \E e \in Head(frames).todo :
       /\ \A f \in Head(frames).todo \ {e} : Before(e, f)
       /\ frames' = [frames EXCEPT ![1].running = e, ![1].todo = @ \ {e}]
  /\ UNCHANGED <<subscribers, cache, seqCounter, scheduled>>

\* The callback returns, or raises and is logged.
Return ==
  /\ frames # <<>>
  /\ Head(frames).running # Idle
  /\ frames' = [frames EXCEPT ![1].running = Idle]
  /\ UNCHANGED <<subscribers, cache, seqCounter, scheduled>>

EndPublish ==
  /\ frames # <<>>
  /\ Head(frames).running = Idle
  /\ Head(frames).todo = {}
  /\ frames' = Tail(frames)
  /\ UNCHANGED <<subscribers, cache, seqCounter, scheduled>>

\* publish_async starts a process; the event is published when it is resumed,
\* which is never inside of a callback.
PublishAsync(t) ==
  /\ ClientRuns
  /\ scheduled[t] < MaxScheduled
  /\ scheduled' = [scheduled EXCEPT ![t] = @ + 1]
  /\ UNCHANGED <<subscribers, cache, seqCounter, frames>>

\* Fault: the process publishes again each time it is resumed.
DelayedPublishAgain(t) ==
  /\ frames = <<>>
  /\ scheduled' = [scheduled EXCEPT ![t] = @ - 1]
  /\ IF subscribers = {}
     THEN UNCHANGED <<subscribers, cache, seqCounter, frames>>
     ELSE Dispatch(t)

DelayedPublish(t) ==
  /\ frames = <<>>
  /\ scheduled[t] > 0
  /\ scheduled' = [scheduled EXCEPT ![t] = @ - 1]
  /\ IF subscribers = {}
     THEN UNCHANGED <<subscribers, cache, seqCounter, frames>>
     ELSE Dispatch(t)

Next ==
  \/ \E t \in Types, c \in Callbacks, priority \in Priorities : Subscribe(t, c, priority)
  \/ \E t \in Types, c \in Callbacks : Unsubscribe(t, c)
  \/ Clear
  \/ \E t \in Types : Publish(t) \/ PublishAsync(t) \/ DelayedPublish(t)
  \/ Call \/ Return \/ EndPublish

Spec == Init /\ [][Next]_vars
-----------------------------------------------------------------------------
(* Properties. *)

\* Every variable keeps its type.
TypeOK ==
  /\ subscribers \in SUBSET Entries
  /\ DOMAIN cache \subseteq Types
  /\ \A t \in DOMAIN cache : cache[t] \in SUBSET Entries
  /\ seqCounter \in Nat
  /\ frames \in Seq(Frames)
  /\ scheduled \in [Types -> Nat]

\* A cached list is the one that would be computed from the table now.
CacheCoherent == \A t \in DOMAIN cache : cache[t] = Candidates(t)

\* has_subscribers tells whether a publication would notify anybody: the engine
\* builds an event only if it does, so a stale "no" would lose it.
QueryIsTruthful == \A t \in Types : HasSubscribers(t) <=> Candidates(t) # {}

\* A publication notifies the entries registered when it starts, those on base
\* classes included and those of an earlier table excluded, however often the
\* table has changed since the list was cached.
NotifiesTheRegistered ==
  [][Len(frames') > Len(frames)
       => frames'[1].todo = Candidates(frames'[1].type)]_vars

\* The order of a publication is never left to chance: no two entries of the
\* table, or of a list still being worked through, have the same rank.
OrderIsTotal ==
  /\ \A e, f \in subscribers : e # f => e.seq # f.seq
  /\ \A i \in DOMAIN frames :
       \A e, f \in frames[i].todo : e # f => e.seq # f.seq
=============================================================================
