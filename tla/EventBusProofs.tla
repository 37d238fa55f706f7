--------------------------- MODULE EventBusProofs ---------------------------
(***************************************************************************)
(* The invariant of the event bus behind its cache: a cached list is what  *)
(* the table would give now, and an entry's number is below the counter.   *)
(***************************************************************************)
EXTENDS EventBus, TLAPS

NumbersAreUsed == \A e \in subscribers : e.seq < seqCounter

IInv == TypeOK /\ CacheCoherent /\ NumbersAreUsed /\ OrderIsTotal

TableUnchanged == UNCHANGED <<subscribers, cache, seqCounter>>

LEMMA InitInv == Init => IInv
BY ClassAssumption
   DEF Init, IInv, TypeOK, CacheCoherent, NumbersAreUsed, OrderIsTotal

\* What a publication starts from is the list of the table.
LEMMA DispatchList ==
  ASSUME CacheCoherent, NEW t \in Types, Dispatch(t)
  PROVE  /\ frames' = <<[type |-> t, todo |-> Candidates(t), running |-> Idle]>> \o frames
         /\ DOMAIN cache' = DOMAIN cache \cup {t}
         /\ \A u \in DOMAIN cache' : cache'[u] = Candidates(u)
         /\ UNCHANGED <<subscribers, seqCounter>>
BY DEF CacheCoherent, Dispatch

\* Subscribe, Unsubscribe and Clear leave every list in progress alone.
LEMMA SubscribeInv ==
  ASSUME IInv, NEW t \in Types, NEW c \in Callbacks, NEW priority \in Priorities,
         Subscribe(t, c, priority)
  PROVE  IInv'
<1> DEFINE new == [type |-> t, callback |-> c, priority |-> priority, seq |-> seqCounter]
<1>1. new \in Entries /\ new.seq = seqCounter
  BY DEF IInv, TypeOK, Entries
<1>2. TypeOK'
  BY <1>1 DEF IInv, TypeOK, Subscribe, ForgetCache
<1>3. CacheCoherent'
  BY DEF CacheCoherent, Subscribe, ForgetCache
<1>4. NumbersAreUsed'
  <2>1. \A e \in subscribers : e.seq \in Nat
    BY DEF IInv, TypeOK, Entries
  <2>2. QED
    BY <1>1, <2>1 DEF IInv, TypeOK, NumbersAreUsed, Subscribe
<1>5. OrderIsTotal'
  <2>1. \A e \in subscribers : e.seq # seqCounter
    BY DEF IInv, TypeOK, NumbersAreUsed, Entries
  <2>2. QED
    BY <1>1, <2>1 DEF IInv, OrderIsTotal, Subscribe
<1>6. QED
  BY <1>2, <1>3, <1>4, <1>5 DEF IInv

LEMMA RemovalInv ==
  ASSUME IInv, subscribers' \subseteq subscribers, ForgetCache,
         UNCHANGED <<frames, scheduled>>,
         \/ seqCounter' = seqCounter
         \/ subscribers' = {} /\ seqCounter' = 0
  PROVE  IInv'
BY DEF IInv, TypeOK, CacheCoherent, NumbersAreUsed, OrderIsTotal, ForgetCache

LEMMA DispatchInv ==
  ASSUME IInv, NEW t \in Types, Dispatch(t), scheduled' \in [Types -> Nat]
  PROVE  IInv'
<1> DEFINE frame == [type |-> t, todo |-> Candidates(t), running |-> Idle]
<1>1. /\ frames' = <<frame>> \o frames
      /\ DOMAIN cache' = DOMAIN cache \cup {t}
      /\ \A u \in DOMAIN cache' : cache'[u] = Candidates(u)
      /\ UNCHANGED <<subscribers, seqCounter>>
  BY DispatchList DEF IInv
<1>2. Candidates(t) \subseteq subscribers /\ subscribers \subseteq Entries
  BY DEF IInv, TypeOK, Candidates
<1>3. frame \in Frames /\ frame.todo = Candidates(t)
  BY <1>2 DEF Frames
<1>4. frames \in Seq(Frames)
  BY DEF IInv, TypeOK
<1>5. /\ frames' \in Seq(Frames)
      /\ \A i \in DOMAIN frames' :
           frames'[i] = IF i = 1 THEN frame ELSE frames[i - 1]
      /\ \A i \in DOMAIN frames' : i # 1 => i - 1 \in DOMAIN frames
  BY <1>1, <1>3, <1>4
<1>6. \A u : Candidates(u)' = Candidates(u)
  BY <1>1 DEF Candidates
<1>7. TypeOK'
  <2>1. \A u \in DOMAIN cache' : cache'[u] \in SUBSET Entries
    BY <1>1, <1>2 DEF Candidates
  <2>2. QED
    BY <1>1, <1>5, <2>1 DEF IInv, TypeOK
<1>8. CacheCoherent'
  BY <1>1, <1>6 DEF CacheCoherent
<1>9. NumbersAreUsed'
  BY <1>1 DEF IInv, NumbersAreUsed
<1>10. OrderIsTotal'
  <2>1. \A e, f \in Candidates(t) : e # f => e.seq # f.seq
    BY <1>2 DEF IInv, OrderIsTotal
  <2>2. ASSUME NEW i \in DOMAIN frames', NEW e \in frames'[i].todo,
               NEW f \in frames'[i].todo, e # f
        PROVE  e.seq # f.seq
    <3>1. CASE i = 1
      BY <1>3, <1>5, <2>1, <2>2, <3>1
    <3>2. CASE i # 1
      BY <1>5, <2>2, <3>2 DEF IInv, OrderIsTotal
    <3>3. QED
      BY <3>1, <3>2
  <2>3. QED
    BY <1>1, <2>2 DEF IInv, OrderIsTotal
<1>11. QED
  BY <1>7, <1>8, <1>9, <1>10 DEF IInv

\* Working through a list only shortens it.
LEMMA WorkingShortens ==
  ASSUME IInv, Call \/ Return
  PROVE  /\ frames' \in Seq(Frames) /\ DOMAIN frames' = DOMAIN frames
         /\ \A i \in DOMAIN frames : frames'[i].todo \subseteq frames[i].todo
         /\ TableUnchanged /\ UNCHANGED scheduled
<1>1. /\ frames \in Seq(Frames) /\ frames # <<>> /\ Head(frames) = frames[1]
      /\ TableUnchanged /\ UNCHANGED scheduled
  BY DEF IInv, TypeOK, Call, Return, TableUnchanged
<1>2. 1 \in DOMAIN frames /\ frames[1] \in Frames
  BY <1>1
<1>3. PICK top \in Frames : /\ frames' = [frames EXCEPT ![1] = top]
                            /\ top.todo \subseteq frames[1].todo
  <2>1. CASE Call
    <3>1. PICK e \in Head(frames).todo :
            frames' = [frames EXCEPT ![1].running = e, ![1].todo = @ \ {e}]
      BY <2>1 DEF Call
    <3> DEFINE top == [frames[1] EXCEPT !.running = e, !.todo = @ \ {e}]
    <3>2. e \in Entries
      BY <1>1, <1>2, <3>1 DEF Frames
    <3>3. top \in Frames /\ top.todo \subseteq frames[1].todo
      BY <1>2, <3>2 DEF Frames
    <3>4. frames' = [frames EXCEPT ![1] = top]
      BY <1>2, <3>1
    <3>5. QED
      BY <3>3, <3>4
  <2>2. CASE Return
    <3> DEFINE top == [frames[1] EXCEPT !.running = Idle]
    <3>1. top \in Frames /\ top.todo \subseteq frames[1].todo
      BY <1>2 DEF Frames
    <3>2. frames' = [frames EXCEPT ![1] = top]
      BY <1>2, <2>2 DEF Return
    <3>3. QED
      BY <3>1, <3>2
  <2>3. QED
    BY <2>1, <2>2
<1>4. QED
  BY <1>1, <1>2, <1>3

LEMMA WorkingInv ==
  ASSUME IInv, Call \/ Return
  PROVE  IInv'
BY WorkingShortens
   DEF IInv, TypeOK, CacheCoherent, NumbersAreUsed, OrderIsTotal, Candidates, TableUnchanged

LEMMA EndPublishInv == IInv /\ EndPublish => IInv'
<1> SUFFICES ASSUME IInv, EndPublish PROVE IInv'
  OBVIOUS
<1>1. /\ frames \in Seq(Frames) /\ frames # <<>> /\ frames' = Tail(frames)
      /\ TableUnchanged /\ UNCHANGED scheduled
  BY DEF IInv, TypeOK, EndPublish, TableUnchanged
<1>2. /\ frames' \in Seq(Frames)
      /\ \A i \in DOMAIN frames' : i + 1 \in DOMAIN frames /\ frames'[i] = frames[i + 1]
  BY <1>1
<1>3. QED
  BY <1>1, <1>2
     DEF IInv, TypeOK, CacheCoherent, NumbersAreUsed, OrderIsTotal, Candidates, TableUnchanged

LEMMA NextInv == IInv /\ [Next]_vars => IInv'
<1> SUFFICES ASSUME IInv, [Next]_vars PROVE IInv'
  OBVIOUS
<1>1. ASSUME NEW t \in Types, NEW c \in Callbacks, NEW priority \in Priorities,
             Subscribe(t, c, priority)
      PROVE  IInv'
  BY <1>1, SubscribeInv
<1>2. ASSUME NEW t \in Types, NEW c \in Callbacks, Unsubscribe(t, c)
      PROVE  IInv'
  BY <1>2, RemovalInv DEF Unsubscribe
<1>3. CASE Clear
  BY <1>3, RemovalInv DEF Clear
<1>4. ASSUME NEW t \in Types, Publish(t)
      PROVE  IInv'
  <2>1. scheduled' \in [Types -> Nat]
    BY <1>4 DEF IInv, TypeOK, Publish
  <2>2. QED
    BY <1>4, <2>1, DispatchInv DEF Publish
<1>5. ASSUME NEW t \in Types, PublishAsync(t)
      PROVE  IInv'
  <2>1. scheduled' \in [Types -> Nat]
    BY <1>5 DEF IInv, TypeOK, PublishAsync
  <2>2. QED
    BY <1>5, <2>1
       DEF IInv, TypeOK, CacheCoherent, NumbersAreUsed, OrderIsTotal, Candidates, PublishAsync
<1>6. ASSUME NEW t \in Types, DelayedPublish(t)
      PROVE  IInv'
  <2>1. scheduled' \in [Types -> Nat]
    BY <1>6 DEF IInv, TypeOK, DelayedPublish
  <2>2. CASE subscribers = {}
    BY <1>6, <2>1, <2>2
       DEF IInv, TypeOK, CacheCoherent, NumbersAreUsed, OrderIsTotal, Candidates, DelayedPublish
  <2>3. CASE subscribers # {}
    BY <1>6, <2>1, <2>3, DispatchInv DEF DelayedPublish
  <2>4. QED
    BY <2>2, <2>3
<1>7. CASE UNCHANGED vars
  BY <1>7
     DEF vars, IInv, TypeOK, CacheCoherent, NumbersAreUsed, OrderIsTotal, Candidates
<1>8. QED
  BY <1>1, <1>2, <1>3, <1>4, <1>5, <1>6, <1>7, WorkingInv, EndPublishInv DEF Next

THEOREM Invariance == Spec => []IInv
BY InitInv, NextInv, PTL DEF Spec

\* Whatever subscribes, unsubscribes and publishes, from callbacks too, the table,
\* the cache and the publications under way keep their types.
THEOREM TypeCorrect == Spec => []TypeOK
<1>1. IInv => TypeOK
  BY DEF IInv
<1>2. QED
  BY Invariance, <1>1, PTL

\* has_subscribers answers for the table, cached or not.
THEOREM QueriesAreTruthful == Spec => []QueryIsTruthful
<1>1. IInv => QueryIsTruthful
  <2> SUFFICES ASSUME IInv, NEW t \in Types
               PROVE  HasSubscribers(t) <=> Candidates(t) # {}
    BY DEF QueryIsTruthful
  <2>1. CASE t \in DOMAIN cache
    BY <2>1 DEF IInv, CacheCoherent, HasSubscribers, Candidates
  <2>2. CASE t \notin DOMAIN cache
    BY <2>2 DEF HasSubscribers, Candidates
  <2>3. QED
    BY <2>1, <2>2
<1>2. QED
  BY Invariance, <1>1, PTL

\* Two entries that compete for a place in a publication never have the same rank.
THEOREM OrderIsDetermined == Spec => []OrderIsTotal
<1>1. IInv => OrderIsTotal
  BY DEF IInv
<1>2. QED
  BY Invariance, <1>1, PTL

\* A publication starts from what the table holds, whatever the cache has seen.
THEOREM RegisteredAreNotified == Spec => NotifiesTheRegistered
<1> DEFINE Right == Len(frames') > Len(frames)
                      => frames'[1].todo = Candidates(frames'[1].type)
<1>1. IInv /\ [Next]_vars => [Right]_vars
  <2> SUFFICES ASSUME IInv, Next PROVE Right
    OBVIOUS
  <2>1. ASSUME NEW t \in Types, Dispatch(t)
        PROVE  Right
    <3> DEFINE frame == [type |-> t, todo |-> Candidates(t), running |-> Idle]
    <3>1. frames' = <<frame>> \o frames
      BY <2>1, DispatchList DEF IInv
    <3>2. frames \in Seq(Frames) /\ frame.type = t /\ frame.todo = Candidates(t)
      BY DEF IInv, TypeOK
    <3> HIDE DEF frame
    <3>3. frames'[1] = frame
      BY <3>1, <3>2
    <3>4. QED
      BY <3>2, <3>3
  <2>2. CASE Call \/ Return \/ EndPublish
    <3>1. frames \in Seq(Frames) /\ frames # <<>>
      BY <2>2 DEF IInv, TypeOK, Call, Return, EndPublish
    <3>2. Len(frames') <= Len(frames)
      <4>1. CASE Call \/ Return
        BY <4>1, <3>1, WorkingShortens
      <4>2. CASE EndPublish
        <5>1. frames' = Tail(frames)
          BY <4>2 DEF EndPublish
        <5>2. QED
          BY <3>1, <5>1
      <4>3. QED
        BY <2>2, <4>1, <4>2
    <3>3. QED
      BY <3>1, <3>2
  <2>3. CASE UNCHANGED frames
    BY <2>3 DEF IInv, TypeOK
  <2>4. QED
    BY <2>1, <2>2, <2>3
       DEF Next, Subscribe, Unsubscribe, Clear, Publish, PublishAsync, DelayedPublish
<1>2. QED
  BY Invariance, <1>1, PTL DEF Spec, NotifiesTheRegistered
=============================================================================
