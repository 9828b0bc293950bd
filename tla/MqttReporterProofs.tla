------------------------- MODULE MqttReporterProofs -------------------------
(***************************************************************************)
(* Theorems about MqttReporter for every set of meters and items, every    *)
(* queue length and every bound.                                           *)
(***************************************************************************)
EXTENDS MqttReporter, NatRecursion, SequenceTheorems, TLAPS

(***************************************************************************)
(* Sequences that gain a last element or lose their first.                 *)
(***************************************************************************)
\* The element added by Append is the only new one.
LEMMA AppendElements ==
  ASSUME NEW S, NEW s \in Seq(S), NEW x \in S
  PROVE  /\ Append(s, x) \in Seq(S)
         /\ Len(Append(s, x)) = Len(s) + 1
         /\ \A i \in 1..Len(Append(s, x)) :
              Append(s, x)[i] = IF i <= Len(s) THEN s[i] ELSE x
  OBVIOUS

\* Taking the head shifts the others and keeps each of them.
LEMMA TailElements ==
  ASSUME NEW S, NEW s \in Seq(S), s # <<>>
  PROVE  /\ Head(s) \in S
         /\ Head(s) = s[1]
         /\ Len(s) \in Nat \ {0}
         /\ Tail(s) \in Seq(S)
         /\ Len(Tail(s)) = Len(s) - 1
         /\ \A i \in 1..Len(Tail(s)) : i + 1 \in 1..Len(s) /\ Tail(s)[i] = s[i + 1]
  OBVIOUS

\* An optional element that is present is an element.
LEMMA OptionalElement ==
  ASSUME NEW S, NEW o \in Optional(S), o # <<>>
  PROVE  o[1] \in S
  BY DEF Optional

LEMMA OptionalOne ==
  ASSUME NEW S, NEW x \in S
  PROVE  <<x>> \in Optional(S) /\ <<>> \in Optional(S)
  BY DEF Optional

(***************************************************************************)
(* Type correctness.                                                       *)
(***************************************************************************)
\* The messages the actions build are messages.
LEMMA ReportTyped ==
  ASSUME NEW keys \in SUBSET Key, NEW ver \in 0..MaxReports
  PROVE  ReportOf(keys, ver) \in Message
  BY BoundsAssumption DEF ReportOf, Message

LEMMA AnswerTyped ==
  ASSUME TypeOK, NEW q \in Query, q.key # Malformed
  PROVE  AnswerTo(q) \in Message
  BY DEF TypeOK, AnswerTo, Message, Query

\* The parts of the type invariant that belong to the Paho session.
SessionTyped ==
  /\ client \in {"none", "up", "lost"}
  /\ subscribed \in BOOLEAN
  /\ inbox \in Seq(Query)
  /\ inflight \in Seq(Message)

LEMMA PublishNowTyped ==
  ASSUME TypeOK, NEW m \in Message, PublishNow(m)
  PROVE  SessionTyped'
<1>1. CASE /\ client = "up"
           /\ inflight' = Append(inflight, m)
           /\ UNCHANGED <<client, subscribed, inbox>>
  BY <1>1 DEF TypeOK, SessionTyped
<1>2. CASE NewSession(<<m>>)
  BY <1>2, EmptySeq DEF NewSession, SessionTyped
<1>3. CASE NoSession
  BY <1>3, EmptySeq DEF NoSession, SessionTyped
<1> QED  BY <1>1, <1>2, <1>3 DEF PublishNow

LEMMA EnqueueTyped ==
  ASSUME TypeOK, NEW m \in Message, Enqueue(m)
  PROVE  queue' \in Seq(Message) /\ Len(queue') <= MaxQueue
<1>1. CASE Len(queue) < MaxQueue /\ queue' = Append(queue, m)
  <2>1. queue \in Seq(Message) /\ Len(queue) \in Nat
    BY LenProperties DEF TypeOK
  <2>2. queue' \in Seq(Message) /\ Len(queue') = Len(queue) + 1
    BY <1>1, <2>1, AppendElements
  <2> QED  BY <1>1, <2>1, <2>2, MaxQueueAssumption
<1>2. CASE UNCHANGED queue
  BY <1>2 DEF TypeOK
<1> QED  BY <1>1, <1>2 DEF Enqueue

LEMMA ReceiveTyped ==
  ASSUME TypeOK, wpc \in {"poll", "idle"},
         NEW onward, NEW answering, Receive(onward, answering)
  PROVE  /\ inbox' \in Seq(Query)
         /\ reply' \in Optional(Message)
         /\ wpc' = onward \/ (wpc' = answering /\ reply' # <<>>)
<1>1. CASE /\ wpc' = onward
           /\ UNCHANGED <<reply, inbox>>
  BY <1>1 DEF TypeOK
<1>2. CASE /\ inbox # <<>>
           /\ inbox' = Tail(inbox)
           /\ wpc' = onward
           /\ UNCHANGED reply
  BY <1>2 DEF TypeOK
<1>3. CASE /\ inbox # <<>>
           /\ Head(inbox).key # Malformed
           /\ inbox' = Tail(inbox)
           /\ reply' = <<AnswerTo(Head(inbox))>>
           /\ wpc' = answering
  <2>1. Head(inbox) \in Query /\ Tail(inbox) \in Seq(Query)
    BY <1>3, TailElements DEF TypeOK
  <2>2. AnswerTo(Head(inbox)) \in Message
    BY <1>3, <2>1, AnswerTyped
  <2> QED  BY <1>3, <2>1, <2>2, OptionalOne
<1> QED  BY <1>1, <1>2, <1>3 DEF Receive

LEMMA LearntTyped ==
  ASSUME TypeOK, NEW m \in Message
  PROVE  Learnt(m) \in [Key -> 0..MaxReports]
  BY DEF TypeOK, Learnt, Message

LEMMA RefreshedTyped ==
  ASSUME TypeOK, NEW keys, NEW ver \in 0..MaxReports
  PROVE  Refreshed(keys, ver) \in [Key -> 0..MaxReports]
  BY DEF TypeOK, Refreshed

\* Every step of the reporter preserves the type invariant.
LEMMA TypeStep == TypeOK /\ [Next]_vars => TypeOK'
<1> SUFFICES ASSUME TypeOK, [Next]_vars
             PROVE  TypeOK'
  OBVIOUS
<1> USE DEF Control
<1>1. ASSUME NEW m \in Meter, ReportBatch(m)
      PROVE  TypeOK'
  <2> DEFINE msg == ReportOf({m} \X Di, issued + 1)
  <2>1. issued + 1 \in 0..MaxReports /\ {m} \X Di \in SUBSET Key
    BY <1>1, BoundsAssumption DEF TypeOK, ReportBatch, Key
  <2>2. msg \in Message /\ msg.ver \in 0..MaxReports
    BY <2>1, ReportTyped DEF Message
  <2>3. queue' \in Seq(Message) /\ Len(queue') <= MaxQueue
    BY <1>1, <2>2, EnqueueTyped DEF ReportBatch
  <2>4. cache' \in [Key -> 0..MaxReports] /\ known' \in [Key -> 0..MaxReports]
    BY <1>1, <2>2, LearntTyped, RefreshedTyped DEF ReportBatch
  <2> QED  BY <1>1, <2>1, <2>3, <2>4
           DEF TypeOK, ReportBatch, worker, session
<1>2. ASSUME NEW k \in Key, Report(k)
      PROVE  TypeOK'
  <2> DEFINE msg == ReportOf({k}, issued + 1)
  <2>1. issued + 1 \in 0..MaxReports
    BY <1>2, BoundsAssumption DEF TypeOK, Report
  <2>2. msg \in Message /\ msg.ver \in 0..MaxReports
    BY <2>1, ReportTyped DEF Message
  <2>3. cache' \in [Key -> 0..MaxReports]
    BY <1>2, <2>2, RefreshedTyped DEF Report
  <2>4. draft' \in Optional(Message) /\ draft' # <<>>
    BY <1>2, <2>2, OptionalOne DEF Report
  <2> QED  BY <1>2, <2>1, <2>3, <2>4 DEF TypeOK, Report, worker, session, outside
<1>3. CASE ReportEnqueue
  <2>1. draft[1] \in Message
    BY <1>3, OptionalElement DEF TypeOK, ReportEnqueue
  <2>2. queue' \in Seq(Message) /\ Len(queue') <= MaxQueue
    BY <1>3, <2>1, EnqueueTyped DEF ReportEnqueue
  <2>3. known' \in [Key -> 0..MaxReports]
    BY <1>3, <2>1, LearntTyped DEF ReportEnqueue
  <2>4. draft' \in Optional(Message)
    BY <1>3 DEF ReportEnqueue, Optional
  <2> QED  BY <1>3, <2>2, <2>3, <2>4 DEF TypeOK, ReportEnqueue, worker, session
<1>4. CASE Destroy
  BY <1>4 DEF TypeOK, Destroy, worker, session, outside
<1>5. CASE Join
  BY <1>5 DEF TypeOK, Join, worker, session, outside
<1>6. CASE WorkerTake
  <2>1. job' \in Optional(Message) /\ queue' \in Seq(Message) /\ Len(queue') <= MaxQueue
    <3>1. CASE queue # <<>> /\ job' = <<Head(queue)>> /\ queue' = Tail(queue)
      BY <3>1, TailElements, OptionalOne, MaxQueueAssumption DEF TypeOK
    <3>2. CASE UNCHANGED <<job, queue>>
      BY <3>2 DEF TypeOK
    <3> QED  BY <1>6, <3>1, <3>2 DEF WorkerTake
  <2> QED  BY <1>6, <2>1 DEF TypeOK, WorkerTake, session, outside
<1>7. CASE WorkerExit
  BY <1>7 DEF TypeOK, WorkerExit, reporter, session, outside
<1>8. CASE WorkerClose
  BY <1>8, EmptySeq DEF TypeOK, WorkerClose, NoSession, reporter, outside
<1>9. CASE WorkerOpen
  <2>1. SessionTyped' /\ job' \in Optional(Message) /\ wpc' \in {"poll", "take"}
    BY <1>9, EmptySeq
       DEF TypeOK, WorkerOpen, SessionTyped, NewSession, NoSession, Optional, session
  <2> QED  BY <1>9, <2>1 DEF TypeOK, WorkerOpen, SessionTyped, reporter, outside
<1>10. CASE WorkerPoll
  <2> DEFINE onward == IF job # <<>> THEN "publish" ELSE "idle"
  <2>1. /\ inbox' \in Seq(Query)
        /\ reply' \in Optional(Message)
        /\ wpc' = onward \/ (wpc' = "replyPoll" /\ reply' # <<>>)
    BY <1>10, ReceiveTyped DEF WorkerPoll
  <2> QED  BY <1>10, <2>1 DEF TypeOK, WorkerPoll, reporter, outside
<1>11. CASE WorkerIdle
  <2>1. /\ inbox' \in Seq(Query)
        /\ reply' \in Optional(Message)
        /\ wpc' = "take" \/ (wpc' = "replyIdle" /\ reply' # <<>>)
    BY <1>11, ReceiveTyped DEF WorkerIdle
  <2> QED  BY <1>11, <2>1 DEF TypeOK, WorkerIdle, reporter, outside
<1>12. CASE WorkerAnswer
  <2>1. SessionTyped'
    BY <1>12, OptionalElement, PublishNowTyped DEF TypeOK, WorkerAnswer
  <2>2. reply' \in Optional(Message)
    BY <1>12 DEF WorkerAnswer, Optional
  <2> QED  BY <1>12, <2>1, <2>2 DEF TypeOK, WorkerAnswer, SessionTyped, reporter, outside
<1>13. CASE WorkerPublish
  <2>1. SessionTyped'
    BY <1>13, OptionalElement, PublishNowTyped DEF TypeOK, WorkerPublish
  <2>2. job' \in Optional(Message)
    BY <1>13 DEF WorkerPublish, Optional
  <2> QED  BY <1>13, <2>1, <2>2 DEF TypeOK, WorkerPublish, SessionTyped, reporter, outside
<1>14. CASE Deliver
  <2>1. Head(inflight) \in Message /\ Tail(inflight) \in Seq(Message)
    BY <1>14, TailElements DEF TypeOK, Deliver
  <2>2. arrived' \in Seq(Message) /\ known' \in [Key -> 0..MaxReports]
    BY <1>14, <2>1, LearntTyped DEF TypeOK, Deliver
  <2> QED  BY <1>14, <2>1, <2>2 DEF TypeOK, Deliver, reporter, worker
<1>15. CASE LinkLost
  BY <1>15, EmptySeq DEF TypeOK, LinkLost, reporter, worker, outside
<1>16. ASSUME NEW k \in Key \cup {Malformed}, UserQuery(k)
       PROVE  TypeOK'
  <2> DEFINE q == [key |-> k, seen |-> IF k \in Key THEN known[k] ELSE 0]
  <2>1. q \in Query
    BY <1>16, BoundsAssumption DEF TypeOK, Query
  <2>2. inbox' \in Seq(Query) /\ asked' \in 0..MaxQueries
    BY <1>16, <2>1, BoundsAssumption DEF TypeOK, UserQuery
  <2> QED  BY <1>16, <2>2 DEF TypeOK, UserQuery, reporter, worker
<1>17. CASE UNCHANGED vars
  BY <1>17 DEF TypeOK, vars, reporter, worker, session, outside
<1> QED
  BY <1>1, <1>2, <1>3, <1>4, <1>5, <1>6, <1>7, <1>8, <1>9, <1>10, <1>11,
     <1>12, <1>13, <1>14, <1>15, <1>16, <1>17
  DEF Next, Caller, Worker, Environment, Terminated

\* The reporter's state always has its type: the queue never exceeds
\* max_queue, and a message is held wherever the code dereferences one.
THEOREM TypeCorrect == Spec => []TypeOK
<1>1. Init => TypeOK
  <2>1. /\ <<>> \in Seq(Message) /\ <<>> \in Seq(Query)
        /\ Len(<<>>) <= MaxQueue
        /\ 0 \in 0..MaxReports /\ 0 \in 0..MaxQueries
    BY EmptySeq, MaxQueueAssumption, BoundsAssumption
  <2>2. <<>> \in Optional(Message)
    BY DEF Optional
  <2> QED  BY <2>1, <2>2 DEF Init, TypeOK, Control
<1> QED  BY <1>1, TypeStep, PTL DEF Spec

(***************************************************************************)
(* Answers are fresh.  The invariant follows a number wherever it goes:    *)
(* the cache of a key is at least as new as every message about the key    *)
(* that the gateway holds or the network carries, hence at least as new as *)
(* what anyone has learnt, hence at least as new as what a query waiting   *)
(* in the inbox was sent with.                                             *)
(***************************************************************************)
Backed(m, c) ==
  /\ m.ver >= m.seen
  /\ \A k \in m.keys : m.ver <= c[k]

AllBacked(s, c) == \A i \in 1..Len(s) : Backed(s[i], c)

Askable(s, c) ==
  \A i \in 1..Len(s) : s[i].key # Malformed => s[i].seen <= c[s[i].key]

FreshInv ==
  /\ \A k \in Key : known[k] <= cache[k] /\ cache[k] <= issued
  /\ AllBacked(queue, cache)
  /\ AllBacked(draft, cache)
  /\ AllBacked(job, cache)
  /\ AllBacked(reply, cache)
  /\ AllBacked(inflight, cache)
  /\ Askable(inbox, cache)
  /\ AnswerFresh

Versioned == [Key -> 0..MaxReports]

\* A message stays backed while the cache only grows.
LEMMA BackedGrows ==
  ASSUME NEW c \in Versioned, NEW d \in Versioned,
         \A k \in Key : c[k] <= d[k],
         NEW m \in Message, Backed(m, c)
  PROVE  Backed(m, d)
<1> SUFFICES ASSUME NEW k \in m.keys
             PROVE  m.ver <= d[k]
  BY DEF Backed
<1>1. k \in Key /\ m.ver \in Nat
  BY BoundsAssumption DEF Message
<1>2. c[k] \in Nat /\ d[k] \in Nat
  BY <1>1, BoundsAssumption DEF Versioned
<1> QED  BY <1>1, <1>2 DEF Backed

LEMMA AllBackedGrows ==
  ASSUME NEW c \in Versioned, NEW d \in Versioned,
         \A k \in Key : c[k] <= d[k],
         NEW s \in Seq(Message), AllBacked(s, c)
  PROVE  AllBacked(s, d)
  BY BackedGrows DEF AllBacked

LEMMA BackedAppend ==
  ASSUME NEW c, NEW s \in Seq(Message), NEW m \in Message,
         AllBacked(s, c), Backed(m, c)
  PROVE  AllBacked(Append(s, m), c)
  BY AppendElements DEF AllBacked

LEMMA BackedTail ==
  ASSUME NEW c, NEW s \in Seq(Message), s # <<>>, AllBacked(s, c)
  PROVE  AllBacked(Tail(s), c) /\ Backed(Head(s), c)
  BY TailElements DEF AllBacked

\* For the places that hold at most one message.
LEMMA BackedOne ==
  ASSUME NEW c, NEW m, Backed(m, c)
  PROVE  AllBacked(<<m>>, c)
  BY DEF AllBacked

LEMMA BackedNone == ASSUME NEW c PROVE AllBacked(<<>>, c) /\ Askable(<<>>, c)
  BY DEF AllBacked, Askable

LEMMA BackedHeld ==
  ASSUME NEW c, NEW o \in Optional(Message), o # <<>>, AllBacked(o, c)
  PROVE  Backed(o[1], c) /\ o[1] \in Message
  BY DEF Optional, AllBacked

LEMMA OptionalIsSeq == ASSUME NEW S PROVE Optional(S) \subseteq Seq(S)
<1> SUFFICES ASSUME NEW o \in Optional(S)
             PROVE  o \in Seq(S)
  OBVIOUS
<1>1. ASSUME NEW x \in S
      PROVE  <<x>> \in Seq(S)
  OBVIOUS
<1> QED  BY <1>1, EmptySeq DEF Optional

\* What a query was sent with stays behind a cache that only grows.
LEMMA AskableGrows ==
  ASSUME NEW c \in Versioned, NEW d \in Versioned,
         \A k \in Key : c[k] <= d[k],
         NEW s \in Seq(Query), Askable(s, c)
  PROVE  Askable(s, d)
<1> SUFFICES ASSUME NEW i \in 1..Len(s), s[i].key # Malformed
             PROVE  s[i].seen <= d[s[i].key]
  BY DEF Askable
<1>1. s[i] \in Query
  BY ElementOfSeq
<1>2. s[i].key \in Key /\ s[i].seen \in Nat
  BY <1>1, BoundsAssumption DEF Query
<1>3. c[s[i].key] \in Nat /\ d[s[i].key] \in Nat
  BY <1>2, BoundsAssumption DEF Versioned
<1> QED  BY <1>2, <1>3 DEF Askable

LEMMA AskableTail ==
  ASSUME NEW c, NEW s \in Seq(Query), s # <<>>, Askable(s, c)
  PROVE  Askable(Tail(s), c)
  BY TailElements DEF Askable

\* A report keeps every message backed: the cache it refreshes grows.
LEMMA ReportKeepsBacked ==
  ASSUME TypeOK, FreshInv,
         NEW keys \in SUBSET Key, issued < MaxReports,
         issued' = issued + 1, cache' = Refreshed(keys, issued + 1)
  PROVE  /\ cache \in Versioned /\ cache' \in Versioned
         /\ \A k \in Key : cache[k] <= cache'[k] /\ cache'[k] <= issued'
         /\ Backed(ReportOf(keys, issued + 1), cache')
         /\ AllBacked(queue, cache') /\ AllBacked(job, cache')
         /\ AllBacked(reply, cache') /\ AllBacked(inflight, cache')
         /\ Askable(inbox, cache')
<1>1. issued \in Nat /\ issued + 1 \in 0..MaxReports
  BY BoundsAssumption DEF TypeOK
<1>2. cache \in Versioned /\ cache' \in Versioned
  BY <1>1, RefreshedTyped DEF TypeOK, Versioned
<1>3. \A k \in Key : cache[k] <= issued /\ cache[k] \in Nat
  BY BoundsAssumption DEF TypeOK, FreshInv
<1>4. \A k \in Key : cache[k] <= cache'[k] /\ cache'[k] <= issued'
  BY <1>1, <1>3 DEF Refreshed
<1>5. Backed(ReportOf(keys, issued + 1), cache')
  BY <1>1 DEF Backed, ReportOf, Refreshed
<1>6. queue \in Seq(Message) /\ job \in Seq(Message) /\ reply \in Seq(Message)
      /\ inflight \in Seq(Message) /\ inbox \in Seq(Query)
  BY OptionalIsSeq DEF TypeOK
<1>7. AllBacked(queue, cache') /\ AllBacked(job, cache')
      /\ AllBacked(reply, cache') /\ AllBacked(inflight, cache')
  BY <1>2, <1>4, <1>6, AllBackedGrows DEF FreshInv
<1>8. Askable(inbox, cache')
  BY <1>2, <1>4, <1>6, AskableGrows DEF FreshInv
<1> QED  BY <1>2, <1>4, <1>5, <1>7, <1>8

\* What is learnt from a backed message is in the cache.
LEMMA LearntBacked ==
  ASSUME NEW c, NEW m, Backed(m, c), \A k \in Key : known[k] <= c[k]
  PROVE  \A k \in Key : Learnt(m)[k] <= c[k]
  BY DEF Learnt, Backed

LEMMA EnqueueBacked ==
  ASSUME TypeOK, NEW c, NEW m \in Message, Backed(m, c), AllBacked(queue, c), Enqueue(m)
  PROVE  AllBacked(queue', c)
  BY BackedAppend DEF TypeOK, Enqueue

LEMMA PublishNowBacked ==
  ASSUME TypeOK, FreshInv, NEW m \in Message, Backed(m, cache), PublishNow(m)
  PROVE  AllBacked(inflight', cache) /\ Askable(inbox', cache)
<1>1. CASE inflight' = Append(inflight, m) /\ UNCHANGED <<client, subscribed, inbox>>
  BY <1>1, BackedAppend DEF TypeOK, FreshInv
<1>2. CASE NewSession(<<m>>)
  BY <1>2, BackedOne, BackedNone DEF NewSession
<1>3. CASE NoSession
  BY <1>3, BackedNone DEF NoSession
<1> QED  BY <1>1, <1>2, <1>3 DEF PublishNow

\* The answer taken from the cache is at least as new as its query.
LEMMA ReceiveBacked ==
  ASSUME TypeOK, FreshInv, NEW onward, NEW answering, Receive(onward, answering)
  PROVE  AllBacked(reply', cache) /\ Askable(inbox', cache)
<1>1. CASE inbox # <<>> /\ inbox' = Tail(inbox)
  <2>1. Askable(inbox', cache)
    BY <1>1, AskableTail DEF TypeOK, FreshInv
  <2>2. CASE UNCHANGED reply
    BY <2>1, <2>2 DEF FreshInv
  <2>3. CASE Head(inbox).key # Malformed /\ reply' = <<AnswerTo(Head(inbox))>>
    <3> DEFINE q == Head(inbox)
    <3>1. q \in Query /\ q = inbox[1] /\ Len(inbox) \in Nat \ {0}
      BY <1>1, TailElements DEF TypeOK
    <3>2. q.key \in Key /\ q.seen <= cache[q.key] /\ q.seen \in Nat
      BY <2>3, <3>1, BoundsAssumption DEF FreshInv, Askable, Query
    <3>3. cache[q.key] \in Nat
      BY <3>2, BoundsAssumption DEF TypeOK
    <3>4. Backed(AnswerTo(q), cache)
      BY <3>2, <3>3 DEF Backed, AnswerTo
    <3> QED  BY <2>1, <2>3, <3>4, BackedOne
  <2> QED  BY <1>1, <2>2, <2>3 DEF Receive
<1>2. CASE UNCHANGED <<reply, inbox>>
  BY <1>2 DEF FreshInv
<1> QED  BY <1>1, <1>2 DEF Receive

LEMMA FreshStep == TypeOK /\ FreshInv /\ [Next]_vars => FreshInv'
<1> SUFFICES ASSUME TypeOK, FreshInv, [Next]_vars
             PROVE  FreshInv'
  OBVIOUS
<1>1. ASSUME NEW m \in Meter, ReportBatch(m)
      PROVE  FreshInv'
  <2> DEFINE keys == {m} \X Di
             msg == ReportOf(keys, issued + 1)
  <2>1. keys \in SUBSET Key /\ msg.keys = keys /\ msg.ver = issued + 1
    BY DEF Key, ReportOf
  <2>2. /\ cache \in Versioned /\ cache' \in Versioned
        /\ \A k \in Key : cache[k] <= cache'[k] /\ cache'[k] <= issued'
        /\ Backed(msg, cache')
        /\ AllBacked(queue, cache') /\ AllBacked(job, cache')
        /\ AllBacked(reply, cache') /\ AllBacked(inflight, cache')
        /\ Askable(inbox, cache')
    BY <1>1, <2>1, ReportKeepsBacked DEF ReportBatch
  <2>3. msg \in Message
    BY <1>1, <2>1, ReportTyped, BoundsAssumption DEF TypeOK, ReportBatch
  <2>4. AllBacked(queue', cache')
    BY <1>1, <2>2, <2>3, EnqueueBacked DEF ReportBatch
  <2>5. \A k \in Key : known[k] <= cache'[k]
    BY <2>2, BoundsAssumption DEF TypeOK, FreshInv, Versioned
  <2>6. \A k \in Key : known'[k] <= cache'[k]
    BY <1>1, <2>2, <2>5, LearntBacked DEF ReportBatch
  <2>7. AllBacked(draft', cache')
    BY <1>1, <2>2, AllBackedGrows, OptionalIsSeq DEF TypeOK, FreshInv, ReportBatch
  <2> QED  BY <1>1, <2>2, <2>4, <2>6, <2>7
           DEF FreshInv, AnswerFresh, ReportBatch, worker, session
<1>2. ASSUME NEW k \in Key, Report(k)
      PROVE  FreshInv'
  <2> DEFINE msg == ReportOf({k}, issued + 1)
  <2>1. {k} \in SUBSET Key /\ msg.keys = {k} /\ msg.ver = issued + 1
    BY DEF ReportOf
  <2>2. /\ cache \in Versioned /\ cache' \in Versioned
        /\ \A x \in Key : cache[x] <= cache'[x] /\ cache'[x] <= issued'
        /\ Backed(msg, cache')
        /\ AllBacked(queue, cache') /\ AllBacked(job, cache')
        /\ AllBacked(reply, cache') /\ AllBacked(inflight, cache')
        /\ Askable(inbox, cache')
    BY <1>2, <2>1, ReportKeepsBacked DEF Report
  <2>3. \A x \in Key : known[x] <= cache'[x]
    BY <2>2, BoundsAssumption DEF TypeOK, FreshInv, Versioned
  <2>4. AllBacked(draft', cache')
    BY <1>2, <2>2, BackedOne DEF Report
  <2> QED  BY <1>2, <2>2, <2>3, <2>4
           DEF FreshInv, AnswerFresh, Report, worker, session, outside
<1>3. CASE ReportEnqueue
  <2>1. draft[1] \in Message /\ Backed(draft[1], cache)
    BY <1>3, BackedHeld DEF TypeOK, FreshInv, ReportEnqueue
  <2>2. AllBacked(queue', cache)
    BY <1>3, <2>1, EnqueueBacked DEF FreshInv, ReportEnqueue
  <2>3. \A k \in Key : known'[k] <= cache[k]
    BY <1>3, <2>1, LearntBacked DEF FreshInv, ReportEnqueue
  <2>4. AllBacked(draft', cache)
    BY <1>3, BackedNone DEF ReportEnqueue
  <2> QED  BY <1>3, <2>2, <2>3, <2>4
           DEF FreshInv, AnswerFresh, ReportEnqueue, worker, session
<1>4. CASE Destroy \/ Join
  BY <1>4 DEF FreshInv, AnswerFresh, Destroy, Join, worker, session, outside
<1>5. CASE WorkerTake
  <2>1. AllBacked(job', cache) /\ AllBacked(queue', cache)
    <3>1. CASE queue # <<>> /\ job' = <<Head(queue)>> /\ queue' = Tail(queue)
      BY <3>1, BackedTail, BackedOne DEF TypeOK, FreshInv
    <3>2. CASE UNCHANGED <<job, queue>>
      BY <3>2 DEF FreshInv
    <3> QED  BY <1>5, <3>1, <3>2 DEF WorkerTake
  <2> QED  BY <1>5, <2>1 DEF FreshInv, AnswerFresh, WorkerTake, session, outside
<1>6. CASE WorkerExit
  BY <1>6 DEF FreshInv, AnswerFresh, WorkerExit, reporter, session, outside
<1>7. CASE WorkerClose
  BY <1>7, BackedNone DEF FreshInv, AnswerFresh, WorkerClose, NoSession, reporter, outside
<1>8. CASE WorkerOpen
  <2>1. /\ AllBacked(job', cache) /\ AllBacked(inflight', cache)
        /\ Askable(inbox', cache)
    BY <1>8, BackedNone DEF FreshInv, WorkerOpen, NewSession, NoSession, session
  <2> QED  BY <1>8, <2>1 DEF FreshInv, AnswerFresh, WorkerOpen, reporter, outside
<1>9. CASE WorkerPoll
  BY <1>9, ReceiveBacked DEF FreshInv, AnswerFresh, WorkerPoll, reporter, outside
<1>10. CASE WorkerIdle
  BY <1>10, ReceiveBacked DEF FreshInv, AnswerFresh, WorkerIdle, reporter, outside
<1>11. CASE WorkerAnswer
  <2>1. reply[1] \in Message /\ Backed(reply[1], cache)
    BY <1>11, BackedHeld DEF TypeOK, FreshInv, WorkerAnswer
  <2>2. AllBacked(inflight', cache) /\ Askable(inbox', cache)
    BY <1>11, <2>1, PublishNowBacked DEF WorkerAnswer
  <2> QED  BY <1>11, <2>2, BackedNone
           DEF FreshInv, AnswerFresh, WorkerAnswer, reporter, outside
<1>12. CASE WorkerPublish
  <2>1. job[1] \in Message /\ Backed(job[1], cache)
    BY <1>12, BackedHeld DEF TypeOK, FreshInv, WorkerPublish
  <2>2. AllBacked(inflight', cache) /\ Askable(inbox', cache)
    BY <1>12, <2>1, PublishNowBacked DEF WorkerPublish
  <2> QED  BY <1>12, <2>2, BackedNone
           DEF FreshInv, AnswerFresh, WorkerPublish, reporter, outside
<1>13. CASE Deliver
  <2>1. /\ AllBacked(inflight', cache)
        /\ Backed(Head(inflight), cache) /\ Head(inflight) \in Message
    BY <1>13, BackedTail, TailElements DEF TypeOK, FreshInv, Deliver
  <2>2. \A k \in Key : known'[k] <= cache[k]
    BY <1>13, <2>1, LearntBacked DEF FreshInv, Deliver
  <2>3. AnswerFresh'
    <3>1. /\ arrived \in Seq(Message)
          /\ arrived' \in Seq(Message) /\ Len(arrived') = Len(arrived) + 1
          /\ \A i \in 1..Len(arrived') :
               arrived'[i] = IF i <= Len(arrived) THEN arrived[i] ELSE Head(inflight)
      BY <1>13, <2>1, AppendElements DEF TypeOK, Deliver
    <3> QED  BY <2>1, <3>1, LenProperties DEF FreshInv, AnswerFresh, Backed
  <2> QED  BY <1>13, <2>1, <2>2, <2>3 DEF FreshInv, Deliver, reporter, worker
<1>14. CASE LinkLost
  BY <1>14, BackedNone DEF FreshInv, AnswerFresh, LinkLost, reporter, worker, outside
<1>15. ASSUME NEW k \in Key \cup {Malformed}, UserQuery(k)
       PROVE  FreshInv'
  <2> DEFINE q == [key |-> k, seen |-> IF k \in Key THEN known[k] ELSE 0]
  <2>1. q \in Query
    BY BoundsAssumption DEF TypeOK, Query
  <2>2. inbox' = Append(inbox, q) /\ inbox \in Seq(Query)
    BY <1>15 DEF UserQuery, TypeOK
  <2>3. q.key # Malformed => q.seen <= cache[q.key]
    BY DEF FreshInv
  <2>4. Askable(inbox', cache)
    BY <2>1, <2>2, <2>3, AppendElements DEF FreshInv, Askable
  <2> QED  BY <1>15, <2>4 DEF FreshInv, AnswerFresh, UserQuery, reporter, worker
<1>16. CASE UNCHANGED vars
  BY <1>16 DEF FreshInv, AnswerFresh, vars, reporter, worker, session, outside
<1> QED
  BY <1>1, <1>2, <1>3, <1>4, <1>5, <1>6, <1>7, <1>8, <1>9, <1>10, <1>11,
     <1>12, <1>13, <1>14, <1>15, <1>16
  DEF Next, Caller, Worker, Environment, Terminated

\* An answer to a query command is never older than what the user could have
\* known of the item when asking.
THEOREM AnswersAreFresh == Spec => []AnswerFresh
<1>1. Init => FreshInv
  BY BackedNone, BoundsAssumption DEF Init, FreshInv, AnswerFresh
<1>2. FreshInv => AnswerFresh
  BY DEF FreshInv
<1> QED  BY <1>1, <1>2, FreshStep, TypeCorrect, PTL DEF Spec

(***************************************************************************)
(* Reports arrive in order.  Read from the broker back to the caller, the  *)
(* five places a report can be in hold increasing numbers.                 *)
(***************************************************************************)
Sorted(s) ==
  \A i, j \in 1..Len(s) :
    i < j /\ s[i].kind = "report" /\ s[j].kind = "report" => s[i].ver < s[j].ver

Before(s, t) ==
  \A i \in 1..Len(s), j \in 1..Len(t) :
    s[i].kind = "report" /\ t[j].kind = "report" => s[i].ver < t[j].ver

AtMost(s, n) == \A i \in 1..Len(s) : s[i].kind = "report" => s[i].ver <= n

OrderInv ==
  /\ Sorted(arrived) /\ Sorted(inflight) /\ Sorted(queue)
  /\ Before(arrived, inflight) /\ Before(arrived, job)
  /\ Before(arrived, queue) /\ Before(arrived, draft)
  /\ Before(inflight, job) /\ Before(inflight, queue) /\ Before(inflight, draft)
  /\ Before(job, queue) /\ Before(job, draft)
  /\ Before(queue, draft)
  /\ AtMost(arrived, issued) /\ AtMost(inflight, issued) /\ AtMost(job, issued)
  /\ AtMost(queue, issued) /\ AtMost(draft, issued)
  /\ caller # "cached" => draft = <<>>
  /\ wpc \in {"take", "idle", "replyIdle"} => job = <<>>
  /\ \A i \in 1..Len(reply) : reply[i].kind = "answer"

\* The order of sequences that gain a last element or lose their first.
LEMMA SortedAppend ==
  ASSUME NEW s \in Seq(Message), NEW x \in Message, Sorted(s), Before(s, <<x>>)
  PROVE  Sorted(Append(s, x))
<1>1. \A i \in 1..Len(s) : s[i].kind = "report" /\ x.kind = "report" => s[i].ver < x.ver
  BY DEF Before
<1> QED  BY <1>1, AppendElements, LenProperties DEF Sorted

LEMMA SortedTail ==
  ASSUME NEW s \in Seq(Message), s # <<>>, Sorted(s)
  PROVE  Sorted(Tail(s)) /\ Before(<<Head(s)>>, Tail(s))
<1>1. /\ Head(s) = s[1] /\ Len(s) \in Nat \ {0} /\ Len(Tail(s)) = Len(s) - 1
      /\ \A i \in 1..Len(Tail(s)) : i + 1 \in 1..Len(s) /\ Tail(s)[i] = s[i + 1]
  BY TailElements
<1>2. Sorted(Tail(s))
  BY <1>1 DEF Sorted
<1>3. Before(<<Head(s)>>, Tail(s))
  BY <1>1 DEF Sorted, Before
<1> QED  BY <1>2, <1>3

LEMMA BeforeAppend ==
  ASSUME NEW s \in Seq(Message), NEW t \in Seq(Message), NEW x \in Message, Before(s, t)
  PROVE  /\ Before(<<x>>, t) => Before(Append(s, x), t)
         /\ Before(s, <<x>>) => Before(s, Append(t, x))
<1>1. ASSUME Before(<<x>>, t)
      PROVE  Before(Append(s, x), t)
  <2>1. \A j \in 1..Len(t) : x.kind = "report" /\ t[j].kind = "report" => x.ver < t[j].ver
    BY <1>1 DEF Before
  <2> QED  BY <2>1, AppendElements, LenProperties DEF Before
<1>2. ASSUME Before(s, <<x>>)
      PROVE  Before(s, Append(t, x))
  <2>1. \A i \in 1..Len(s) : s[i].kind = "report" /\ x.kind = "report" => s[i].ver < x.ver
    BY <1>2 DEF Before
  <2> QED  BY <2>1, AppendElements, LenProperties DEF Before
<1> QED  BY <1>1, <1>2

LEMMA BeforeTail ==
  ASSUME NEW s \in Seq(Message), NEW t \in Seq(Message), Before(s, t)
  PROVE  /\ s # <<>> => Before(Tail(s), t) /\ Before(<<Head(s)>>, t)
         /\ t # <<>> => Before(s, Tail(t)) /\ Before(s, <<Head(t)>>)
<1>1. ASSUME s # <<>>
      PROVE  Before(Tail(s), t) /\ Before(<<Head(s)>>, t)
  BY <1>1, TailElements DEF Before
<1>2. ASSUME t # <<>>
      PROVE  Before(s, Tail(t)) /\ Before(s, <<Head(t)>>)
  BY <1>2, TailElements DEF Before
<1> QED  BY <1>1, <1>2

LEMMA NothingOrdered ==
  ASSUME NEW s, NEW n
  PROVE  Sorted(<<>>) /\ Before(<<>>, s) /\ Before(s, <<>>) /\ AtMost(<<>>, n)
  BY DEF Sorted, Before, AtMost

\* Answers are ordered with nothing.
LEMMA AnswerUnordered ==
  ASSUME NEW x, x.kind = "answer", NEW s, NEW n
  PROVE  Before(<<x>>, s) /\ Before(s, <<x>>) /\ AtMost(<<x>>, n) /\ Sorted(<<x>>)
  BY DEF Before, AtMost, Sorted

LEMMA SortedOne == ASSUME NEW x PROVE Sorted(<<x>>)
  BY DEF Sorted

LEMMA AtMostAppend ==
  ASSUME NEW s \in Seq(Message), NEW x \in Message, NEW n, AtMost(s, n), AtMost(<<x>>, n)
  PROVE  AtMost(Append(s, x), n)
<1>1. x.kind = "report" => x.ver <= n
  BY DEF AtMost
<1> QED  BY <1>1, AppendElements DEF AtMost

LEMMA AtMostTail ==
  ASSUME NEW s \in Seq(Message), NEW n, s # <<>>, AtMost(s, n)
  PROVE  AtMost(Tail(s), n) /\ AtMost(<<Head(s)>>, n)
  BY TailElements DEF AtMost

\* A new report is newer than everything numbered so far.
LEMMA NewestReport ==
  ASSUME NEW s \in Seq(Message), NEW n \in Nat, AtMost(s, n), NEW keys
  PROVE  Before(s, <<ReportOf(keys, n + 1)>>) /\ AtMost(s, n + 1)
<1> SUFFICES ASSUME NEW i \in 1..Len(s), s[i].kind = "report"
             PROVE  s[i].ver < n + 1 /\ s[i].ver <= n + 1
  BY DEF Before, AtMost, ReportOf
<1>1. s[i] \in Message
  BY ElementOfSeq
<1>2. s[i].ver \in Nat
  BY <1>1, BoundsAssumption DEF Message
<1> QED  BY <1>2 DEF AtMost

LEMMA HeldOne ==
  ASSUME NEW o \in Optional(Message), o # <<>>
  PROVE  o = <<o[1]>> /\ o[1] \in Message
  BY DEF Optional

\* After publish_now() the session carries nothing new but the message.
LEMMA PublishNowCarries ==
  ASSUME NEW m, PublishNow(m)
  PROVE  inflight' = Append(inflight, m) \/ inflight' = <<m>> \/ inflight' = <<>>
  BY DEF PublishNow, NewSession, NoSession

LEMMA PublishNowOrdered ==
  ASSUME TypeOK, OrderInv, NEW m \in Message, PublishNow(m),
         Before(inflight, <<m>>), Before(arrived, <<m>>), AtMost(<<m>>, issued)
  PROVE  /\ Sorted(inflight') /\ Before(arrived, inflight') /\ AtMost(inflight', issued)
         /\ \A t \in Seq(Message) :
              Before(inflight, t) /\ Before(<<m>>, t) => Before(inflight', t)
<1>1. CASE inflight' = Append(inflight, m)
  BY <1>1, SortedAppend, BeforeAppend, AtMostAppend DEF TypeOK, OrderInv
<1>2. CASE inflight' = <<m>>
  BY <1>2, SortedOne
<1>3. CASE inflight' = <<>>
  BY <1>3, NothingOrdered
<1> QED  BY <1>1, <1>2, <1>3, PublishNowCarries

\* A message newer than all the gateway holds stays so behind the queue.
LEMMA EnqueueOrdered ==
  ASSUME TypeOK, OrderInv, NEW m \in Message, Enqueue(m),
         Before(queue, <<m>>)
  PROVE  /\ Sorted(queue')
         /\ \A s \in Seq(Message) :
              Before(s, queue) /\ Before(s, <<m>>) => Before(s, queue')
         /\ \A n : AtMost(queue, n) /\ AtMost(<<m>>, n) => AtMost(queue', n)
<1>1. CASE queue' = Append(queue, m)
  BY <1>1, SortedAppend, BeforeAppend, AtMostAppend DEF TypeOK, OrderInv
<1>2. CASE UNCHANGED queue
  BY <1>2 DEF OrderInv
<1> QED  BY <1>1, <1>2 DEF Enqueue

LEMMA SequencesTyped ==
  ASSUME TypeOK
  PROVE  /\ arrived \in Seq(Message) /\ inflight \in Seq(Message)
         /\ job \in Seq(Message) /\ queue \in Seq(Message) /\ draft \in Seq(Message)
         /\ issued \in Nat
  BY OptionalIsSeq, BoundsAssumption DEF TypeOK

LEMMA OrderStep == TypeOK /\ OrderInv /\ [Next]_vars => OrderInv'
<1> SUFFICES ASSUME TypeOK, OrderInv, [Next]_vars
             PROVE  OrderInv'
  OBVIOUS
<1>0. /\ arrived \in Seq(Message) /\ inflight \in Seq(Message)
      /\ job \in Seq(Message) /\ queue \in Seq(Message) /\ draft \in Seq(Message)
      /\ issued \in Nat
  BY SequencesTyped
<1>1. ASSUME NEW m \in Meter, ReportBatch(m)
      PROVE  OrderInv'
  <2> DEFINE msg == ReportOf({m} \X Di, issued + 1)
  <2>1. msg \in Message
    BY <1>1, <1>0, ReportTyped, BoundsAssumption DEF TypeOK, ReportBatch, Key
  <2>2. /\ Before(arrived, <<msg>>) /\ Before(inflight, <<msg>>)
        /\ Before(job, <<msg>>) /\ Before(queue, <<msg>>)
        /\ AtMost(arrived, issued + 1) /\ AtMost(inflight, issued + 1)
        /\ AtMost(job, issued + 1) /\ AtMost(queue, issued + 1)
    BY <1>0, NewestReport DEF OrderInv
  <2>3. AtMost(<<msg>>, issued + 1)
    BY <1>0 DEF AtMost, ReportOf
  <2>4. /\ Sorted(queue') /\ AtMost(queue', issued + 1)
        /\ Before(arrived, queue') /\ Before(inflight, queue') /\ Before(job, queue')
    BY <1>1, <1>0, <2>1, <2>2, <2>3, EnqueueOrdered DEF OrderInv, ReportBatch
  <2>5. draft = <<>> /\ draft' = <<>>
    BY <1>1 DEF OrderInv, ReportBatch
  <2> QED  BY <1>1, <2>2, <2>4, <2>5, NothingOrdered
           DEF OrderInv, ReportBatch, worker, session
<1>2. ASSUME NEW k \in Key, Report(k)
      PROVE  OrderInv'
  <2> DEFINE msg == ReportOf({k}, issued + 1)
  <2>1. /\ Before(arrived, <<msg>>) /\ Before(inflight, <<msg>>)
        /\ Before(job, <<msg>>) /\ Before(queue, <<msg>>)
        /\ AtMost(arrived, issued + 1) /\ AtMost(inflight, issued + 1)
        /\ AtMost(job, issued + 1) /\ AtMost(queue, issued + 1)
    BY <1>0, NewestReport DEF OrderInv
  <2>2. AtMost(<<msg>>, issued + 1)
    BY <1>0 DEF AtMost, ReportOf
  <2> QED  BY <1>2, <2>1, <2>2 DEF OrderInv, Report, worker, session, outside
<1>3. CASE ReportEnqueue
  <2> DEFINE msg == draft[1]
  <2>1. msg \in Message /\ draft = <<msg>>
    BY <1>3, HeldOne DEF TypeOK, ReportEnqueue
  <2>2. /\ Sorted(queue') /\ AtMost(queue', issued)
        /\ Before(arrived, queue') /\ Before(inflight, queue') /\ Before(job, queue')
    BY <1>3, <1>0, <2>1, EnqueueOrdered DEF OrderInv, ReportEnqueue
  <2> QED  BY <1>3, <2>2, NothingOrdered DEF OrderInv, ReportEnqueue, worker, session
<1>4. CASE Destroy
  BY <1>4 DEF OrderInv, Destroy, worker, session, outside
<1>5. CASE Join
  BY <1>5 DEF OrderInv, Join, worker, session, outside
<1>6. CASE WorkerTake
  <2>1. CASE queue # <<>> /\ job' = <<Head(queue)>> /\ queue' = Tail(queue)
    <3>1. /\ Sorted(queue') /\ Before(job', queue')
          /\ Before(arrived, job') /\ Before(arrived, queue')
          /\ Before(inflight, job') /\ Before(inflight, queue')
          /\ Before(job', draft) /\ Before(queue', draft)
          /\ AtMost(job', issued) /\ AtMost(queue', issued)
      BY <1>0, <2>1, SortedTail, BeforeTail, AtMostTail DEF OrderInv
    <3> QED  BY <1>6, <3>1 DEF OrderInv, WorkerTake, session, outside
  <2>2. CASE UNCHANGED <<job, queue>>
    BY <1>6, <2>2 DEF OrderInv, WorkerTake, session, outside
  <2> QED  BY <1>6, <2>1, <2>2 DEF WorkerTake
<1>7. CASE WorkerExit
  BY <1>7 DEF OrderInv, WorkerExit, reporter, session, outside
<1>8. CASE WorkerClose
  BY <1>8, NothingOrdered DEF OrderInv, WorkerClose, NoSession, reporter, outside
<1>9. CASE WorkerOpen
  BY <1>9, NothingOrdered
  DEF OrderInv, WorkerOpen, NewSession, NoSession, reporter, session, outside
<1>10. CASE WorkerPoll
  BY <1>10 DEF OrderInv, WorkerPoll, Receive, AnswerTo, reporter, outside
<1>11. CASE WorkerIdle
  BY <1>11 DEF OrderInv, WorkerIdle, Receive, AnswerTo, reporter, outside
<1>12. CASE WorkerAnswer
  <2>1. reply[1] \in Message /\ reply = <<reply[1]>>
    BY <1>12, HeldOne DEF TypeOK, WorkerAnswer
  <2>2. reply[1].kind = "answer"
    BY <2>1 DEF OrderInv
  <2>3. /\ Sorted(inflight') /\ Before(arrived, inflight') /\ AtMost(inflight', issued)
        /\ Before(inflight', job) /\ Before(inflight', queue) /\ Before(inflight', draft)
    BY <1>12, <1>0, <2>1, <2>2, AnswerUnordered, PublishNowOrdered
    DEF OrderInv, WorkerAnswer
  <2> QED  BY <1>12, <2>3 DEF OrderInv, WorkerAnswer, reporter, outside
<1>13. CASE WorkerPublish
  <2>1. job[1] \in Message /\ job = <<job[1]>>
    BY <1>13, HeldOne DEF TypeOK, WorkerPublish
  <2>2. /\ Sorted(inflight') /\ Before(arrived, inflight') /\ AtMost(inflight', issued)
        /\ Before(inflight', queue) /\ Before(inflight', draft)
    BY <1>13, <1>0, <2>1, PublishNowOrdered DEF OrderInv, WorkerPublish
  <2> QED  BY <1>13, <2>2, NothingOrdered DEF OrderInv, WorkerPublish, reporter, outside
<1>14. CASE Deliver
  <2>1. inflight # <<>> /\ Head(inflight) \in Message
    BY <1>14, <1>0, TailElements DEF Deliver
  <2>2. /\ Sorted(inflight') /\ Before(<<Head(inflight)>>, inflight')
        /\ Before(inflight', job) /\ Before(inflight', queue) /\ Before(inflight', draft)
        /\ Before(<<Head(inflight)>>, job) /\ Before(<<Head(inflight)>>, queue)
        /\ Before(<<Head(inflight)>>, draft) /\ Before(arrived, <<Head(inflight)>>)
        /\ AtMost(inflight', issued) /\ AtMost(<<Head(inflight)>>, issued)
        /\ Before(arrived, inflight') /\ inflight' \in Seq(Message)
    BY <1>14, <1>0, <2>1, SortedTail, BeforeTail, AtMostTail, TailElements
    DEF OrderInv, Deliver
  <2>3. /\ Sorted(arrived') /\ AtMost(arrived', issued)
        /\ Before(arrived', inflight') /\ Before(arrived', job)
        /\ Before(arrived', queue) /\ Before(arrived', draft)
    BY <1>14, <1>0, <2>1, <2>2, SortedAppend, BeforeAppend, AtMostAppend
    DEF OrderInv, Deliver
  <2> QED  BY <1>14, <2>2, <2>3 DEF OrderInv, Deliver, reporter, worker
<1>15. CASE LinkLost
  BY <1>15, NothingOrdered DEF OrderInv, LinkLost, reporter, worker, outside
<1>16. ASSUME NEW k \in Key \cup {Malformed}, UserQuery(k)
       PROVE  OrderInv'
  BY <1>16 DEF OrderInv, UserQuery, reporter, worker
<1>17. CASE UNCHANGED vars
  BY <1>17 DEF OrderInv, vars, reporter, worker, session, outside
<1> QED
  BY <1>1, <1>2, <1>3, <1>4, <1>5, <1>6, <1>7, <1>8, <1>9, <1>10, <1>11,
     <1>12, <1>13, <1>14, <1>15, <1>16, <1>17
  DEF Next, Caller, Worker, Environment, Terminated

\* The broker receives the reports in the order they were made, each at most
\* once, whatever the queue dropped and the connection lost.
THEOREM ReportsArriveInOrder == Spec => []UplinkInOrder
<1>1. Init => OrderInv
  BY NothingOrdered DEF Init, OrderInv
<1>2. TypeOK /\ OrderInv => UplinkInOrder
  BY SequencesTyped, LenProperties DEF OrderInv, Sorted, UplinkInOrder
<1> QED  BY <1>1, <1>2, OrderStep, TypeCorrect, PTL DEF Spec

(***************************************************************************)
(* Shutting down.                                                          *)
(***************************************************************************)
\* The worker leaves its loop only after the stop, with nothing queued and
\* nothing in hand, and from the stop on nobody enqueues.
DrainInv ==
  /\ ~running => caller \in {"joining", "returned"}
  /\ wpc \in {"take", "idle", "replyIdle", "close", "done"} => job = <<>>
  /\ wpc \in {"close", "done"} => ~running /\ queue = <<>>
  /\ wpc = "done" => client = "none"
  /\ caller = "returned" => wpc = "done"

LEMMA NextDrain == DrainInv /\ [Next]_vars => DrainInv'
<1> SUFFICES ASSUME DrainInv, [Next]_vars
             PROVE  DrainInv'
  OBVIOUS
<1> USE DEF DrainInv, reporter, worker, session, outside
<1>1. ASSUME NEW m \in Meter, ReportBatch(m)
      PROVE  DrainInv'
  BY <1>1 DEF ReportBatch
<1>2. ASSUME NEW k \in Key, Report(k)
      PROVE  DrainInv'
  BY <1>2 DEF Report
<1>3. CASE ReportEnqueue
  BY <1>3 DEF ReportEnqueue
<1>4. CASE Destroy
  BY <1>4 DEF Destroy
<1>5. CASE Join
  BY <1>5 DEF Join
<1>6. CASE WorkerTake
  BY <1>6 DEF WorkerTake
<1>7. CASE WorkerExit
  BY <1>7 DEF WorkerExit
<1>8. CASE WorkerClose
  BY <1>8 DEF WorkerClose, NoSession
<1>9. CASE WorkerOpen
  BY <1>9 DEF WorkerOpen
<1>10. CASE WorkerPoll
  BY <1>10 DEF WorkerPoll, Receive
<1>11. CASE WorkerIdle
  BY <1>11 DEF WorkerIdle, Receive
<1>12. CASE WorkerAnswer
  BY <1>12 DEF WorkerAnswer
<1>13. CASE WorkerPublish
  BY <1>13 DEF WorkerPublish
<1>14. CASE Deliver
  BY <1>14 DEF Deliver
<1>15. CASE LinkLost
  BY <1>15 DEF LinkLost
<1>16. ASSUME NEW k \in Key \cup {Malformed}, UserQuery(k)
       PROVE  DrainInv'
  BY <1>16 DEF UserQuery
<1>17. CASE UNCHANGED vars
  BY <1>17 DEF vars
<1> QED BY <1>1, <1>2, <1>3, <1>4, <1>5, <1>6, <1>7, <1>8, <1>9, <1>10, <1>11,
           <1>12, <1>13, <1>14, <1>15, <1>16, <1>17
        DEF Next, Caller, Worker, Environment, Terminated

\* When the destructor has returned, every report that was accepted has had
\* its attempt, and the client is closed.
THEOREM ShutdownDrains == Spec => []DrainedOnReturn
<1>1. Init => DrainInv
  BY DEF Init, DrainInv
<1>2. DrainInv /\ [Next]_vars => DrainInv'
  BY NextDrain
<1>3. DrainInv => DrainedOnReturn
  BY DEF DrainInv, DrainedOnReturn
<1> QED BY <1>1, <1>2, <1>3, PTL DEF Spec

\* The step after the stop, as DrainAdvances has it.
Drains == ~running /\ <<worker, queue>>' # <<worker, queue>> => WorkLeft' < WorkLeft

LEMMA StepDrains == TypeOK /\ DrainInv /\ [Next]_vars => [Drains]_vars
<1> SUFFICES ASSUME TypeOK, DrainInv, Next, ~running,
                    <<worker, queue>>' # <<worker, queue>>
             PROVE  WorkLeft' < WorkLeft
  BY DEF Drains
<1>0. Len(queue) \in Nat /\ (queue # <<>> => Len(Tail(queue)) = Len(queue) - 1)
  BY DEF TypeOK
<1>1. caller \notin {"idle", "cached"}
  BY DEF DrainInv
<1>2. Worker
  BY <1>1 DEF Next, Caller, Environment, Terminated, ReportBatch, Report, ReportEnqueue,
              Destroy, Join, Deliver, LinkLost, UserQuery, worker, reporter, vars
<1> USE <1>0 DEF WorkLeft, reporter
<1>3. CASE WorkerTake
  BY <1>3 DEF WorkerTake
<1>4. CASE WorkerExit
  BY <1>4 DEF WorkerExit
<1>5. CASE WorkerClose
  BY <1>5 DEF WorkerClose
<1>6. CASE WorkerOpen
  BY <1>6 DEF WorkerOpen
<1>7. CASE WorkerPoll
  BY <1>7 DEF WorkerPoll, Receive
<1>8. CASE WorkerIdle
  BY <1>8 DEF WorkerIdle, Receive
<1>9. CASE WorkerAnswer
  BY <1>9 DEF WorkerAnswer
<1>10. CASE WorkerPublish
  BY <1>10 DEF WorkerPublish
<1> QED BY <1>2, <1>3, <1>4, <1>5, <1>6, <1>7, <1>8, <1>9, <1>10 DEF Worker

\* From the stop on the worker makes at most six steps for each message that
\* waits and seven more, whatever the broker and the users do: the safety half
\* of ShutdownCompletes.
THEOREM DrainEnds == Spec => DrainAdvances
<1>1. TypeOK /\ DrainInv /\ [Next]_vars => [Drains]_vars
  BY StepDrains
<1>2. [][Drains]_vars => DrainAdvances
  BY DEF Drains, DrainAdvances
<1>3. Init => DrainInv
  BY DEF Init, DrainInv
<1> QED BY <1>1, <1>2, <1>3, NextDrain, TypeCorrect, PTL DEF Spec

(***************************************************************************)
(* The queue and the worker as main() sees them.                           *)
(***************************************************************************)
LEMMA InitBoxed == Init => Box!Init
<1>1. Len(<<>>) = 0 /\ MaxQueue \in Nat
  BY MaxQueueAssumption
<1> QED BY <1>1 DEF Init, Box!Init

LEMMA StepBoxed ==
  TypeOK /\ TypeOK' /\ DrainInv /\ [Next]_vars => [Box!Next]_(Box!vars)
<1> SUFFICES ASSUME TypeOK, TypeOK', DrainInv, [Next]_vars
             PROVE  [Box!Next]_(Box!vars)
  OBVIOUS
<1> USE DEF reporter, worker, session, outside, Box!Next, Box!vars
<1>0. Len(queue) \in Nat
  BY DEF TypeOK
<1>1. ASSUME running, UNCHANGED <<running, job, wpc>>,
             \/ Len(queue) < MaxQueue /\ Len(queue') = Len(queue) + 1
             \/ queue' = queue
      PROVE  [Box!Next]_(Box!vars)
  BY <1>1 DEF Box!Accept
<1>2. ASSUME NEW m \in Meter, ReportBatch(m)
      PROVE  [Box!Next]_(Box!vars)
  <2> DEFINE msg == ReportOf({m} \X Di, issued + 1)
  <2>1. running /\ UNCHANGED <<running, job, wpc>>
    BY <1>2 DEF ReportBatch, DrainInv
  <2>2. Enqueue(msg)
    BY <1>2 DEF ReportBatch
  <2> HIDE DEF msg
  <2>3. \/ Len(queue) < MaxQueue /\ Len(queue') = Len(queue) + 1
        \/ queue' = queue
    BY <1>0, <2>2 DEF Enqueue, TypeOK
  <2> QED BY <1>1, <2>1, <2>3
<1>3. CASE ReportEnqueue
  <2>1. running /\ UNCHANGED <<running, job, wpc>>
    BY <1>3 DEF ReportEnqueue, DrainInv
  <2>2. \/ Len(queue) < MaxQueue /\ Len(queue') = Len(queue) + 1
        \/ queue' = queue
    BY <1>0, <1>3 DEF ReportEnqueue, Enqueue, TypeOK
  <2> QED BY <1>1, <2>1, <2>2
<1>4. CASE Destroy
  BY <1>4 DEF Destroy, Box!Close
<1>5. CASE WorkerTake
  <2>1. job = <<>> /\ wpc = "take" /\ wpc' = "open" /\ running' = running
    BY <1>5 DEF WorkerTake, DrainInv
  <2>2. CASE queue # <<>>
    <3>1. job' # <<>> /\ queue' = Tail(queue)
      <4>1. job' = <<Head(queue)>> /\ queue' = Tail(queue)
        BY <1>5, <2>2 DEF WorkerTake
      <4>2. <<Head(queue)>> # <<>>
        OBVIOUS
      <4> QED BY <4>1, <4>2
    <3>2. Len(queue) > 0 /\ Len(queue') = Len(queue) - 1
      BY <2>2, <3>1 DEF TypeOK
    <3> QED BY <2>1, <3>1, <3>2 DEF Box!Take
  <2>3. CASE queue = <<>>
    BY <1>5, <2>1, <2>3 DEF WorkerTake
  <2> QED BY <2>2, <2>3
<1>6. CASE WorkerClose
  <2>1. /\ ~running /\ Len(queue) = 0 /\ job = <<>>
        /\ wpc' = "done" /\ UNCHANGED <<running, queue, job>>
    BY <1>6 DEF WorkerClose, DrainInv
  <2> QED BY <2>1 DEF Box!Finish
\* Nothing changes but, maybe, the hand is empty now.
<1>7. ASSUME UNCHANGED <<running, queue>>, job' = <<>> \/ job' = job,
             (wpc' # "done" /\ wpc # "done") \/ wpc' = wpc
      PROVE  [Box!Next]_(Box!vars)
  BY <1>7 DEF Box!Settle
<1>8. CASE WorkerExit \/ WorkerOpen \/ WorkerAnswer \/ WorkerPublish
  <2>1. UNCHANGED <<running, queue>> /\ (job' = <<>> \/ job' = job)
    BY <1>8 DEF WorkerExit, WorkerOpen, WorkerAnswer, WorkerPublish
  <2>2. wpc' # "done" /\ wpc # "done"
    BY <1>8 DEF WorkerExit, WorkerOpen, WorkerAnswer, WorkerPublish
  <2> QED BY <1>7, <2>1, <2>2
<1>9. CASE WorkerPoll \/ WorkerIdle
  <2>1. UNCHANGED <<running, queue, job>>
    BY <1>9 DEF WorkerPoll, WorkerIdle
  <2>2. wpc' # "done" /\ wpc # "done"
    BY <1>9 DEF WorkerPoll, WorkerIdle, Receive
  <2> QED BY <1>7, <2>1, <2>2
<1>10. CASE (\E k \in Key : Report(k)) \/ Join \/ Environment \/ Terminated \/ UNCHANGED vars
  <2>1. UNCHANGED <<running, queue, job, wpc>>
    BY <1>10 DEF Report, Join, Environment, Deliver, LinkLost, UserQuery, Terminated, vars
  <2> QED BY <1>7, <2>1
<1> QED BY <1>2, <1>3, <1>4, <1>5, <1>6, <1>8, <1>9, <1>10 DEF Next, Caller, Worker

\* For every bound of the queue the reporter is what main() takes it for: one
\* message at a time leaves the queue, none comes back, and the thread that the
\* destructor joins has left neither a queue nor a message in hand.
THEOREM IsOutbox == Spec => OutboxImplemented
<1>1. Init => Box!Init /\ DrainInv
  BY InitBoxed DEF Init, DrainInv
<1> QED BY <1>1, NextDrain, StepBoxed, TypeCorrect, PTL DEF Spec, OutboxImplemented, Box!Spec

(***************************************************************************)
(* The channel.  Reports() goes through a sequence message by message.     *)
(***************************************************************************)
Kept(a, m) == IF m.kind = "report" THEN Append(a, m) ELSE a

IsKeeping(p, s) ==
  /\ p \in [0..Len(s) -> Seq(Message)]
  /\ p[0] = <<>>
  /\ \A k \in 1..Len(s) : p[k] = Kept(p[k - 1], s[k])

LEMMA KeptTyped ==
  ASSUME NEW a \in Seq(Message), NEW m \in Message
  PROVE  Kept(a, m) \in Seq(Message)
BY AppendProperties DEF Kept

LEMMA KeepingLoop ==
  ASSUME NEW s \in Seq(Message)
  PROVE  \E p : IsKeeping(p, s) /\ Reports(s) = p[Len(s)]
<1> DEFINE M == Seq(Message)
           step == [k \in 1..Len(s) |-> [x \in M |-> Kept(x, s[k])]]
<1>1. <<>> \in M /\ Len(s) \in Nat /\ \A k \in 1..Len(s) : s[k] \in Message
  BY EmptySeq, LenProperties, ElementOfSeq
<1>2. step \in [1..Len(s) -> [M -> M]]
  BY <1>1, KeptTyped
<1> HIDE DEF M
<1>3. PICK q : IsIterate(q, M, <<>>, step, Len(s))
  <2> HIDE DEF step
  <2> QED BY <1>1, <1>2, IterateExists
<1> DEFINE R(r) == [k \in 0..Len(s) |->
                      IF k = 0 THEN <<>>
                      ELSE IF s[k].kind = "report" THEN Append(r[k - 1], s[k]) ELSE r[k - 1]]
           p == CHOOSE r : r = R(r)
<1>4. q = R(q)
  <2>1. q \in [0..Len(s) -> M] /\ q[0] = <<>>
    BY <1>3 DEF IsIterate
  <2>2. ASSUME NEW k \in 1..Len(s) PROVE q[k] = Kept(q[k - 1], s[k])
    <3>1. q[k - 1] \in M
      BY <1>1, <2>1
    <3>2. q[k] = step[k][q[k - 1]]
      <4> HIDE DEF step
      <4> QED BY <1>3 DEF IsIterate
    <3> QED BY <3>1, <3>2
  <2>3. ASSUME NEW k \in 0..Len(s) PROVE q[k] = R(q)[k]
    <3>1. CASE k = 0
      BY <2>1, <3>1
    <3>2. CASE k # 0
      <4>1. k \in 1..Len(s) /\ R(q)[k] = Kept(q[k - 1], s[k])
        BY <1>1, <3>2 DEF Kept
      <4> QED BY <2>2, <4>1
    <3> QED BY <3>1, <3>2
  <2>4. R(q) = [k \in 0..Len(s) |-> R(q)[k]] /\ q = [k \in 0..Len(s) |-> q[k]]
    BY <2>1
  <2> HIDE DEF R
  <2> QED BY <2>3, <2>4
<1>5. p = R(p)
  <2> HIDE DEF R
  <2> QED BY <1>4
<1>6. Reports(s) = p[Len(s)]
  BY DEF Reports
<1> HIDE DEF p
<1>7. /\ R(p)[0] = <<>>
      /\ \A k \in 1..Len(s) : R(p)[k] = Kept(p[k - 1], s[k])
      /\ DOMAIN R(p) = 0..Len(s) /\ R(p) = [k \in DOMAIN R(p) |-> R(p)[k]]
  BY <1>1 DEF Kept
<1> HIDE DEF R
<1>8. p[0] = <<>> /\ \A k \in 1..Len(s) : p[k] = Kept(p[k - 1], s[k])
  BY <1>5, <1>7
<1> DEFINE G == {k \in 0..Len(s) : p[k] \in M}
<1>9. 0 \in G /\ \A k \in 1..Len(s) : k - 1 \in G => k \in G
  <2>1. 0 \in G
    BY <1>1, <1>8
  <2>2. ASSUME NEW k \in 1..Len(s), p[k - 1] \in M PROVE p[k] \in M
    BY <1>1, <1>8, <2>2, KeptTyped DEF M
  <2> QED BY <1>1, <2>1, <2>2
<1>10. 0..Len(s) \subseteq G
  <2> HIDE DEF G
  <2> QED BY <1>1, <1>9, UpTo
<1>11. p \in [0..Len(s) -> M]
  BY <1>5, <1>7, <1>10
<1> QED BY <1>6, <1>8, <1>11 DEF IsKeeping, M

LEMMA ReportsTyped ==
  ASSUME NEW s \in Seq(Message)
  PROVE  Reports(s) \in Seq(Message)
<1>1. PICK p : IsKeeping(p, s) /\ Reports(s) = p[Len(s)]
  BY KeepingLoop
<1>2. Len(s) \in 0..Len(s)
  BY LenProperties
<1> QED BY <1>1, <1>2 DEF IsKeeping

LEMMA ReportsEmpty == Reports(<<>>) = <<>>
<1>1. <<>> \in Seq(Message) /\ Len(<<>>) = 0
  BY EmptySeq
<1>2. PICK p : IsKeeping(p, <<>>) /\ Reports(<<>>) = p[Len(<<>>)]
  BY <1>1, KeepingLoop
<1> QED BY <1>1, <1>2 DEF IsKeeping

LEMMA ReportsAppend ==
  ASSUME NEW s \in Seq(Message), NEW m \in Message
  PROVE  Reports(Append(s, m)) = Kept(Reports(s), m)
<1> DEFINE t == Append(s, m)   n == Len(s)
<1>1. /\ n \in Nat /\ t \in Seq(Message) /\ Len(t) = n + 1 /\ t[n + 1] = m
      /\ \A k \in 1..n : t[k] = s[k]
  BY AppendProperties, LenProperties
<1>2. PICK p : IsKeeping(p, s) /\ Reports(s) = p[n]
  BY KeepingLoop
<1>3. PICK q : IsKeeping(q, t) /\ Reports(t) = q[n + 1]
  <2> HIDE DEF t
  <2> QED BY <1>1, KeepingLoop
<1> HIDE DEF t, n
<1>4. /\ p[0] = <<>> /\ \A k \in 1..n : p[k] = Kept(p[k - 1], s[k])
      /\ q[0] = <<>> /\ \A k \in 1..(n + 1) : q[k] = Kept(q[k - 1], t[k])
  BY <1>1, <1>2, <1>3 DEF IsKeeping, n
<1> DEFINE G == {k \in 0..n : q[k] = p[k]}
<1>5. 0 \in G /\ \A k \in 1..n : k - 1 \in G => k \in G
  <2>1. 0 \in G
    BY <1>1, <1>4
  <2>2. ASSUME NEW k \in 1..n, q[k - 1] = p[k - 1] PROVE q[k] = p[k]
    <3>1. k \in 1..(n + 1)
      BY <1>1
    <3> QED BY <1>1, <1>4, <2>2, <3>1
  <2> QED BY <1>1, <2>1, <2>2
<1>6. 0..n \subseteq G
  <2> HIDE DEF G
  <2> QED BY <1>1, <1>5, UpTo
<1>7. q[n] = p[n] /\ q[n + 1] = Kept(q[n], t[n + 1])
  <2>1. n \in 0..n /\ n + 1 \in 1..(n + 1) /\ (n + 1) - 1 = n
    BY <1>1
  <2> QED BY <1>4, <1>6, <2>1
<1> QED BY <1>1, <1>2, <1>3, <1>7 DEF t

\* The report a sequence begins with, if it does, is the first of its reports.
Front(m) == IF m.kind = "report" THEN <<m>> ELSE <<>>

LEMMA FrontTyped ==
  ASSUME NEW m \in Message
  PROVE  Front(m) \in Seq(Message)
<1>1. <<m>> \in Seq(Message)
  OBVIOUS
<1> QED BY <1>1, EmptySeq DEF Front

LEMMA FrontKept ==
  ASSUME NEW f \in Seq(Message), NEW a \in Seq(Message), NEW m \in Message
  PROVE  Kept(f \o a, m) = f \o Kept(a, m)
<1>1. CASE m.kind = "report"
  <2>1. /\ Append(f \o a, m) = (f \o a) \o <<m>>
        /\ Append(a, m) = a \o <<m>>
        /\ <<m>> \in Seq(Message)
    BY AppendIsConcat, ConcatProperties
  <2> QED BY <1>1, <2>1, ConcatAssociative DEF Kept
<1>2. CASE m.kind # "report"
  BY <1>2 DEF Kept
<1> QED BY <1>1, <1>2

LEMMA ReportsHead ==
  ASSUME NEW s \in Seq(Message), s # <<>>
  PROVE  Reports(s) = Front(Head(s)) \o Reports(Tail(s))
<1> DEFINE t == Tail(s)   n == Len(t)   f == Front(Head(s))
<1>1. /\ t \in Seq(Message) /\ n \in Nat /\ Len(s) = n + 1
      /\ Head(s) \in Message /\ s[1] = Head(s)
      /\ \A k \in 1..n : t[k] = s[k + 1]
  BY TailElements, LenProperties
<1>2. PICK p : IsKeeping(p, s) /\ Reports(s) = p[n + 1]
  BY <1>1, KeepingLoop
<1>3. PICK q : IsKeeping(q, t) /\ Reports(t) = q[n]
  <2> HIDE DEF t
  <2> QED BY <1>1, KeepingLoop
<1>4. f \in Seq(Message)
  BY <1>1, FrontTyped
<1>5. p[1] = f
  <2>1. p[1] = Kept(<<>>, Head(s))
    BY <1>1, <1>2 DEF IsKeeping
  <2>2. Append(<<>>, Head(s)) = <<Head(s)>>
    OBVIOUS
  <2> QED BY <2>1, <2>2 DEF Kept, Front
<1>6. /\ \A k \in 1..n : p[k + 1] = Kept(p[k], t[k])
      /\ q \in [0..n -> Seq(Message)] /\ q[0] = <<>>
      /\ \A k \in 1..n : q[k] = Kept(q[k - 1], t[k])
  <2>1. \A k \in 1..n : k + 1 \in 1..Len(s) /\ (k + 1) - 1 = k
    BY <1>1
  <2> QED BY <1>1, <1>2, <1>3, <2>1 DEF IsKeeping
<1>7. \A k \in 1..n : t[k] \in Message
  BY <1>1, ElementOfSeq
<1> HIDE DEF t, n, f
<1> DEFINE G == {k \in 0..n : p[k + 1] = f \o q[k]}
<1>8. 0 \in G /\ \A k \in 1..n : k - 1 \in G => k \in G
  <2>1. 0 \in G
    <3>1. f \o <<>> = f
      BY <1>4, ConcatEmptySeq
    <3>2. 0 \in 0..n /\ 0 + 1 = 1
      BY <1>1
    <3> QED BY <1>5, <1>6, <3>1, <3>2
  <2>2. ASSUME NEW k \in 1..n, k - 1 \in G PROVE k \in G
    <3>1. (k - 1) + 1 = k /\ k - 1 \in 0..n /\ k \in 0..n /\ p[(k - 1) + 1] = f \o q[k - 1]
      BY <1>1, <2>2
    <3>2. q[k - 1] \in Seq(Message) /\ t[k] \in Message
      BY <1>6, <1>7, <3>1
    <3>3. Kept(f \o q[k - 1], t[k]) = f \o Kept(q[k - 1], t[k])
      BY <1>4, <3>2, FrontKept
    <3> QED BY <1>6, <3>1, <3>3
  <2> QED BY <2>1, <2>2
<1>9. 0..n \subseteq G
  <2> HIDE DEF G
  <2> QED BY <1>1, <1>8, UpTo
<1>10. n \in 0..n
  BY <1>1
<1> QED BY <1>2, <1>3, <1>9, <1>10 DEF t, f

(***************************************************************************)
(* What a step does to the channel: nothing, an offer, an arrival at the   *)
(* broker, or the loss of the oldest ones with a connection.               *)
(***************************************************************************)
OnlyReports(s) == \A n \in 1..Len(s) : s[n].kind = "report"

ChannelInv ==
  /\ OnlyReports(queue) /\ OnlyReports(job) /\ OnlyReports(draft)
  /\ \A n \in 1..Len(draft) : draft[n].ver = issued

Offered == issued - Len(draft)

Quiet == UNCHANGED <<Carried, Offered, arrived>>

Offering ==
  /\ Offered' = Offered + 1
  /\ \/ \E m \in Message : m.ver = Offered' /\ Carried' = Append(Carried, m)
     \/ UNCHANGED Carried
  /\ UNCHANGED arrived

Arriving ==
  /\ Carried # <<>>
  /\ Head(Carried).kind = "report"
  /\ Carried' = Tail(Carried)
  /\ arrived' = Append(arrived, Head(Carried))
  /\ UNCHANGED Offered

\* An answer arrives, which the channel has nothing to do with.
Answering ==
  /\ \E m \in Message : m.kind # "report" /\ arrived' = Append(arrived, m)
  /\ UNCHANGED <<Carried, Offered>>

Losing ==
  /\ client # "up" \/ client' # "up"
  /\ \E a \in Seq(Message) : Carried = a \o Carried'
  /\ UNCHANGED <<Offered, arrived>>

ChannelStep == Quiet \/ Offering \/ Arriving \/ Answering \/ Losing

LEMMA CarriedTyped ==
  ASSUME TypeOK
  PROVE  /\ Reports(inflight) \in Seq(Message) /\ job \in Seq(Message) /\ queue \in Seq(Message)
         /\ Carried \in Seq(Message)
<1>1. Reports(inflight) \in Seq(Message) /\ job \in Seq(Message) /\ queue \in Seq(Message)
  BY SequencesTyped, ReportsTyped
<1> QED BY <1>1, ConcatProperties DEF Carried

LEMMA OnlyReportsAppend ==
  ASSUME NEW s \in Seq(Message), NEW m \in Message, OnlyReports(s), m.kind = "report"
  PROVE  OnlyReports(Append(s, m))
BY AppendElements DEF OnlyReports

LEMMA OnlyReportsTail ==
  ASSUME NEW s \in Seq(Message), s # <<>>, OnlyReports(s)
  PROVE  OnlyReports(Tail(s)) /\ Head(s).kind = "report"
BY TailElements DEF OnlyReports

LEMMA OnlyReportsOne ==
  ASSUME NEW m
  PROVE  /\ m.kind = "report" => OnlyReports(<<m>>)
         /\ OnlyReports(<<>>)
BY DEF OnlyReports

\* One message more is one report more, or none.
LEMMA ReportsOne ==
  ASSUME NEW m \in Message
  PROVE  Reports(<<m>>) = Front(m)
<1>1. Append(<<>>, m) = <<m>> /\ <<>> \in Seq(Message)
  BY EmptySeq
<1>2. Reports(Append(<<>>, m)) = Kept(<<>>, m)
  BY <1>1, ReportsAppend, ReportsEmpty
<1> QED BY <1>1, <1>2 DEF Kept, Front

\* publish_now() of a message that is next in the channel keeps the channel as it
\* is, or loses the oldest ones.
LEMMA PublishNowReport ==
  ASSUME TypeOK, NEW m \in Message, m.kind = "report", PublishNow(m),
         NEW q \in Seq(Message)
  PROVE  \/ (Reports(inflight') \o <<>>) \o q = (Reports(inflight) \o <<m>>) \o q
         \/ /\ client # "up" \/ client' # "up"
            /\ \E a \in Seq(Message) :
                 (Reports(inflight) \o <<m>>) \o q = a \o ((Reports(inflight') \o <<>>) \o q)
<1> DEFINE r == Reports(inflight)
<1>1. r \in Seq(Message) /\ inflight \in Seq(Message) /\ <<m>> \in Seq(Message)
  BY SequencesTyped, ReportsTyped
<1>2. CASE client = "up" /\ inflight' = Append(inflight, m)
  <2>1. Reports(inflight') = r \o <<m>>
    BY <1>1, <1>2, ReportsAppend, AppendIsConcat DEF Kept
  <2>2. r \o <<m>> \in Seq(Message)
    BY <1>1, ConcatProperties
  <2> HIDE DEF r
  <2>3. (r \o <<m>>) \o <<>> = r \o <<m>>
    BY <2>2, ConcatEmptySeq
  <2> QED BY <2>1, <2>3 DEF r
<1>3. CASE client # "up" /\ inflight' = <<m>>
  <2>1. Reports(inflight') = <<m>>
    BY <1>3, ReportsOne DEF Front
  <2> HIDE DEF r
  <2>2. <<m>> \o <<>> = <<m>> /\ (r \o <<m>>) \o q = r \o (<<m>> \o q)
    BY <1>1, ConcatEmptySeq, ConcatAssociative
  <2> QED BY <1>1, <1>3, <2>1, <2>2 DEF r
<1>4. CASE client' # "up" /\ inflight' = <<>>
  <2>1. Reports(inflight') = <<>>
    BY <1>4, ReportsEmpty
  <2> HIDE DEF r
  <2>2. <<>> \in Seq(Message) /\ <<>> \o <<>> = <<>> /\ <<>> \o q = q
    BY EmptySeq, ConcatEmptySeq
  <2>3. r \o <<m>> \in Seq(Message)
    BY <1>1, ConcatProperties
  <2> QED BY <1>4, <2>1, <2>2, <2>3 DEF r
<1> QED BY <1>2, <1>3, <1>4 DEF PublishNow, NewSession, NoSession

\* Without its connections the channel has lost what was in front.
LEMMA FrontLost ==
  ASSUME NEW r \in Seq(Message), NEW j \in Seq(Message), NEW q \in Seq(Message)
  PROVE  /\ \E a \in Seq(Message) : (r \o j) \o q = a \o ((<<>> \o j) \o q)
         /\ \E a \in Seq(Message) : (r \o j) \o q = a \o ((<<>> \o <<>>) \o q)
<1>1. <<>> \in Seq(Message) /\ <<>> \o <<>> = <<>> /\ <<>> \o j = j /\ <<>> \o q = q
  BY EmptySeq, ConcatEmptySeq
<1>2. (r \o j) \o q = r \o (j \o q) /\ r \o j \in Seq(Message)
  BY ConcatAssociative, ConcatProperties
<1> QED BY <1>1, <1>2

LEMMA AppendToCarried ==
  ASSUME TypeOK, NEW m \in Message, queue' = Append(queue, m), UNCHANGED <<job, inflight>>
  PROVE  Carried' = Append(Carried, m)
<1>1. /\ Reports(inflight) \in Seq(Message) /\ job \in Seq(Message) /\ queue \in Seq(Message)
      /\ Carried \in Seq(Message) /\ <<m>> \in Seq(Message)
  BY CarriedTyped
<1> DEFINE s == Reports(inflight) \o job
<1>2. s \in Seq(Message) /\ Carried = s \o queue /\ Carried' = s \o Append(queue, m)
  BY <1>1, ConcatProperties DEF Carried
<1> HIDE DEF s
<1>3. Append(queue, m) = queue \o <<m>> /\ Append(Carried, m) = Carried \o <<m>>
  BY <1>1, AppendIsConcat
<1> QED BY <1>1, <1>2, <1>3, ConcatAssociative

LEMMA HeadThenTail ==
  ASSUME NEW s \in Seq(Message), s # <<>>
  PROVE  s = <<Head(s)>> \o Tail(s)
<1>1. /\ Head(s) = s[1] /\ Head(s) \in Message /\ Len(s) \in Nat \ {0}
      /\ Tail(s) \in Seq(Message) /\ Len(Tail(s)) = Len(s) - 1
      /\ \A n \in 1..Len(Tail(s)) : n + 1 \in 1..Len(s) /\ Tail(s)[n] = s[n + 1]
  BY TailElements
<1>2. <<Head(s)>> \in Seq(Message) /\ Len(<<Head(s)>>) = 1 /\ <<Head(s)>>[1] = Head(s)
  BY <1>1
<1> DEFINE h == <<Head(s)>>   t == Tail(s)
<1> HIDE DEF h, t
<1>3. /\ h \o t \in Seq(Message) /\ Len(h \o t) = 1 + Len(t)
      /\ \A n \in 1..(1 + Len(t)) : (h \o t)[n] = IF n <= 1 THEN h[n] ELSE t[n - 1]
  BY <1>1, <1>2, ConcatProperties DEF h, t
<1>4. \A n \in 1..Len(s) : s[n] = (h \o t)[n]
  BY <1>1, <1>2, <1>3 DEF h, t
<1>5. Len(s) = Len(h \o t)
  BY <1>1, <1>3 DEF t
<1> QED BY <1>3, <1>4, <1>5, SeqEqual DEF h, t

LEMMA FirstOfRest ==
  ASSUME NEW h \in Message, NEW t \in Seq(Message)
  PROVE  <<h>> \o t # <<>> /\ Head(<<h>> \o t) = h /\ Tail(<<h>> \o t) = t
<1> DEFINE s == <<h>> \o t
<1>1. <<h>> \in Seq(Message) /\ Len(<<h>>) = 1 /\ <<h>>[1] = h /\ Len(t) \in Nat
  BY LenProperties
<1>2. /\ s \in Seq(Message) /\ Len(s) = 1 + Len(t)
      /\ \A n \in 1..(1 + Len(t)) : s[n] = IF n <= 1 THEN <<h>>[n] ELSE t[n - 1]
  BY <1>1, ConcatProperties
<1> HIDE DEF s
<1>3. s # <<>>
  BY <1>1, <1>2
<1>4. Head(s) = s[1] /\ Tail(s) \in Seq(Message) /\ Len(Tail(s)) = Len(t)
      /\ \A n \in 1..Len(t) : Tail(s)[n] = s[n + 1]
  BY <1>1, <1>2, <1>3, TailElements
<1>5. \A n \in 1..Len(t) : Tail(s)[n] = t[n]
  <2> SUFFICES ASSUME NEW n \in 1..Len(t) PROVE Tail(s)[n] = t[n]
    OBVIOUS
  <2>1. n + 1 \in 1..(1 + Len(t)) /\ ~(n + 1 <= 1) /\ (n + 1) - 1 = n
    BY <1>1
  <2> QED BY <1>2, <1>4, <2>1
<1>6. Tail(s) = t
  BY <1>4, <1>5, SeqEqual
<1> QED BY <1>1, <1>2, <1>3, <1>4, <1>6 DEF s

\* A step that finds or leaves the link down and forgets what was in flight, and
\* possibly the message in hand, is a loss.
LEMMA SessionLost ==
  ASSUME TypeOK, ChannelInv, UNCHANGED <<queue, draft, issued, arrived>>,
         client # "up" \/ client' # "up",
         Reports(inflight') = <<>>, job' = job \/ job' = <<>>
  PROVE  Losing /\ ChannelInv'
<1>1. Reports(inflight) \in Seq(Message) /\ job \in Seq(Message) /\ queue \in Seq(Message)
  BY CarriedTyped
<1>2. Carried = (Reports(inflight) \o job) \o queue
  BY DEF Carried
<1>3. Carried' = (<<>> \o job) \o queue \/ Carried' = (<<>> \o <<>>) \o queue
  BY DEF Carried
<1>4. \E a \in Seq(Message) : Carried = a \o Carried'
  <2> DEFINE r == Reports(inflight)
  <2>1. r \in Seq(Message) /\ job \in Seq(Message) /\ queue \in Seq(Message)
    BY <1>1
  <2>2. Carried = (r \o job) \o queue
    BY <1>2
  <2> HIDE DEF r
  <2>3. /\ \E a \in Seq(Message) : (r \o job) \o queue = a \o ((<<>> \o job) \o queue)
        /\ \E a \in Seq(Message) : (r \o job) \o queue = a \o ((<<>> \o <<>>) \o queue)
    BY <2>1, FrontLost
  <2> QED BY <1>3, <2>2, <2>3
<1>5. Losing
  BY <1>4 DEF Losing, Offered
<1>6. OnlyReports(job')
  BY OnlyReportsOne DEF ChannelInv
<1>7. ChannelInv'
  BY <1>6 DEF ChannelInv
<1> QED BY <1>5, <1>7

LEMMA ChannelMoves ==
  ASSUME TypeOK, OrderInv, ChannelInv, [Next]_vars
  PROVE  ChannelStep /\ ChannelInv'
<1> USE DEF ChannelStep
<1>0. /\ Reports(inflight) \in Seq(Message) /\ job \in Seq(Message) /\ queue \in Seq(Message)
      /\ Carried \in Seq(Message) /\ inflight \in Seq(Message) /\ draft \in Seq(Message)
      /\ issued \in Nat
  BY CarriedTyped, SequencesTyped
<1>1. ASSUME NEW m \in Meter, ReportBatch(m)
      PROVE  ChannelStep /\ ChannelInv'
  <2> DEFINE msg == ReportOf({m} \X Di, issued + 1)
  <2>1. draft = <<>> /\ Len(draft) = 0 /\ draft' = <<>> /\ issued' = issued + 1
    BY <1>1 DEF ReportBatch, OrderInv
  <2>2. msg \in Message /\ msg.kind = "report" /\ msg.ver = issued + 1
    <3>1. issued + 1 \in 0..MaxReports /\ {m} \X Di \in SUBSET Key
      BY <1>0, <1>1, BoundsAssumption DEF ReportBatch, Key
    <3> QED BY <3>1, ReportTyped DEF ReportOf
  <2> HIDE DEF msg
  <2>3. /\ \/ queue' = Append(queue, msg) /\ Carried' = Append(Carried, msg)
           \/ UNCHANGED queue /\ UNCHANGED Carried
        /\ OnlyReports(queue')
    <3>1. Enqueue(msg) /\ UNCHANGED <<job, inflight>>
      BY <1>1 DEF ReportBatch, worker, session, msg
    <3>2. CASE queue' = Append(queue, msg)
      <4>1. OnlyReports(queue')
        BY <1>0, <2>2, <3>2, OnlyReportsAppend DEF ChannelInv
      <4>2. Carried' = Append(Carried, msg)
        BY <1>0, <2>2, <3>1, <3>2, AppendToCarried
      <4> QED BY <3>2, <4>1, <4>2
    <3>3. CASE UNCHANGED queue
      BY <3>1, <3>3 DEF Carried, ChannelInv
    <3> QED BY <3>1, <3>2, <3>3 DEF Enqueue
  <2>4. Offered = issued /\ Offered' = issued + 1
    BY <1>0, <2>1 DEF Offered
  <2>5. Offering
    BY <1>1, <2>2, <2>3, <2>4 DEF Offering, ReportBatch
  <2>6. ChannelInv'
    BY <1>1, <2>1, <2>3, OnlyReportsOne DEF ChannelInv, ReportBatch, worker
  <2> QED BY <2>5, <2>6
<1>2. ASSUME NEW k \in Key, Report(k)
      PROVE  ChannelStep /\ ChannelInv'
  <2> DEFINE msg == ReportOf({k}, issued + 1)
  <2>1. draft = <<>> /\ draft' = <<msg>> /\ issued' = issued + 1
    BY <1>2 DEF Report, OrderInv
  <2>2. msg.kind = "report" /\ msg.ver = issued + 1
    BY DEF ReportOf
  <2> HIDE DEF msg
  <2>3. Offered' = Offered
    BY <1>0, <2>1 DEF Offered
  <2>4. Quiet
    BY <1>2, <2>3 DEF Quiet, Report, Carried, worker, session, outside
  <2>5. OnlyReports(draft') /\ \A n \in 1..Len(draft') : draft'[n].ver = issued'
    BY <2>1, <2>2 DEF OnlyReports
  <2>6. ChannelInv'
    BY <1>2, <2>5 DEF ChannelInv, Report, worker
  <2> QED BY <2>4, <2>6
<1>3. CASE ReportEnqueue
  <2> DEFINE msg == draft[1]
  <2>1. draft = <<msg>> /\ msg \in Message /\ draft' = <<>> /\ issued' = issued
    BY <1>3, HeldOne DEF ReportEnqueue, TypeOK
  <2> HIDE DEF msg
  <2>2. msg.kind = "report" /\ msg.ver = issued
    <3>1. Len(draft) = 1 /\ draft[1] = msg
      BY <2>1
    <3> QED BY <3>1 DEF ChannelInv, OnlyReports
  <2>3. /\ \/ queue' = Append(queue, msg) /\ Carried' = Append(Carried, msg)
           \/ UNCHANGED queue /\ UNCHANGED Carried
        /\ OnlyReports(queue')
    <3>1. Enqueue(msg) /\ UNCHANGED <<job, inflight>>
      BY <1>3 DEF ReportEnqueue, worker, session, msg
    <3>2. CASE queue' = Append(queue, msg)
      <4>1. OnlyReports(queue')
        BY <1>0, <2>1, <2>2, <3>2, OnlyReportsAppend DEF ChannelInv
      <4>2. Carried' = Append(Carried, msg)
        BY <2>1, <3>1, <3>2, AppendToCarried
      <4> QED BY <3>2, <4>1, <4>2
    <3>3. CASE UNCHANGED queue
      BY <3>1, <3>3 DEF Carried, ChannelInv
    <3> QED BY <3>1, <3>2, <3>3 DEF Enqueue
  <2>4. Offered = issued - 1 /\ Offered' = issued
    BY <1>0, <2>1 DEF Offered
  <2>5. Offering
    BY <1>0, <1>3, <2>1, <2>2, <2>3, <2>4 DEF Offering, ReportEnqueue
  <2>6. OnlyReports(draft') /\ Len(draft') = 0
    BY <2>1, OnlyReportsOne
  <2>7. ChannelInv'
    BY <1>3, <2>3, <2>6 DEF ChannelInv, ReportEnqueue, worker
  <2> QED BY <2>5, <2>7
<1>4. ASSUME UNCHANGED <<queue, draft, issued, job, inflight, arrived>>
      PROVE  ChannelStep /\ ChannelInv'
  BY <1>4 DEF Quiet, Carried, Offered, ChannelInv
<1>5. CASE WorkerTake
  <2>1. UNCHANGED <<inflight, draft, issued, arrived>>
    BY <1>5 DEF WorkerTake, session, outside
  <2>2. CASE UNCHANGED <<job, queue>>
    BY <1>4, <2>1, <2>2
  <2>3. CASE queue # <<>> /\ job' = <<Head(queue)>> /\ queue' = Tail(queue)
    <3>1. job = <<>>
      BY <1>5 DEF WorkerTake, OrderInv
    <3>2. /\ Head(queue) \in Message /\ Tail(queue) \in Seq(Message)
          /\ queue = <<Head(queue)>> \o Tail(queue)
      BY <1>0, <2>3, TailElements, HeadThenTail
    <3>4. <<Head(queue)>> \in Seq(Message)
      BY <3>2
    <3>5. OnlyReports(Tail(queue)) /\ OnlyReports(<<Head(queue)>>)
      <4>1. OnlyReports(Tail(queue)) /\ Head(queue).kind = "report"
        BY <1>0, <2>3, OnlyReportsTail DEF ChannelInv
      <4> QED BY <4>1, OnlyReportsOne
    <3>3. Carried' = Carried
      <4>1. Reports(inflight) \o <<>> = Reports(inflight)
        BY <1>0, ConcatEmptySeq
      <4>2. (Reports(inflight) \o <<Head(queue)>>) \o Tail(queue)
              = Reports(inflight) \o (<<Head(queue)>> \o Tail(queue))
        <5> DEFINE a == Reports(inflight)   b == <<Head(queue)>>   c == Tail(queue)
        <5>1. a \in Seq(Message) /\ b \in Seq(Message) /\ c \in Seq(Message)
          BY <1>0, <3>2, <3>4
        <5> HIDE DEF a, b, c
        <5>2. (a \o b) \o c = a \o (b \o c)
          BY <5>1, ConcatAssociative
        <5> QED BY <5>2 DEF a, b, c
      <4>3. Carried = Reports(inflight) \o queue
        BY <3>1, <4>1 DEF Carried
      <4>4. Carried' = (Reports(inflight) \o <<Head(queue)>>) \o Tail(queue)
        BY <2>1, <2>3 DEF Carried
      <4>5. Reports(inflight) \o (<<Head(queue)>> \o Tail(queue)) = Reports(inflight) \o queue
        BY <3>2
      <4> QED BY <4>2, <4>3, <4>4, <4>5
    <3>6. ChannelInv'
      BY <2>1, <2>3, <3>5 DEF ChannelInv
    <3>7. Quiet
      BY <2>1, <3>3 DEF Quiet, Offered
    <3> QED BY <3>6, <3>7
  <2> QED BY <1>5, <2>2, <2>3 DEF WorkerTake
<1>6. CASE WorkerClose
  <2>1. UNCHANGED <<queue, job, draft, issued, arrived>> /\ client' # "up" /\ inflight' = <<>>
    BY <1>6 DEF WorkerClose, NoSession, reporter, outside
  <2> QED BY <2>1, SessionLost, ReportsEmpty
<1>7. CASE WorkerOpen
  <2>1. UNCHANGED <<queue, draft, issued, arrived>>
    BY <1>7 DEF WorkerOpen, reporter, outside
  <2>2. CASE UNCHANGED <<job, session>>
    BY <1>4, <2>1, <2>2 DEF session
  <2>3. CASE client # "up" /\ inflight' = <<>> /\ UNCHANGED job
    BY <2>1, <2>3, SessionLost, ReportsEmpty
  <2>4. CASE client # "up" /\ inflight' = <<>> /\ job' = <<>>
    BY <2>1, <2>4, SessionLost, ReportsEmpty
  <2>5. \/ UNCHANGED <<job, session>>
        \/ client # "up" /\ inflight' = <<>> /\ UNCHANGED job
        \/ client # "up" /\ inflight' = <<>> /\ job' = <<>>
    BY <1>7 DEF WorkerOpen, NewSession, NoSession
  <2> QED BY <2>2, <2>3, <2>4, <2>5
<1>8. CASE WorkerAnswer
  <2> DEFINE m == reply[1]
  <2>1. UNCHANGED <<queue, job, draft, issued, arrived>> /\ PublishNow(m) /\ reply # <<>>
    BY <1>8 DEF WorkerAnswer, reporter, outside, TypeOK
  <2>2. m \in Message /\ m.kind # "report"
    <3>1. reply = <<m>> /\ m \in Message
      BY <2>1, HeldOne DEF TypeOK
    <3>2. Len(reply) = 1
      BY <3>1
    <3> QED BY <3>1, <3>2 DEF OrderInv
  <2> HIDE DEF m
  <2>3. CASE inflight' = Append(inflight, m)
    <3>1. Reports(inflight') = Reports(inflight)
      BY <1>0, <2>2, <2>3, ReportsAppend DEF Kept
    <3> QED BY <2>1, <3>1 DEF Quiet, Carried, Offered, ChannelInv
  <2>4. CASE (client # "up" \/ client' # "up") /\ inflight' \in {<<m>>, <<>>}
    <3>1. Reports(inflight') = <<>>
      BY <2>2, <2>4, ReportsEmpty, ReportsOne DEF Front
    <3> QED BY <2>1, <2>4, <3>1, SessionLost
  <2> QED BY <2>1, <2>3, <2>4 DEF PublishNow, NewSession, NoSession
<1>9. CASE WorkerPublish
  <2> DEFINE m == job[1]
  <2>1. /\ UNCHANGED <<queue, draft, issued, arrived>> /\ job' = <<>>
        /\ PublishNow(m) /\ job # <<>>
    BY <1>9 DEF WorkerPublish, reporter, outside, TypeOK
  <2>2. job = <<m>> /\ m \in Message
    BY <2>1, HeldOne DEF TypeOK
  <2> HIDE DEF m
  <2>3. m.kind = "report"
    <3>1. Len(job) = 1 /\ job[1] = m
      BY <2>2
    <3> QED BY <3>1 DEF ChannelInv, OnlyReports
  <2>4. ChannelInv'
    BY <2>1, OnlyReportsOne DEF ChannelInv
  <2>5. /\ Carried = (Reports(inflight) \o <<m>>) \o queue
        /\ Carried' = (Reports(inflight') \o <<>>) \o queue
    BY <2>1, <2>2 DEF Carried
  <2>6. \/ Carried' = Carried
        \/ (client # "up" \/ client' # "up") /\ \E a \in Seq(Message) : Carried = a \o Carried'
    BY <1>0, <2>1, <2>2, <2>3, <2>5, PublishNowReport
  <2> QED BY <2>1, <2>4, <2>6 DEF Quiet, Losing, Offered
<1>10. CASE Deliver
  <2> DEFINE h == Head(inflight)
  <2>1. /\ UNCHANGED <<queue, job, draft, issued>> /\ inflight # <<>>
        /\ arrived' = Append(arrived, h) /\ inflight' = Tail(inflight)
    BY <1>10 DEF Deliver, reporter, worker
  <2>2. h \in Message /\ Tail(inflight) \in Seq(Message)
    BY <1>0, <2>1, TailElements
  <2>3. Reports(inflight) = Front(h) \o Reports(inflight')
    BY <1>0, <2>1, ReportsHead
  <2> HIDE DEF h
  <2> DEFINE r == Reports(inflight')   rest == (r \o job) \o queue
  <2>4. r \in Seq(Message) /\ Carried' = rest
    BY <2>1, <2>2, ReportsTyped DEF Carried
  <2> HIDE DEF r
  <2>5. rest \in Seq(Message) /\ Front(h) \in Seq(Message)
    BY <1>0, <2>2, <2>4, ConcatProperties, FrontTyped
  <2>6. Carried = Front(h) \o rest
    <3>1. r \o job \in Seq(Message)
      BY <1>0, <2>4, ConcatProperties
    <3>2. Carried = ((Front(h) \o r) \o job) \o queue
      BY <2>3 DEF Carried, r
    <3> DEFINE f == Front(h)
    <3>3. f \in Seq(Message) /\ Carried = ((f \o r) \o job) \o queue
      BY <2>5, <3>2
    <3> HIDE DEF f
    <3>7. /\ f \in Seq(Message) /\ r \in Seq(Message) /\ job \in Seq(Message)
          /\ queue \in Seq(Message)
      BY <1>0, <2>4, <3>3
    <3>4. (f \o r) \o job = f \o (r \o job)
      BY <3>7, ConcatAssociative
    <3>5. (f \o (r \o job)) \o queue = f \o ((r \o job) \o queue)
      <4> DEFINE g == r \o job
      <4>1. g \in Seq(Message) /\ f \in Seq(Message) /\ queue \in Seq(Message)
        BY <3>1, <3>7
      <4> HIDE DEF g
      <4>2. (f \o g) \o queue = f \o (g \o queue)
        BY <4>1, ConcatAssociative
      <4> QED BY <4>2 DEF g
    <3>6. Carried = f \o rest
      BY <3>3, <3>4, <3>5
    <3> QED BY <3>6 DEF f
  <2>7. ChannelInv'
    BY <2>1 DEF ChannelInv
  <2> HIDE DEF rest
  <2>8. CASE h.kind = "report"
    <3>1. Carried = <<h>> \o rest
      BY <2>6, <2>8 DEF Front
    <3>2. Carried # <<>> /\ Head(Carried) = h /\ Tail(Carried) = rest
      BY <2>2, <2>5, <3>1, FirstOfRest
    <3> QED BY <2>1, <2>4, <2>7, <2>8, <3>2 DEF Arriving, Offered
  <2>9. CASE h.kind # "report"
    <3>1. Carried = rest
      BY <2>5, <2>6, <2>9, ConcatEmptySeq DEF Front
    <3> QED BY <2>1, <2>2, <2>4, <2>7, <2>9, <3>1 DEF Answering, Offered
  <2> QED BY <2>8, <2>9
<1>11. CASE LinkLost
  <2>1. UNCHANGED <<queue, job, draft, issued, arrived>> /\ client' # "up" /\ inflight' = <<>>
    BY <1>11 DEF LinkLost, reporter, worker, outside
  <2> QED BY <2>1, SessionLost, ReportsEmpty
<1>12. CASE Destroy \/ Join \/ WorkerExit \/ WorkerPoll \/ WorkerIdle
  <2>1. UNCHANGED <<queue, draft, issued, job, inflight, arrived>>
    BY <1>12 DEF Destroy, Join, WorkerExit, WorkerPoll, WorkerIdle, reporter, worker, session, outside
  <2> QED BY <1>4, <2>1
<1>13. ASSUME NEW k \in Key \cup {Malformed}, UserQuery(k)
       PROVE  ChannelStep /\ ChannelInv'
  BY <1>4, <1>13 DEF UserQuery, reporter, worker
<1>14. CASE UNCHANGED vars
  BY <1>4, <1>14 DEF vars, reporter, worker, session, outside
<1> QED
  BY <1>1, <1>2, <1>3, <1>5, <1>6, <1>7, <1>8, <1>9, <1>10, <1>11, <1>12, <1>13, <1>14
  DEF Next, Caller, Worker, Environment, Terminated

(***************************************************************************)
(* The same steps, told in numbers: the steps of Uplink.                   *)
(***************************************************************************)
LEMMA VersionsTyped ==
  ASSUME NEW s \in Seq(Message)
  PROVE  /\ Versions(s) \in Seq(Nat)
         /\ Len(Versions(s)) = Len(s)
         /\ \A i \in 1..Len(s) : Versions(s)[i] = s[i].ver
<1>1. /\ Len(s) \in Nat /\ DOMAIN s = 1..Len(s)
      /\ \A i \in 1..Len(s) : s[i] \in Message
  BY LenProperties, ElementOfSeq
<1>2. \A i \in 1..Len(s) : s[i].ver \in Nat
  BY <1>1, BoundsAssumption DEF Message
<1>3. Versions(s) \in [1..Len(s) -> Nat]
  BY <1>1, <1>2 DEF Versions
<1>4. \A i \in 1..Len(s) : Versions(s)[i] = s[i].ver
  BY <1>1 DEF Versions
<1> HIDE DEF Versions
<1>5. Versions(s) \in Seq(Nat) /\ Len(Versions(s)) = Len(s)
  BY <1>1, <1>3
<1> QED BY <1>4, <1>5

LEMMA VersionsAppend ==
  ASSUME NEW s \in Seq(Message), NEW m \in Message
  PROVE  Versions(Append(s, m)) = Append(Versions(s), m.ver)
<1> DEFINE t == Append(s, m)   v == Versions(s)
<1>1. /\ t \in Seq(Message) /\ Len(t) = Len(s) + 1 /\ Len(s) \in Nat
      /\ \A i \in 1..Len(t) : t[i] = IF i <= Len(s) THEN s[i] ELSE m
  BY AppendElements, LenProperties
<1>2. m.ver \in Nat /\ v \in Seq(Nat) /\ Len(v) = Len(s)
      /\ \A i \in 1..Len(s) : v[i] = s[i].ver
  <2>1. m.ver \in Nat
    BY BoundsAssumption DEF Message
  <2> QED BY <2>1, VersionsTyped
<1> HIDE DEF t, v
<1>3. /\ Versions(t) \in Seq(Nat) /\ Len(Versions(t)) = Len(t)
      /\ \A i \in 1..Len(t) : Versions(t)[i] = t[i].ver
  BY <1>1, VersionsTyped
<1>4. /\ Append(v, m.ver) \in Seq(Nat) /\ Len(Append(v, m.ver)) = Len(v) + 1
      /\ \A i \in 1..Len(Append(v, m.ver)) :
           Append(v, m.ver)[i] = IF i <= Len(v) THEN v[i] ELSE m.ver
  BY <1>2, AppendElements
<1>5. ASSUME NEW i \in 1..Len(Versions(t))
      PROVE  Versions(t)[i] = Append(v, m.ver)[i]
  <2>1. /\ i \in 1..Len(t) /\ i \in 1..Len(Append(v, m.ver))
        /\ i <= Len(s) => i \in 1..Len(s)
    BY <1>1, <1>2, <1>3, <1>4
  <2>2. /\ Versions(t)[i] = t[i].ver
        /\ t[i] = IF i <= Len(s) THEN s[i] ELSE m
        /\ Append(v, m.ver)[i] = IF i <= Len(s) THEN v[i] ELSE m.ver
    BY <1>1, <1>2, <1>3, <1>4, <2>1
  <2>3. i <= Len(s) => v[i] = s[i].ver
    BY <1>2, <2>1
  <2> QED BY <2>2, <2>3
<1>6. Len(Versions(t)) = Len(Append(v, m.ver))
  BY <1>1, <1>2, <1>3, <1>4
<1> QED BY <1>3, <1>4, <1>5, <1>6, SeqEqual DEF t, v

LEMMA VersionsTail ==
  ASSUME NEW s \in Seq(Message), s # <<>>
  PROVE  /\ Versions(s) # <<>>
         /\ Head(Versions(s)) = Head(s).ver
         /\ Versions(Tail(s)) = Tail(Versions(s))
<1> DEFINE t == Tail(s)   v == Versions(s)
<1>1. /\ t \in Seq(Message) /\ Len(t) = Len(s) - 1 /\ Len(s) \in Nat \ {0}
      /\ Head(s) = s[1]
      /\ \A i \in 1..Len(t) : i + 1 \in 1..Len(s) /\ t[i] = s[i + 1]
  BY TailElements
<1>2. /\ v \in Seq(Nat) /\ Len(v) = Len(s)
      /\ \A i \in 1..Len(s) : v[i] = s[i].ver
  BY VersionsTyped
<1> HIDE DEF t, v
<1>3. v # <<>>
  BY <1>1, <1>2
<1>4. /\ Head(v) = v[1] /\ Tail(v) \in Seq(Nat) /\ Len(Tail(v)) = Len(v) - 1
      /\ \A i \in 1..Len(Tail(v)) : Tail(v)[i] = v[i + 1]
  BY <1>2, <1>3, TailElements
<1>5. /\ Versions(t) \in Seq(Nat) /\ Len(Versions(t)) = Len(t)
      /\ \A i \in 1..Len(t) : Versions(t)[i] = t[i].ver
  BY <1>1, VersionsTyped
<1>6. \A i \in 1..Len(Versions(t)) : Versions(t)[i] = Tail(v)[i]
  BY <1>1, <1>2, <1>4, <1>5
<1>7. Len(Versions(t)) = Len(Tail(v))
  BY <1>1, <1>2, <1>4, <1>5
<1>8. 1 \in 1..Len(s)
  BY <1>1
<1>9. Versions(t) = Tail(v)
  BY <1>4, <1>5, <1>6, <1>7, SeqEqual
<1> QED BY <1>1, <1>2, <1>3, <1>4, <1>8, <1>9 DEF t, v

\* What is left behind a prefix is a final stretch of the numbers.
LEMMA VersionsLeft ==
  ASSUME NEW a \in Seq(Message), NEW s \in Seq(Message)
  PROVE  \/ a = <<>>
         \/ LET v == Versions(a \o s) IN
            \E n \in 1..Len(v) : Versions(s) = SubSeq(v, n + 1, Len(v))
<1> DEFINE t == a \o s   v == Versions(t)   n == Len(a)
<1> SUFFICES ASSUME a # <<>>
             PROVE  n \in 1..Len(v) /\ Versions(s) = SubSeq(v, n + 1, Len(v))
  OBVIOUS
<1>1. n \in Nat \ {0} /\ Len(s) \in Nat
  BY LenProperties, EmptySeq
<1>2. /\ t \in Seq(Message) /\ Len(t) = n + Len(s)
      /\ \A i \in 1..(n + Len(s)) : t[i] = IF i <= n THEN a[i] ELSE s[i - n]
  BY ConcatProperties
<1> HIDE DEF t, n
<1>3. /\ v \in Seq(Nat) /\ Len(v) = Len(t)
      /\ \A i \in 1..Len(t) : v[i] = t[i].ver
  BY <1>2, VersionsTyped
<1>4. /\ Versions(s) \in Seq(Nat) /\ Len(Versions(s)) = Len(s)
      /\ \A i \in 1..Len(s) : Versions(s)[i] = s[i].ver
  BY VersionsTyped
<1> HIDE DEF v
<1> DEFINE w == SubSeq(v, n + 1, Len(v))
<1>5. Len(v) = n + Len(s) /\ n \in 1..Len(v)
  BY <1>1, <1>2, <1>3
<1>6. /\ w \in Seq(Nat) /\ Len(w) = Len(s)
      /\ \A i \in 1..Len(s) : w[i] = v[n + i]
  <2> DEFINE l == Len(v)
  <2>1. n + 1 \in 1..(l + 1) /\ l \in Nat /\ l \in (n + 1) - 1..l /\ l - (n + 1) + 1 = Len(s)
    BY <1>1, <1>5
  <2>2. /\ w \in Seq(Nat) /\ Len(w) = IF n + 1 <= l THEN l - (n + 1) + 1 ELSE 0
        /\ \A i \in 1..(l - (n + 1) + 1) : w[i] = v[(n + 1) + i - 1]
    BY <1>1, <1>3, <2>1, SubSeqProperties
  <2>3. \A i \in 1..Len(s) : (n + 1) + i - 1 = n + i
    BY <1>1
  <2> HIDE DEF w
  <2>4. Len(w) = Len(s)
    BY <1>1, <1>5, <2>1, <2>2
  <2> QED BY <2>1, <2>2, <2>3, <2>4
<1> HIDE DEF w
<1>7. ASSUME NEW i \in 1..Len(s)
      PROVE  Versions(s)[i] = w[i]
  <2>1. n + i \in 1..(n + Len(s)) /\ ~(n + i <= n) /\ (n + i) - n = i
    BY <1>1
  <2>2. t[n + i] = s[i]
    BY <1>2, <2>1
  <2>3. v[n + i] = t[n + i].ver
    BY <1>2, <1>3, <2>1
  <2> QED BY <1>4, <1>6, <2>2, <2>3
<1>8. Versions(s) = w
  BY <1>4, <1>6, <1>7, SeqEqual
<1> QED BY <1>5, <1>8 DEF w

CarriedOK == Carried \in Seq(Message)

LEMMA CarriedNext == TypeOK' => Carried' \in Seq(Message)
<1>1. TypeOK => CarriedOK
  BY CarriedTyped DEF CarriedOK
<1>2. TypeOK' => CarriedOK'
  BY <1>1, PTL
<1> QED BY <1>2 DEF CarriedOK

LEMMA StepPromised ==
  ASSUME TypeOK, TypeOK', OrderInv, ChannelInv, [Next]_vars
  PROVE  [Promise!Next]_(Promise!vars)
<1> DEFINE got == Versions(Reports(arrived))
<1>0. /\ Carried \in Seq(Message) /\ Carried' \in Seq(Message)
      /\ arrived \in Seq(Message) /\ Reports(arrived) \in Seq(Message)
  BY CarriedTyped, CarriedNext, SequencesTyped, ReportsTyped
<1>1. CASE Quiet
  BY <1>1 DEF Quiet, Offered, Promise!vars
<1>2. CASE Offering
  <2>1. UNCHANGED got
    BY <1>2 DEF Offering
  <2>2. ASSUME NEW m \in Message, m.ver = Offered', Carried' = Append(Carried, m)
        PROVE  Versions(Carried') = Append(Versions(Carried), Offered')
    BY <1>0, <2>2, VersionsAppend
  <2>3. /\ Offered' = Offered + 1
        /\ \/ Versions(Carried') = Append(Versions(Carried), Offered')
           \/ Versions(Carried') = Versions(Carried)
    BY <1>2, <2>2 DEF Offering
  <2> QED BY <2>1, <2>3 DEF Promise!Next, Promise!Offer, Offered
<1>3. CASE Arriving
  <2> DEFINE h == Head(Carried)
  <2>1. /\ Carried # <<>> /\ h.kind = "report" /\ Carried' = Tail(Carried)
        /\ arrived' = Append(arrived, h) /\ Offered' = Offered
    BY <1>3 DEF Arriving
  <2>2. h \in Message
    BY <1>0, <2>1, TailElements
  <2>3. /\ Versions(Carried) # <<>> /\ Head(Versions(Carried)) = h.ver
        /\ Versions(Carried') = Tail(Versions(Carried))
    BY <1>0, <2>1, VersionsTail
  <2> HIDE DEF h
  <2>4. Reports(arrived') = Append(Reports(arrived), h)
    BY <1>0, <2>1, <2>2, ReportsAppend DEF Kept
  <2>5. Versions(Reports(arrived')) = Append(Versions(Reports(arrived)), h.ver)
    BY <1>0, <2>2, <2>4, VersionsAppend
  <2> QED BY <2>1, <2>3, <2>5 DEF Promise!Next, Promise!Arrive, Offered
<1>4. CASE Answering
  <2>1. PICK m \in Message : m.kind # "report" /\ arrived' = Append(arrived, m)
    BY <1>4 DEF Answering
  <2>2. Reports(arrived') = Reports(arrived)
    BY <1>0, <2>1, ReportsAppend DEF Kept
  <2> QED BY <1>4, <2>2 DEF Answering, Offered, Promise!vars
<1>5. CASE Losing
  <2>1. PICK a \in Seq(Message) : Carried = a \o Carried'
    BY <1>5 DEF Losing
  <2>2. UNCHANGED got /\ Offered' = Offered
    BY <1>5 DEF Losing
  <2>3. CASE a = <<>>
    <3>1. Carried' = Carried
      BY <1>0, <2>1, <2>3, ConcatEmptySeq
    <3> QED BY <2>2, <3>1 DEF Offered, Promise!vars
  <2>4. CASE a # <<>>
    <3>1. \E n \in 1..Len(Versions(Carried)) :
             Versions(Carried') = SubSeq(Versions(Carried), n + 1, Len(Versions(Carried)))
      BY <1>0, <2>1, <2>4, VersionsLeft
    <3> QED BY <2>2, <3>1 DEF Offered, Promise!Next, Promise!Lose
  <2> QED BY <2>3, <2>4
<1>6. ChannelStep
  BY ChannelMoves
<1> QED BY <1>1, <1>2, <1>3, <1>4, <1>5, <1>6 DEF ChannelStep

LEMMA InitPromised == Init => Promise!Init /\ ChannelInv
<1> SUFFICES ASSUME Init PROVE Promise!Init /\ ChannelInv
  OBVIOUS
<1>1. /\ queue = <<>> /\ job = <<>> /\ draft = <<>> /\ inflight = <<>> /\ arrived = <<>>
      /\ issued = 0
  BY DEF Init
<1>2. Reports(inflight) = <<>> /\ Reports(arrived) = <<>>
  BY <1>1, ReportsEmpty
<1>3. <<>> \o <<>> = <<>>
  BY EmptySeq, ConcatEmptySeq
<1>4. Carried = <<>>
  BY <1>1, <1>2, <1>3 DEF Carried
<1>5. Versions(<<>>) = <<>>
  <2>1. <<>> \in Seq(Message) /\ Len(<<>>) = 0
    BY EmptySeq
  <2>2. Versions(<<>>) \in Seq(Nat) /\ Len(Versions(<<>>)) = 0
    BY <2>1, VersionsTyped
  <2> QED BY <2>2
<1>6. Promise!Init
  <2>1. issued - Len(draft) = 0
    <3>1. Len(<<>>) = 0 /\ 0 - 0 = 0
      OBVIOUS
    <3>2. Len(draft) = 0
      BY <1>1, <3>1
    <3> QED BY <1>1, <3>1, <3>2
  <2>2. Versions(Carried) = <<>> /\ Versions(Reports(arrived)) = <<>>
    BY <1>2, <1>4, <1>5
  <2> QED BY <2>1, <2>2 DEF Promise!Init
<1>7. ChannelInv
  BY <1>1 DEF ChannelInv, OnlyReports
<1> QED BY <1>6, <1>7

\* The reporter is a first-in first-out channel that refuses or loses reports
\* but never repeats, reorders or invents one: each step of its threads and of
\* the network is a step of Uplink or leaves Uplink's state alone.
THEOREM SafelyImplemented == Spec => Promise!Init /\ [][Promise!Next]_(Promise!vars)
<1>1. Init => Promise!Init /\ ChannelInv /\ OrderInv
  BY InitPromised, NothingOrdered DEF Init, OrderInv
<1>2. TypeOK /\ OrderInv /\ ChannelInv /\ [Next]_vars => ChannelInv'
  BY ChannelMoves
<1>3. TypeOK /\ TypeOK' /\ OrderInv /\ ChannelInv /\ [Next]_vars
        => [Promise!Next]_(Promise!vars)
  BY StepPromised
<1> QED BY <1>1, <1>2, <1>3, OrderStep, TypeCorrect, PTL DEF Spec

(***************************************************************************)
(* Losses.                                                                 *)
(***************************************************************************)
LEMMA LossStep ==
  ASSUME TypeOK, TypeOK', OrderInv, ChannelInv, [Next]_vars
  PROVE  \A i \in DOMAIN Carried :
           InSeq(Carried[i], Carried') \/ InSeq(Carried[i], arrived')
             \/ client # "up" \/ client' # "up"
<1>0. /\ Carried \in Seq(Message) /\ DOMAIN Carried = 1..Len(Carried)
      /\ Carried' \in Seq(Message) /\ DOMAIN Carried' = 1..Len(Carried')
      /\ arrived \in Seq(Message) /\ Len(Carried) \in Nat
  BY CarriedTyped, CarriedNext, SequencesTyped, LenProperties
<1> SUFFICES ASSUME NEW i \in 1..Len(Carried), client = "up", client' = "up"
             PROVE  InSeq(Carried[i], Carried') \/ InSeq(Carried[i], arrived')
  BY <1>0
<1>1. CASE Carried' = Carried
  BY <1>0, <1>1 DEF InSeq
<1>2. CASE Offering
  <2>1. ASSUME NEW m \in Message, Carried' = Append(Carried, m)
        PROVE  InSeq(Carried[i], Carried')
    <3>1. i \in 1..Len(Carried') /\ Carried'[i] = Carried[i]
      BY <1>0, <2>1, AppendElements
    <3> QED BY <1>0, <3>1 DEF InSeq
  <2> QED BY <1>1, <1>2, <2>1 DEF Offering
<1>3. CASE Arriving
  <2>1. /\ Carried # <<>> /\ Carried' = Tail(Carried)
        /\ arrived' = Append(arrived, Head(Carried))
    BY <1>3 DEF Arriving
  <2>2. /\ Head(Carried) = Carried[1] /\ Head(Carried) \in Message
        /\ Len(Tail(Carried)) = Len(Carried) - 1
        /\ \A n \in 1..Len(Tail(Carried)) : Tail(Carried)[n] = Carried[n + 1]
    BY <1>0, <2>1, TailElements
  <2>3. CASE i = 1
    <3>1. /\ arrived' \in Seq(Message) /\ Len(arrived) \in Nat
          /\ Len(arrived') = Len(arrived) + 1 /\ arrived'[Len(arrived) + 1] = Carried[1]
      BY <1>0, <2>1, <2>2, AppendProperties, LenProperties
    <3>2. Len(arrived) + 1 \in DOMAIN arrived'
      BY <3>1, LenProperties
    <3> QED BY <2>3, <3>1, <3>2 DEF InSeq
  <2>4. CASE i # 1
    <3>1. i - 1 \in 1..Len(Carried') /\ Carried'[i - 1] = Carried[(i - 1) + 1]
      BY <1>0, <2>1, <2>2, <2>4
    <3>2. (i - 1) + 1 = i
      OBVIOUS
    <3> QED BY <1>0, <3>1, <3>2 DEF InSeq
  <2> QED BY <2>3, <2>4
<1>4. Quiet \/ Offering \/ Arriving \/ Answering
  BY ChannelMoves DEF ChannelStep, Losing
<1> QED BY <1>1, <1>2, <1>3, <1>4 DEF Quiet, Answering

\* An accepted report disappears without having reached the broker only with
\* a connection: no other step of the worker, of the caller or of the network
\* loses one.
THEOREM LossExplained == Spec => LossOnlyWithConnection
<1>1. Init => ChannelInv /\ OrderInv
  BY InitPromised, NothingOrdered DEF Init, OrderInv
<1>2. TypeOK /\ OrderInv /\ ChannelInv /\ [Next]_vars => ChannelInv'
  BY ChannelMoves
<1>3. TypeOK /\ TypeOK' /\ OrderInv /\ ChannelInv /\ [Next]_vars
        => [\A i \in DOMAIN Carried :
              InSeq(Carried[i], Carried') \/ InSeq(Carried[i], arrived')
                \/ client # "up" \/ client' # "up"]_vars
  BY LossStep
<1> QED BY <1>1, <1>2, <1>3, OrderStep, TypeCorrect, PTL DEF Spec, LossOnlyWithConnection

(***************************************************************************)
(* Answers and what arrived before them.  The cache is at least as new as  *)
(* all the broker has received, so that an answer taken from it is too;    *)
(* between the cache and the broker nothing passes the answer, because the *)
(* thread that holds it is the one that publishes.                         *)
(***************************************************************************)
\* An answer does not take a topic back behind m; of a report nothing is said.
Follows(n, m) == n.kind = "answer" => NotBehind(n, m)

Settles(s, t) == \A i \in 1..Len(s), j \in 1..Len(t) : Follows(t[j], s[i])

Settled(s) == \A i, j \in 1..Len(s) : i < j => Follows(s[j], s[i])

NewestInv ==
  /\ AllBacked(arrived, cache)
  /\ Settled(arrived) /\ Settled(inflight)
  /\ Settles(arrived, inflight)
  /\ Settles(arrived, reply) /\ Settles(inflight, reply)
  /\ wpc \notin {"replyPoll", "replyIdle"} => reply = <<>>

LEMMA SettlesAppend ==
  ASSUME NEW s \in Seq(Message), NEW t \in Seq(Message), NEW x \in Message, Settles(s, t)
  PROVE  /\ Settles(<<x>>, t) => Settles(Append(s, x), t)
         /\ Settles(s, <<x>>) => Settles(s, Append(t, x))
<1>1. ASSUME Settles(<<x>>, t)
      PROVE  Settles(Append(s, x), t)
  <2>1. \A j \in 1..Len(t) : Follows(t[j], x)
    BY <1>1 DEF Settles
  <2> QED  BY <2>1, AppendElements, LenProperties DEF Settles
<1>2. ASSUME Settles(s, <<x>>)
      PROVE  Settles(s, Append(t, x))
  <2>1. \A i \in 1..Len(s) : Follows(x, s[i])
    BY <1>2 DEF Settles
  <2> QED  BY <2>1, AppendElements, LenProperties DEF Settles
<1> QED  BY <1>1, <1>2

LEMMA SettlesTail ==
  ASSUME NEW s \in Seq(Message), NEW t \in Seq(Message), Settles(s, t)
  PROVE  /\ s # <<>> => Settles(Tail(s), t) /\ Settles(<<Head(s)>>, t)
         /\ t # <<>> => Settles(s, Tail(t)) /\ Settles(s, <<Head(t)>>)
<1>1. ASSUME s # <<>>
      PROVE  Settles(Tail(s), t) /\ Settles(<<Head(s)>>, t)
  BY <1>1, TailElements DEF Settles
<1>2. ASSUME t # <<>>
      PROVE  Settles(s, Tail(t)) /\ Settles(s, <<Head(t)>>)
  BY <1>2, TailElements DEF Settles
<1> QED  BY <1>1, <1>2

LEMMA SettledAppend ==
  ASSUME NEW s \in Seq(Message), NEW x \in Message, Settled(s), Settles(s, <<x>>)
  PROVE  Settled(Append(s, x))
<1>1. \A i \in 1..Len(s) : Follows(x, s[i])
  BY DEF Settles
<1> QED  BY <1>1, AppendElements, LenProperties DEF Settled

LEMMA SettledTail ==
  ASSUME NEW s \in Seq(Message), s # <<>>, Settled(s)
  PROVE  Settled(Tail(s)) /\ Settles(<<Head(s)>>, Tail(s))
<1>1. /\ Head(s) = s[1] /\ Len(s) \in Nat \ {0} /\ Len(Tail(s)) = Len(s) - 1
      /\ \A i \in 1..Len(Tail(s)) : i + 1 \in 1..Len(s) /\ Tail(s)[i] = s[i + 1]
  BY TailElements
<1>2. Settled(Tail(s))
  BY <1>1 DEF Settled
<1>3. Settles(<<Head(s)>>, Tail(s))
  BY <1>1 DEF Settled, Settles
<1> QED  BY <1>2, <1>3

LEMMA SettledOne == ASSUME NEW x PROVE Settled(<<x>>)
  BY DEF Settled

LEMMA NothingSettles ==
  ASSUME NEW s
  PROVE  Settled(<<>>) /\ Settles(<<>>, s) /\ Settles(s, <<>>)
  BY DEF Settled, Settles

\* A report is said nothing of.
LEMMA ReportSettles ==
  ASSUME NEW x, x.kind = "report", NEW s
  PROVE  Settles(s, <<x>>)
  BY DEF Settles, Follows

\* The answer taken from the cache is at least as new as all the cache backs.
LEMMA CachedSettles ==
  ASSUME NEW s, AllBacked(s, cache), NEW q
  PROVE  Settles(s, <<AnswerTo(q)>>)
<1> SUFFICES ASSUME NEW i \in 1..Len(s)
             PROVE  NotBehind(AnswerTo(q), s[i])
  BY DEF Settles, Follows
<1>1. AnswerTo(q).keys = {q.key} /\ AnswerTo(q).ver = cache[q.key]
  BY DEF AnswerTo
<1>2. \A k \in s[i].keys : s[i].ver <= cache[k]
  BY DEF AllBacked, Backed
<1> QED  BY <1>1, <1>2 DEF NotBehind

LEMMA PublishNowSettled ==
  ASSUME TypeOK, NewestInv, NEW m \in Message, PublishNow(m),
         Settles(arrived, <<m>>), Settles(inflight, <<m>>)
  PROVE  Settled(inflight') /\ Settles(arrived, inflight')
<1>0. arrived \in Seq(Message) /\ inflight \in Seq(Message)
  BY SequencesTyped
<1>1. CASE inflight' = Append(inflight, m)
  BY <1>0, <1>1, SettledAppend, SettlesAppend DEF NewestInv
<1>2. CASE inflight' = <<m>>
  BY <1>2, SettledOne
<1>3. CASE inflight' = <<>>
  BY <1>3, NothingSettles
<1> QED  BY <1>1, <1>2, <1>3, PublishNowCarries

LEMMA ReceiveSettled ==
  ASSUME FreshInv, NewestInv, NEW onward, NEW answering, Receive(onward, answering),
         onward \notin {"replyPoll", "replyIdle"}, reply = <<>>
  PROVE  /\ Settles(arrived, reply') /\ Settles(inflight, reply')
         /\ reply' = <<>> \/ wpc' = answering
<1>1. CASE UNCHANGED reply /\ wpc' = onward
  BY <1>1, NothingSettles
<1>2. CASE reply' = <<AnswerTo(Head(inbox))>> /\ wpc' = answering
  BY <1>2, CachedSettles DEF FreshInv, NewestInv
<1> QED  BY <1>1, <1>2 DEF Receive

LEMMA NewestStep ==
  TypeOK /\ FreshInv /\ ChannelInv /\ NewestInv /\ [Next]_vars => NewestInv'
<1> SUFFICES ASSUME TypeOK, FreshInv, ChannelInv, NewestInv, [Next]_vars
             PROVE  NewestInv'
  OBVIOUS
<1>0. arrived \in Seq(Message) /\ inflight \in Seq(Message) /\ reply \in Seq(Message)
  BY SequencesTyped, OptionalIsSeq DEF TypeOK
<1>1. ASSUME NEW keys \in SUBSET Key, issued < MaxReports,
             issued' = issued + 1, cache' = Refreshed(keys, issued + 1)
      PROVE  AllBacked(arrived, cache')
  BY <1>0, <1>1, ReportKeepsBacked, AllBackedGrows DEF NewestInv
<1>2. ASSUME NEW m \in Meter, ReportBatch(m)
      PROVE  NewestInv'
  <2>1. {m} \X Di \in SUBSET Key
    BY DEF Key
  <2>2. AllBacked(arrived, cache')
    BY <1>1, <1>2, <2>1 DEF ReportBatch, ReportOf
  <2> QED  BY <1>2, <2>2 DEF NewestInv, ReportBatch, worker, session
<1>3. ASSUME NEW k \in Key, Report(k)
      PROVE  NewestInv'
  <2>1. AllBacked(arrived, cache')
    BY <1>1, <1>3 DEF Report, ReportOf
  <2> QED  BY <1>3, <2>1 DEF NewestInv, Report, worker, session, outside
<1>4. CASE ReportEnqueue \/ Destroy \/ Join
  BY <1>4 DEF NewestInv, ReportEnqueue, Destroy, Join, worker, session, outside
<1>5. CASE WorkerTake \/ WorkerExit
  BY <1>5 DEF NewestInv, WorkerTake, WorkerExit, reporter, session, outside
<1>6. CASE WorkerClose
  BY <1>6, NothingSettles DEF NewestInv, WorkerClose, NoSession, reporter, outside
<1>7. CASE WorkerOpen
  BY <1>7, NothingSettles
  DEF NewestInv, WorkerOpen, NewSession, NoSession, reporter, session, outside
<1>8. CASE WorkerPoll
  <2>1. reply = <<>>
    BY <1>8 DEF NewestInv, WorkerPoll
  <2> DEFINE onward == IF job # <<>> THEN "publish" ELSE "idle"
  <2>2. onward \notin {"replyPoll", "replyIdle"} /\ Receive(onward, "replyPoll")
    BY <1>8 DEF WorkerPoll
  <2>3. /\ Settles(arrived, reply') /\ Settles(inflight, reply')
        /\ reply' = <<>> \/ wpc' = "replyPoll"
    BY <2>1, <2>2, ReceiveSettled
  <2> QED  BY <1>8, <2>3 DEF NewestInv, WorkerPoll, reporter, outside
<1>9. CASE WorkerIdle
  <2>1. reply = <<>> /\ Receive("take", "replyIdle")
    BY <1>9 DEF NewestInv, WorkerIdle
  <2>2. /\ Settles(arrived, reply') /\ Settles(inflight, reply')
        /\ reply' = <<>> \/ wpc' = "replyIdle"
    BY <2>1, ReceiveSettled
  <2> QED  BY <1>9, <2>2 DEF NewestInv, WorkerIdle, reporter, outside
<1>10. CASE WorkerAnswer
  <2>1. reply[1] \in Message /\ reply = <<reply[1]>> /\ PublishNow(reply[1])
    BY <1>10, HeldOne DEF TypeOK, WorkerAnswer
  <2>2. Settles(arrived, <<reply[1]>>) /\ Settles(inflight, <<reply[1]>>)
    BY <2>1 DEF NewestInv
  <2>3. Settled(inflight') /\ Settles(arrived, inflight')
    BY <2>1, <2>2, PublishNowSettled
  <2> QED  BY <1>10, <2>3, NothingSettles DEF NewestInv, WorkerAnswer, reporter, outside
<1>11. CASE WorkerPublish
  <2>1. job[1] \in Message /\ job = <<job[1]>> /\ PublishNow(job[1])
    BY <1>11, HeldOne DEF TypeOK, WorkerPublish
  <2>2. job[1].kind = "report"
    BY <2>1 DEF ChannelInv, OnlyReports
  <2>3. Settled(inflight') /\ Settles(arrived, inflight')
    BY <2>1, <2>2, ReportSettles, PublishNowSettled
  <2>4. reply = <<>>
    BY <1>11 DEF NewestInv, WorkerPublish
  <2> QED  BY <1>11, <2>3, <2>4, NothingSettles DEF NewestInv, WorkerPublish, reporter, outside
<1>12. CASE Deliver
  <2> DEFINE h == Head(inflight)
  <2>1. inflight # <<>> /\ h \in Message /\ Tail(inflight) \in Seq(Message)
    BY <1>0, <1>12, TailElements DEF Deliver
  <2>2. Backed(h, cache)
    BY <1>0, <2>1, BackedTail DEF FreshInv
  <2>3. /\ Settled(Tail(inflight)) /\ Settles(<<h>>, Tail(inflight))
        /\ Settles(arrived, Tail(inflight)) /\ Settles(arrived, <<h>>)
        /\ Settles(Tail(inflight), reply) /\ Settles(<<h>>, reply)
    BY <1>0, <2>1, SettledTail, SettlesTail DEF NewestInv
  <2> HIDE DEF h
  <2>4. AllBacked(Append(arrived, h), cache) /\ Settled(Append(arrived, h))
    BY <1>0, <2>1, <2>2, <2>3, BackedAppend, SettledAppend DEF NewestInv
  <2>5. Settles(Append(arrived, h), Tail(inflight)) /\ Settles(Append(arrived, h), reply)
    BY <1>0, <2>1, <2>3, SettlesAppend DEF NewestInv
  <2>6. /\ arrived' = Append(arrived, h) /\ inflight' = Tail(inflight)
        /\ UNCHANGED <<reply, cache, wpc>>
    BY <1>12 DEF Deliver, reporter, worker, h
  <2> QED  BY <2>3, <2>4, <2>5, <2>6 DEF NewestInv
<1>13. CASE LinkLost
  BY <1>13, NothingSettles DEF NewestInv, LinkLost, reporter, worker, outside
<1>14. ASSUME NEW k \in Key \cup {Malformed}, UserQuery(k)
       PROVE  NewestInv'
  BY <1>14 DEF NewestInv, UserQuery, reporter, worker
<1>15. CASE UNCHANGED vars
  BY <1>15 DEF NewestInv, vars, reporter, worker, session, outside
<1> QED
  BY <1>2, <1>3, <1>4, <1>5, <1>6, <1>7, <1>8, <1>9, <1>10, <1>11, <1>12, <1>13,
     <1>14, <1>15
  DEF Next, Caller, Worker, Environment, Terminated

\* An answer to a query is at least as new as everything the broker received of
\* the item before it.
THEOREM AnswersAreNewest == Spec => []AnswerNewest
<1>1. Init => ChannelInv /\ OrderInv /\ FreshInv /\ NewestInv
  <2>1. Init => ChannelInv /\ OrderInv
    BY InitPromised, NothingOrdered DEF Init, OrderInv
  <2>2. Init => FreshInv
    BY BackedNone, BoundsAssumption DEF Init, FreshInv, AnswerFresh
  <2>3. Init => NewestInv
    BY BackedNone, NothingSettles DEF Init, NewestInv
  <2> QED  BY <2>1, <2>2, <2>3
<1>2. TypeOK /\ OrderInv /\ ChannelInv /\ [Next]_vars => ChannelInv'
  BY ChannelMoves
<1>3. TypeOK /\ NewestInv => AnswerNewest
  BY SequencesTyped, LenProperties DEF NewestInv, Settled, Follows, AnswerNewest
<1> QED
  BY <1>1, <1>2, <1>3, OrderStep, FreshStep, NewestStep, TypeCorrect, PTL DEF Spec
=============================================================================
