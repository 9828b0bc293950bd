---------------------------- MODULE MqttReporter ----------------------------
(***************************************************************************)
(* The northbound reporter, src/src/app/mqtt_reporter.cpp: the polling     *)
(* thread hands readings to report() and report_batch(), which refresh the *)
(* per-item cache and put one message in a bounded queue; a worker thread  *)
(* owns the Paho client, connects when it needs to, answers query commands *)
(* from the cache and publishes the queue.  The destructor asks the worker *)
(* to stop and joins it.                                                   *)
(*                                                                         *)
(* One action is one critical section of mutex_, or one call into the Paho *)
(* library made outside it.  A payload is the number of the report it was  *)
(* built for (`issued`), so a larger number is a newer reading.            *)
(***************************************************************************)
EXTENDS Naturals, Sequences

CONSTANTS Meter,        \* names of the configured meters
          Di,           \* data identifiers
          MaxQueue,     \* mqtt.max_queue
          Malformed,    \* stands for the key of a query that does not parse
          MaxReports,   \* bound: calls of report() and report_batch()
          MaxQueries    \* bound: commands users send

Key == Meter \X Di      \* make_cache_key(meter, di)

ASSUME MaxQueueAssumption == MaxQueue \in Nat \ {0}   \* Config::validate
ASSUME BoundsAssumption   == MaxReports \in Nat /\ MaxQueries \in Nat
ASSUME MalformedAssumption == Malformed \notin Key

VARIABLES
  running,      \* running_
  queue,        \* queue_
  cache,        \* last_item_payload_by_key_; 0 where the map has no entry
  caller,       \* the thread that reports and, at the end, destroys
  draft,        \* report(): the message between its two critical sections
  wpc,          \* control point of worker_loop()
  job,          \* worker_loop(): the dequeued message, or <<>>
  reply,        \* handle_query_command(): the answer to publish, or <<>>
  client,       \* "none": client_ is null; "up" / "lost": isConnected or not
  subscribed,   \* the broker holds the cmd/query subscription
  inbox,        \* commands the library has received and not handed over
  inflight,     \* messages accepted by MQTTClient_publish, not yet arrived
  arrived,      \* what the broker has received, in order
  issued,       \* number of reports built so far
  asked,        \* number of queries sent so far
  known         \* newest reading of each key that has left the gateway or
                \* whose report call has returned

reporter == <<running, queue, cache, caller, draft, issued>>
worker   == <<wpc, job, reply>>
session  == <<client, subscribed, inbox, inflight>>
outside  == <<arrived, asked, known>>
vars     == <<reporter, worker, session, outside>>

(***************************************************************************)
(* Messages: reports, and answers to queries.  `seen` is what the user     *)
(* already knew of the key when the query was sent.                        *)
(***************************************************************************)
Message == [kind : {"report", "answer"}, keys : SUBSET Key,
            ver : 0..MaxReports, seen : 0..MaxReports]
Query   == [key : Key \cup {Malformed}, seen : 0..MaxReports]

ReportOf(keys, ver) ==
  [kind |-> "report", keys |-> keys, ver |-> ver, seen |-> 0]

\* The cached payload, or the no_cache reply where there is none (ver = 0).
AnswerTo(q) ==
  [kind |-> "answer", keys |-> {q.key}, ver |-> cache[q.key], seen |-> q.seen]

Control == {"take", "open", "poll", "replyPoll", "publish", "idle",
            "replyIdle", "close", "done"}

Init ==
  /\ running = TRUE
  /\ queue = <<>>
  /\ cache = [k \in Key |-> 0]
  /\ caller = "idle"
  /\ draft = <<>>
  /\ wpc = "take"
  /\ job = <<>>
  /\ reply = <<>>
  /\ client = "none"
  /\ subscribed = FALSE
  /\ inbox = <<>>
  /\ inflight = <<>>
  /\ arrived = <<>>
  /\ issued = 0
  /\ asked = 0
  /\ known = [k \in Key |-> 0]

(***************************************************************************)
(* The reporting thread.                                                   *)
(***************************************************************************)
\* Mutant of Enqueue: the bound is off by one.
EnqueueOffByOne(m) ==
  \/ Len(queue) <= MaxQueue /\ queue' = Append(queue, m)
  \/ Len(queue) > MaxQueue /\ UNCHANGED queue

\* The newest message is the one dropped when the queue is full.
Enqueue(m) ==
  \/ /\ Len(queue) < MaxQueue
     /\ queue' = Append(queue, m)
  \/ /\ Len(queue) >= MaxQueue
     /\ UNCHANGED queue

\* Mutant of Refreshed: an entry the cache already has is kept.
RefreshedOnce(keys, ver) ==
  [k \in Key |-> IF k \in keys /\ cache[k] = 0 THEN ver ELSE cache[k]]

Refreshed(keys, ver) == [k \in Key |-> IF k \in keys THEN ver ELSE cache[k]]

\* What an observer of message m knows of each key.
Learnt(m) ==
  [k \in Key |-> IF k \in m.keys /\ m.ver > known[k] THEN m.ver ELSE known[k]]

\* Mutant of ReportBatch: a full queue is noticed before the cache is touched.
ReportBatchUncached(m) ==
  LET msg == ReportOf({m} \X Di, issued + 1) IN
  /\ caller = "idle"
  /\ issued < MaxReports
  /\ issued' = issued + 1
  /\ Enqueue(msg)
  /\ cache' = IF Len(queue) < MaxQueue THEN Refreshed(msg.keys, msg.ver) ELSE cache
  /\ known' = Learnt(msg)
  /\ UNCHANGED <<running, caller, draft, worker, session, arrived, asked>>

\* report_batch(), given one result per item as the scheduler does: cache and
\* queue change in one critical section.
ReportBatch(m) ==
  LET msg == ReportOf({m} \X Di, issued + 1) IN
  /\ caller = "idle"
  /\ issued < MaxReports
  /\ issued' = issued + 1
  /\ cache' = Refreshed(msg.keys, msg.ver)
  /\ Enqueue(msg)
  /\ known' = Learnt(msg)
  /\ UNCHANGED <<running, caller, draft, worker, session, arrived, asked>>

\* report(): the first critical section refreshes the cache ...
Report(k) ==
  LET msg == ReportOf({k}, issued + 1) IN
  /\ caller = "idle"
  /\ issued < MaxReports
  /\ issued' = issued + 1
  /\ cache' = Refreshed(msg.keys, msg.ver)
  /\ draft' = <<msg>>
  /\ caller' = "cached"
  /\ UNCHANGED <<running, queue, worker, session, outside>>

\* ... and the second one enqueues or drops.
ReportEnqueue ==
  /\ caller = "cached"
  /\ Enqueue(draft[1])
  /\ known' = Learnt(draft[1])
  /\ draft' = <<>>
  /\ caller' = "idle"
  /\ UNCHANGED <<running, cache, issued, worker, session, arrived, asked>>

\* ~MqttReporter(): clear running_ under the lock, then join.
Destroy ==
  /\ caller = "idle"
  /\ running' = FALSE
  /\ caller' = "joining"
  /\ UNCHANGED <<queue, cache, draft, issued, worker, session, outside>>

\* The worker has left its loop and closed the client.
Join ==
  /\ caller = "joining"
  /\ wpc = "done"
  /\ caller' = "returned"
  /\ UNCHANGED <<running, queue, cache, draft, issued, worker, session, outside>>

(***************************************************************************)
(* The Paho client.                                                        *)
(***************************************************************************)
NoSession ==
  /\ client' = "none"
  /\ subscribed' = FALSE
  /\ inbox' = <<>>
  /\ inflight' = <<>>

\* A failed MQTTClient_subscribe is logged and the session is used anyway.
NewSession(msgs) ==
  /\ client' = "up"
  /\ subscribed' \in BOOLEAN
  /\ inbox' = <<>>
  /\ inflight' = msgs

\* publish_now(): reconnects when the link has gone; a failure to connect or
\* to publish destroys the client, and what it held goes with it.
PublishNow(m) ==
  \/ /\ client = "up"
     /\ inflight' = Append(inflight, m)
     /\ UNCHANGED <<client, subscribed, inbox>>
  \/ /\ client # "up"
     /\ NewSession(<<m>>)
  \/ NoSession

(***************************************************************************)
(* worker_loop().                                                          *)
(***************************************************************************)
\* wait_for() returns with a message, after 200 ms, or because of the stop.
WorkerTake ==
  /\ wpc = "take"
  /\ running \/ queue # <<>>
  /\ \/ /\ queue # <<>>
        /\ job' = <<Head(queue)>>
        /\ queue' = Tail(queue)
     \/ /\ queue = <<>>
        /\ UNCHANGED <<job, queue>>
  /\ wpc' = "open"
  /\ UNCHANGED <<running, cache, caller, draft, issued, reply, session, outside>>

\* Mutant of WorkerExit: the stop is obeyed before the queue is empty.
WorkerExitAtOnce ==
  /\ wpc = "take"
  /\ ~running
  /\ wpc' = "close"
  /\ UNCHANGED <<reporter, job, reply, session, outside>>

WorkerExit ==
  /\ wpc = "take"
  /\ ~running
  /\ queue = <<>>
  /\ wpc' = "close"
  /\ UNCHANGED <<reporter, job, reply, session, outside>>

WorkerClose ==
  /\ wpc = "close"
  /\ NoSession
  /\ wpc' = "done"
  /\ UNCHANGED <<reporter, job, reply, outside>>

\* Mutant of WorkerOpen: a message that finds no broker goes back in front.
WorkerOpenRequeue ==
  /\ wpc = "open"
  /\ \/ client = "up" /\ wpc' = "poll" /\ UNCHANGED <<job, queue, session>>
     \/ client # "up" /\ NewSession(<<>>) /\ wpc' = "poll" /\ UNCHANGED <<job, queue>>
     \/ client # "up" /\ NoSession /\ wpc' = "take" /\ job' = <<>> /\ queue' = job \o queue
  /\ UNCHANGED <<running, cache, caller, draft, issued, reply, outside>>

\* ensure_connected(): when it fails the dequeued message is gone.
WorkerOpen ==
  /\ wpc = "open"
  /\ \/ /\ client = "up"
        /\ wpc' = "poll"
        /\ UNCHANGED <<job, session>>
     \/ /\ client # "up"
        /\ NewSession(<<>>)
        /\ wpc' = "poll"
        /\ UNCHANGED job
     \/ /\ client # "up"
        /\ NoSession
        /\ wpc' = "take"
        /\ job' = <<>>
  /\ UNCHANGED <<reporter, reply, outside>>

\* Mutant of Receive: a command that does not parse is not consumed.
ReceiveStuck(onward, answering) ==
  \/ /\ client # "up" \/ inbox = <<>>
     /\ wpc' = onward
     /\ UNCHANGED <<reply, inbox>>
  \/ /\ client = "up" /\ inbox # <<>>
     /\ Head(inbox).key = Malformed
     /\ wpc' = onward
     /\ UNCHANGED <<reply, inbox>>
  \/ /\ client = "up" /\ inbox # <<>>
     /\ Head(inbox).key # Malformed
     /\ inbox' = Tail(inbox)
     /\ reply' = <<AnswerTo(Head(inbox))>>
     /\ wpc' = answering

\* handle_incoming_commands(): at most one command, answered or ignored.
Receive(onward, answering) ==
  \/ /\ client # "up" \/ inbox = <<>>
     /\ wpc' = onward
     /\ UNCHANGED <<reply, inbox>>
  \/ /\ client = "up" /\ inbox # <<>>
     /\ Head(inbox).key = Malformed
     /\ inbox' = Tail(inbox)
     /\ wpc' = onward
     /\ UNCHANGED reply
  \/ /\ client = "up" /\ inbox # <<>>
     /\ Head(inbox).key # Malformed
     /\ inbox' = Tail(inbox)
     /\ reply' = <<AnswerTo(Head(inbox))>>
     /\ wpc' = answering

\* Mutant of WorkerPoll: answering a command starts the loop over.
WorkerPollForgets ==
  /\ wpc = "poll"
  /\ Receive(IF job # <<>> THEN "publish" ELSE "idle", "replyIdle")
  /\ UNCHANGED <<reporter, job, client, subscribed, inflight, outside>>

WorkerPoll ==
  /\ wpc = "poll"
  /\ Receive(IF job # <<>> THEN "publish" ELSE "idle", "replyPoll")
  /\ UNCHANGED <<reporter, job, client, subscribed, inflight, outside>>

WorkerIdle ==
  /\ wpc = "idle"
  /\ Receive("take", "replyIdle")
  /\ UNCHANGED <<reporter, job, client, subscribed, inflight, outside>>

WorkerAnswer ==
  /\ wpc \in {"replyPoll", "replyIdle"}
  /\ PublishNow(reply[1])
  /\ reply' = <<>>
  /\ wpc' = IF wpc = "replyIdle" THEN "take"
            ELSE IF job # <<>> THEN "publish" ELSE "idle"
  /\ UNCHANGED <<reporter, job, outside>>

\* Mutant of WorkerPublish: a message whose publication failed is queued anew.
WorkerPublishRequeue ==
  /\ wpc = "publish"
  /\ PublishNow(job[1])
  /\ queue' = IF client' = "none" THEN Append(queue, job[1]) ELSE queue
  /\ job' = <<>>
  /\ wpc' = "take"
  /\ UNCHANGED <<running, cache, caller, draft, issued, reply, outside>>

\* Mutant of WorkerPublish: the published message is kept.
WorkerPublishKeeps ==
  /\ wpc = "publish"
  /\ PublishNow(job[1])
  /\ wpc' = "take"
  /\ UNCHANGED <<reporter, job, reply, outside>>

WorkerPublish ==
  /\ wpc = "publish"
  /\ PublishNow(job[1])
  /\ job' = <<>>
  /\ wpc' = "take"
  /\ UNCHANGED <<reporter, reply, outside>>

(***************************************************************************)
(* The network, the broker and the users.                                  *)
(***************************************************************************)
Deliver ==
  /\ client = "up"
  /\ inflight # <<>>
  /\ arrived' = Append(arrived, Head(inflight))
  /\ known' = Learnt(Head(inflight))
  /\ inflight' = Tail(inflight)
  /\ UNCHANGED <<reporter, worker, client, subscribed, inbox, asked>>

LinkLost ==
  /\ client = "up"
  /\ client' = "lost"
  /\ subscribed' = FALSE
  /\ inbox' = <<>>
  /\ inflight' = <<>>
  /\ UNCHANGED <<reporter, worker, outside>>

\* The broker forwards the command only to a live subscription.
UserQuery(k) ==
  /\ asked < MaxQueries
  /\ client = "up"
  /\ subscribed
  /\ asked' = asked + 1
  /\ inbox' = Append(inbox, [key |-> k, seen |-> IF k \in Key THEN known[k] ELSE 0])
  /\ UNCHANGED <<reporter, worker, client, subscribed, inflight, arrived, known>>

\* The process ends: the only state with nothing left to do.
Terminated == caller = "returned" /\ UNCHANGED vars

Caller ==
  \/ \E m \in Meter : ReportBatch(m)
  \/ \E k \in Key : Report(k)
  \/ ReportEnqueue
  \/ Destroy
  \/ Join

Worker ==
  \/ WorkerTake \/ WorkerExit \/ WorkerClose \/ WorkerOpen
  \/ WorkerPoll \/ WorkerIdle \/ WorkerAnswer \/ WorkerPublish

Environment ==
  \/ Deliver
  \/ LinkLost
  \/ \E k \in Key \cup {Malformed} : UserQuery(k)

Next == Caller \/ Worker \/ Environment \/ Terminated

\* The worker thread is scheduled and every Paho call it makes is bounded in
\* time (connectTimeout, the disconnect and receive timeouts); report() and
\* join() proceed once they can; a live link carries what it was given.
Fairness ==
  /\ WF_vars(Worker)
  /\ WF_vars(ReportEnqueue)
  /\ WF_vars(Join)
  /\ WF_vars(Deliver)

Spec == Init /\ [][Next]_vars /\ Fairness
-----------------------------------------------------------------------------
(***************************************************************************)
(* Properties.                                                             *)
(***************************************************************************)
Optional(S) == {<<>>} \cup {<<x>> : x \in S}

\* The type of the state, with the bound of the queue and with the control
\* points at which the worker or the caller holds a message.
TypeOK ==
  /\ running \in BOOLEAN
  /\ queue \in Seq(Message) /\ Len(queue) <= MaxQueue
  /\ cache \in [Key -> 0..MaxReports]
  /\ caller \in {"idle", "cached", "joining", "returned"}
  /\ draft \in Optional(Message)
  /\ caller = "cached" => draft # <<>>
  /\ wpc \in Control
  /\ job \in Optional(Message)
  /\ wpc = "publish" => job # <<>>
  /\ reply \in Optional(Message)
  /\ wpc \in {"replyPoll", "replyIdle"} => reply # <<>>
  /\ client \in {"none", "up", "lost"}
  /\ subscribed \in BOOLEAN
  /\ inbox \in Seq(Query)
  /\ inflight \in Seq(Message)
  /\ arrived \in Seq(Message)
  /\ issued \in 0..MaxReports
  /\ asked \in 0..MaxQueries
  /\ known \in [Key -> 0..MaxReports]

\* The broker never receives a report twice or after a newer one, whatever
\* is dropped at a full queue, lost with a connection or interleaved with
\* answers to queries.
UplinkInOrder ==
  \A i, j \in DOMAIN arrived :
    i < j /\ arrived[i].kind = "report" /\ arrived[j].kind = "report"
      => arrived[i].ver < arrived[j].ver

\* The answer to a query is never older than what could be known of the item
\* when the query was sent: a reading whose report call had returned, even
\* one dropped at a full queue, or one the broker had received.  A no_cache
\* reply in particular is given only for an item nobody has seen.
AnswerFresh ==
  \A i \in DOMAIN arrived :
    arrived[i].kind = "answer" => arrived[i].ver >= arrived[i].seen

\* Message n does not take the readers of a topic back behind message m.
NotBehind(n, m) == m.keys \cap n.keys # {} => m.ver <= n.ver

\* An answer is published on the topic of the item it answers for, ahead of the
\* older reports still queued.  It is never older than anything the broker
\* received of the item before it: what takes a topic back is only a report that
\* an answer has overtaken.
AnswerNewest ==
  \A i, j \in DOMAIN arrived :
    i < j /\ arrived[j].kind = "answer" => NotBehind(arrived[j], arrived[i])

\* The reports of a sequence of messages, in their order.
Reports(s) ==
  LET kept[n \in 0..Len(s)] ==
        IF n = 0 THEN <<>>
        ELSE IF s[n].kind = "report" THEN Append(kept[n - 1], s[n]) ELSE kept[n - 1]
  IN kept[Len(s)]

\* The reports the gateway still carries, oldest first.
Carried == Reports(inflight) \o job \o queue

InSeq(m, s) == \E i \in DOMAIN s : s[i] = m

\* A report that was accepted into the queue disappears without having
\* reached the broker only in a step that finds or leaves the link down:
\* handling commands, publishing and shutting down lose nothing by
\* themselves.
LossOnlyWithConnection ==
  [][\A i \in DOMAIN Carried :
       InSeq(Carried[i], Carried') \/ InSeq(Carried[i], arrived')
         \/ client # "up" \/ client' # "up"]_vars

\* When the destructor returns, every accepted report has been given its
\* attempt and the client has been closed.
DrainedOnReturn ==
  caller = "returned" => queue = <<>> /\ job = <<>> /\ client = "none"

\* The destructor returns, broker reachable or not.
ShutdownCompletes == caller = "joining" ~> caller = "returned"

\* Why it does: the steps the worker makes at most before it is done, with
\* what is in the queue, once nothing more comes in.
WorkLeft ==
  6 * Len(queue) +
    [open |-> 7, poll |-> 6, replyPoll |-> 5, publish |-> 3, idle |-> 4,
     replyIdle |-> 3, take |-> 2, close |-> 1, done |-> 0][wpc]

\* After the stop no message starts over and no command, no failure of the
\* link and no late call adds to the work: whatever the worker does leaves it
\* fewer steps, and nobody else's step leaves it more.
DrainAdvances ==
  [][~running /\ <<worker, queue>>' # <<worker, queue>> => WorkLeft' < WorkLeft]_vars

\* A command that reached the connected gateway is taken up, or goes with
\* the connection.
QueriesServed == inbox # <<>> ~> inbox = <<>>

\* As the comment over the subscribe call has it, being connected means being
\* subscribed: a link that stays up serves queries from some point on.
QueryService == <>[](client = "up") => <>[]subscribed

(***************************************************************************)
(* What the reporter promises: Uplink, the order of what it carries, to    *)
(* the polling thread; Outbox, its queue and its end, to main().           *)
(***************************************************************************)
Versions(s) == [i \in DOMAIN s |-> s[i].ver]

Promise == INSTANCE Uplink WITH
  last    <- issued - Len(draft),
  transit <- Versions(Carried),
  arrived <- Versions(Reports(arrived))

UplinkImplemented == Promise!Spec

Box == INSTANCE Outbox WITH
  limit    <- MaxQueue,
  backlog  <- Len(queue),
  inHand   <- job # <<>>,
  closed   <- ~running,
  finished <- wpc = "done"

\* The reporter is what main() takes it for: a message is taken up only before
\* the destructor and while there is room, the worker has one at a time, never
\* gives one back, and is done only when the queue is empty and its hand too.
OutboxImplemented == Box!Spec
=============================================================================
