----------------------------- MODULE Scheduler -----------------------------
(***************************************************************************)
(* The polling loop, src/src/app/scheduler.cpp: run() visits the meters    *)
(* and, for each, the data items in configuration order, hands every       *)
(* result to the result callback and the results of one meter to the batch *)
(* callback, then sleeps in steps of one second.  stop() may be called at  *)
(* any moment from elsewhere; the loop looks at running_ before each       *)
(* meter, each item and each second of sleep.                              *)
(***************************************************************************)
EXTENDS Naturals, Sequences

CONSTANTS Configs,   \* the configurations, with what the readers_ vector holds
          Code       \* what a read can return

\* meters and items: the `enabled` flags; readers: whether readers_[n] is
\* non-null, for a vector that may be shorter than that of the meters.
ASSUME ConfigAssumption ==
  \A c \in Configs :
    /\ c.meters \in Seq(BOOLEAN)
    /\ c.readers \in Seq(BOOLEAN)
    /\ c.items \in Seq(BOOLEAN)
    /\ c.interval \in Nat

VARIABLES
  config,       \* config_ and readers_
  running,      \* running_
  pc,           \* control point of the thread in run()
  i,            \* poll_once(): the meter at hand
  j,            \* poll_once(): the item at hand
  batch,        \* batch_items
  nap,          \* run(): seconds slept
  shown,        \* what the result callback has got during this visit
  uploads,      \* what the batch callback got last, with its meter
  stopped,      \* "no", "early" if stop() came before run(), else "yes"
  lateReads     \* reads made since stop() was called during run()

loop  == <<i, j, batch, nap>>
ghost == <<shown, uploads, stopped, lateReads>>
vars  == <<config, running, pc, loop, ghost>>

NumMeters == Len(config.meters)
NumItems  == Len(config.items)
Interval  == config.interval

ItemEnabled == {n \in DOMAIN config.items : config.items[n]}

\* The meters that are enabled and have a reader.
Polled == {n \in DOMAIN config.meters :
             config.meters[n] /\ n \in DOMAIN config.readers /\ config.readers[n]}

Reading == [item : Nat, code : Code]
Control == {"boot", "loop", "meter", "item", "read", "flush", "sleep", "returned"}

\* A scheduler as its constructor leaves it.
Constructed ==
  /\ running = FALSE
  /\ pc = "boot"
  /\ i = 1
  /\ j = 1
  /\ batch = <<>>
  /\ nap = 0
  /\ shown = <<>>
  /\ uploads = [meter |-> 0, items |-> <<>>]
  /\ stopped = "no"
  /\ lateReads = 0

Init == config \in Configs /\ Constructed

(***************************************************************************)
(* run().                                                                  *)
(***************************************************************************)
Run ==
  /\ pc = "boot"
  /\ running' = TRUE
  /\ pc' = "loop"
  /\ UNCHANGED <<config, loop, ghost>>

\* Mutant of LoopTest: while (true).
LoopForever ==
  /\ pc = "loop"
  /\ pc' = "meter"
  /\ i' = 1
  /\ UNCHANGED <<config, running, j, batch, nap, ghost>>

\* while (running_) poll_once();
LoopTest ==
  /\ pc = "loop"
  /\ \/ running /\ pc' = "meter" /\ i' = 1
     \/ ~running /\ pc' = "returned" /\ UNCHANGED i
  /\ UNCHANGED <<config, running, j, batch, nap, ghost>>

\* Mutant of Sleep: one second too many.
Oversleep ==
  /\ pc = "sleep"
  /\ \/ nap <= Interval /\ running /\ nap' = nap + 1 /\ UNCHANGED pc
     \/ ~(nap <= Interval /\ running) /\ pc' = "loop" /\ UNCHANGED nap
  /\ UNCHANGED <<config, running, i, j, batch, ghost>>

\* One second of sleep, or the end of the sleep loop.
Sleep ==
  /\ pc = "sleep"
  /\ \/ nap < Interval /\ running /\ nap' = nap + 1 /\ UNCHANGED pc
     \/ ~(nap < Interval /\ running) /\ pc' = "loop" /\ UNCHANGED nap
  /\ UNCHANGED <<config, running, i, j, batch, ghost>>

(***************************************************************************)
(* poll_once().                                                            *)
(***************************************************************************)
LeavePoll == pc' = "sleep" /\ nap' = 0

\* Mutant of VisitMeter: batch_items is declared outside the loop.
VisitMeterSameBatch ==
  /\ pc = "meter"
  /\ \/ /\ i > NumMeters \/ ~running
        /\ LeavePoll
        /\ UNCHANGED <<i, j, shown>>
     \/ /\ i <= NumMeters /\ running /\ i \notin Polled
        /\ i' = i + 1
        /\ UNCHANGED <<pc, j, nap, shown>>
     \/ /\ i <= NumMeters /\ running /\ i \in Polled
        /\ shown' = <<>> /\ j' = 1 /\ pc' = "item"
        /\ UNCHANGED <<i, nap>>
  /\ UNCHANGED <<config, running, batch, uploads, stopped, lateReads>>

\* Mutant of VisitMeter: a meter that is not polled ends the round.
VisitMeterReturns ==
  /\ pc = "meter"
  /\ \/ /\ i > NumMeters \/ ~running \/ i \notin Polled
        /\ LeavePoll
        /\ UNCHANGED <<i, j, batch, shown>>
     \/ /\ i <= NumMeters /\ running /\ i \in Polled
        /\ batch' = <<>> /\ shown' = <<>> /\ j' = 1 /\ pc' = "item"
        /\ UNCHANGED <<i, nap>>
  /\ UNCHANGED <<config, running, uploads, stopped, lateReads>>

\* The head of the loop over the meters.
VisitMeter ==
  /\ pc = "meter"
  /\ \/ /\ i > NumMeters \/ ~running
        /\ LeavePoll
        /\ UNCHANGED <<i, j, batch, shown>>
     \/ /\ i <= NumMeters /\ running /\ i \notin Polled
        /\ i' = i + 1
        /\ UNCHANGED <<pc, j, batch, nap, shown>>
     \/ /\ i <= NumMeters /\ running /\ i \in Polled
        /\ batch' = <<>>
        /\ shown' = <<>>
        /\ j' = 1
        /\ pc' = "item"
        /\ UNCHANGED <<i, nap>>
  /\ UNCHANGED <<config, running, uploads, stopped, lateReads>>

\* Mutant of VisitItem: the stop is noticed between meters only.
VisitItemUnstoppable ==
  /\ pc = "item"
  /\ \/ /\ j > NumItems
        /\ pc' = "flush"
        /\ UNCHANGED j
     \/ /\ j <= NumItems /\ j \notin ItemEnabled
        /\ j' = j + 1
        /\ UNCHANGED pc
     \/ /\ j <= NumItems /\ j \in ItemEnabled
        /\ pc' = "read"
        /\ UNCHANGED j
  /\ UNCHANGED <<config, running, i, nap, batch, ghost>>

\* The head of the loop over the items; a stop here drops the batch.
VisitItem ==
  /\ pc = "item"
  /\ \/ /\ j > NumItems
        /\ pc' = "flush"
        /\ UNCHANGED <<j, nap>>
     \/ /\ j <= NumItems /\ ~running
        /\ LeavePoll
        /\ UNCHANGED j
     \/ /\ j <= NumItems /\ running /\ j \notin ItemEnabled
        /\ j' = j + 1
        /\ UNCHANGED <<pc, nap>>
     \/ /\ j <= NumItems /\ running /\ j \in ItemEnabled
        /\ pc' = "read"
        /\ UNCHANGED <<j, nap>>
  /\ UNCHANGED <<config, running, i, batch, ghost>>

\* Mutant of ReadItem: an item that could not be read is tried again.
ReadItemAgain(c) ==
  /\ pc = "read"
  /\ pc' = "item"
  /\ j' = IF c = "success" THEN j + 1 ELSE j
  /\ UNCHANGED <<config, running, i, batch, nap, ghost>>

\* read_data(), the result callback, and the result kept for the batch.
ReadItem(c) ==
  LET r == [item |-> j, code |-> c] IN
  /\ pc = "read"
  /\ shown' = Append(shown, r)
  /\ batch' = Append(batch, r)
  /\ j' = j + 1
  /\ pc' = "item"
  /\ lateReads' = IF stopped = "yes" THEN lateReads + 1 ELSE lateReads
  /\ UNCHANGED <<config, running, i, nap, uploads, stopped>>

\* The batch callback, if there is anything to hand over.
Flush ==
  /\ pc = "flush"
  /\ uploads' = IF batch # <<>> THEN [meter |-> i, items |-> batch] ELSE uploads
  /\ i' = i + 1
  /\ pc' = "meter"
  /\ UNCHANGED <<config, running, j, batch, nap, shown, stopped, lateReads>>

(***************************************************************************)
(* stop(), from a signal handler or another thread.                        *)
(***************************************************************************)
Stop ==
  /\ stopped # "yes"
  /\ running' = FALSE
  /\ stopped' = IF pc = "boot" THEN "early" ELSE "yes"
  /\ UNCHANGED <<config, pc, loop, shown, uploads, lateReads>>

Poller ==
  \/ Run \/ LoopTest \/ Sleep \/ VisitMeter \/ VisitItem \/ Flush
  \/ \E c \in Code : ReadItem(c)

Terminated == pc = "returned" /\ UNCHANGED vars

Next == Poller \/ Stop \/ Terminated

\* The polling thread runs; read_data() and the sleep are bounded in time.
Spec == Init /\ [][Next]_vars /\ WF_vars(Poller)
-----------------------------------------------------------------------------
(***************************************************************************)
(* Properties.                                                             *)
(***************************************************************************)
\* The type of the state.
TypeOK ==
  /\ config \in Configs
  /\ running \in BOOLEAN
  /\ pc \in Control
  /\ i \in 1..NumMeters + 1
  /\ pc \in {"item", "read", "flush"} => i \in Polled
  /\ j \in 1..NumItems + 1
  /\ pc = "read" => j \in ItemEnabled
  /\ batch \in Seq(Reading)
  /\ nap \in 0..Interval
  /\ shown \in Seq(Reading)
  /\ uploads \in [meter : Nat, items : Seq(Reading)]
  /\ stopped \in {"no", "early", "yes"}
  /\ lateReads \in Nat

\* A batch handed over is complete and of one visit: one result per enabled
\* item, in configuration order, and just what the result callback was shown
\* of this meter in this visit.  A visit cut short by a stop hands over
\* nothing.
Complete(items) ==
  /\ {items[n].item : n \in DOMAIN items} = ItemEnabled
  /\ \A m, n \in DOMAIN items : m < n => items[m].item < items[n].item

BatchWhole ==
  [][ItemEnabled # {} /\ pc = "flush" /\ pc' # pc =>
       /\ uploads'.meter = i /\ i \in Polled
       /\ Complete(uploads'.items)
       /\ uploads'.items = shown]_vars

\* Once stop() has been called on the running loop, at most the read already
\* decided on is made.
OneReadAfterStop == lateReads <= 1

\* A stop of the running loop makes run() return.
StopReturns == stopped = "yes" ~> pc = "returned"

\* Every meter that can be polled is polled again and again until the stop,
\* whichever meters before it are disabled or have no reader.
MeterIndex == UNION {DOMAIN c.meters : c \in Configs}

EveryMeterPolled ==
  \A m \in MeterIndex :
    m \in Polled => []<>(pc = "flush" /\ i = m) \/ <>(stopped = "yes")

\* Why StopReturns holds: how many steps the loop still makes at most, from
\* each of its places, once it has been stopped.
StepsLeft ==
  [boot |-> 7, read |-> 6, item |-> 5, flush |-> 4, meter |-> 3, sleep |-> 2,
   loop |-> 1, returned |-> 0][pc]

\* After a stop of the running loop no step leads back: each step of the loop
\* has fewer steps after it, whatever is left of the meters, the items and the
\* sleep, so that the seventh is never made.
StopIsPrompt == [][stopped = "yes" => StepsLeft' < StepsLeft]_vars

\* The steps that a visit and a round have before them at most.
VisitLeft ==
  [item |-> 2 * (NumItems - j) + 4, read |-> 2 * (NumItems - j) + 3, flush |-> 1][pc]

RoundLeft ==
  LET visits(n) == n * (2 * NumItems + 3) IN
  CASE pc = "meter" -> Interval + 2 + visits(NumMeters + 1 - i)
    [] pc \in {"item", "read", "flush"} -> Interval + 2 + visits(NumMeters - i) + VisitLeft
    [] pc = "sleep" -> Interval + 1 - nap
    [] OTHER -> 0

\* A round comes to its end, failed reads, disabled meters and items and
\* missing readers or not: each step of the loop within it leaves it fewer.
RoundEnds ==
  [][pc \notin {"boot", "loop"} /\ UNCHANGED running => RoundLeft' < RoundLeft]_vars

\* The meters that can be polled and lie between meters m and n of the cycle.
Between(m, n) ==
  {k \in Polled : IF m < n THEN m < k /\ k < n ELSE m < k \/ k < n}

\* The meters hand over their batches in turn: between two handovers no meter
\* that can be polled is passed over, in one round or from one to the next.
InTurn ==
  [][ItemEnabled # {} /\ pc = "flush" /\ pc' # pc =>
       Between(uploads.meter, uploads'.meter) = {}]_vars

\* run() blocks until stop() has been called, and no longer: after a stop the
\* loop is never found running.
StopIsFinal == stopped # "no" => ~running
=============================================================================
