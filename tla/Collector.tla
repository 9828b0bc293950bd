----------------------------- MODULE Collector ------------------------------
(***************************************************************************)
(* The program, src/src/main.cpp: load and validate the configuration,     *)
(* open the serial ports, construct scheduler and reporter, install the    *)
(* signal handlers, poll until a signal, destroy the reporter, exit.       *)
(*                                                                         *)
(* The polling is that of Scheduler, its variables under the same names.   *)
(* Of the reporter the model keeps how many messages wait and whether the  *)
(* worker has one in hand; MqttReporter has the rest.  A signal runs its   *)
(* handler on one of the threads, which does nothing else meanwhile.       *)
(***************************************************************************)
EXTENDS Config

CONSTANTS Files,         \* configuration files
          AnswerSizes,   \* sizes of the value in an answer, in bytes
          SignalInLog,   \* whether a signal may interrupt a call of the logger
          MaxSignals,    \* bound: signals
          MaxBacklog     \* bound: messages waiting

IsSeq(s) == s \in Seq({s[n] : n \in DOMAIN s})

ASSUME FilesAssumption == \A f \in Files : IsSeq(f.meters) /\ IsSeq(f.data_items)
\* An int and the size of a frame are far below the values of std::size_t.
ASSUME LengthAssumption ==
  \A f \in Files, size \in AnswerSizes : \A n \in DOMAIN f.data_items :
    LET length == f.data_items[n].length IN
    /\ size \in Nat
    /\ length \notin {Absent, Garbled} => length \in Int /\ size < SizeValues + length
\* Where YAML hands over anything, it is of the type that is asked for.
HandsOver(field, type) == field \in type \cup {Absent, Garbled}

ASSUME FieldTypeAssumption ==
  \A f \in Files :
    /\ HandsOver(f.mqtt.max_queue, Int)
    /\ HandsOver(f.poll_interval_seconds, Int)
    /\ \A n \in DOMAIN f.meters : HandsOver(f.meters[n].enabled, BOOLEAN)
    /\ \A n \in DOMAIN f.data_items : HandsOver(f.data_items[n].enabled, BOOLEAN)
ASSUME SignalAssumption == SignalInLog \in BOOLEAN
ASSUME BoundsAssumption == MaxSignals \in Nat /\ MaxBacklog \in Nat

VARIABLES
  file,         \* what argv[1] names
  config,       \* <<>> until it is loaded, then <<the configuration>>
  stage,        \* place in main()
  next,         \* the meter whose port is opened next
  readers,      \* per meter <<>>, the null pointer, or <<its device>>
  outcome,      \* "running", "exit0", "exit1", "killed" or "abort"
  handler,      \* the thread that runs signal_handler(), or "none"
  holder,       \* the thread that holds the mutex of the logger, or "nobody"
  arrivals,     \* signals so far
  signalled,    \* one of them came while run() was at work
  worker,       \* the reporter's thread: "none", "alive", "done"
  inHand,       \* it has a message to publish
  backlog,      \* messages in its queue
  running, pc, i, j, batch, nap, shown, uploads, stopped, lateReads

setup   == <<file, config, next, readers>>
process == <<stage, outcome>>
signals == <<handler, holder, arrivals, signalled>>
upload  == <<worker, inHand, backlog>>
polling == <<running, pc, i, j, batch, nap, shown, uploads, stopped, lateReads>>
vars    == <<setup, process, signals, upload, polling>>

Cfg == config[1]

\* What the scheduler sees of the configuration and the readers.
SchedulerConfig ==
  [meters   |-> [n \in DOMAIN Cfg.meters |-> Cfg.meters[n].enabled],
   readers  |-> [n \in DOMAIN readers |-> readers[n] # <<>>],
   items    |-> [n \in DOMAIN Cfg.data_items |-> Cfg.data_items[n].enabled],
   interval |-> Cfg.poll_interval_seconds]

S == INSTANCE Scheduler WITH config <- SchedulerConfig, Configs <- {},
                             Code <- {"success", "decodeFailed", "failed"}

Init ==
  /\ file \in Files
  /\ config = <<>>
  /\ stage = "load"
  /\ next = 1
  /\ readers = <<>>
  /\ outcome = "running"
  /\ handler = "none"
  /\ holder = "nobody"
  /\ arrivals = 0
  /\ signalled = FALSE
  /\ worker = "none"
  /\ inHand = FALSE
  /\ backlog = 0
  /\ S!Constructed

Runs(thread) == outcome = "running" /\ handler # thread

\* A call of the logger gets its mutex.
Logs == holder = "nobody"

Goto(place)  == stage' = place /\ UNCHANGED outcome
Return(code) == outcome' = code /\ UNCHANGED stage

(***************************************************************************)
(* main(), up to the loop.                                                 *)
(***************************************************************************)
Load ==
  /\ Runs("main") /\ stage = "load"
  /\ config' = load(file)
  /\ IF config' = <<>> THEN Return("exit1") ELSE Goto("validate")
  /\ UNCHANGED <<file, next, readers, signals, upload, polling>>

Validate ==
  /\ Runs("main") /\ stage = "validate"
  /\ IF validate(Cfg) = {} THEN Goto("open") ELSE Return("exit1")
  /\ UNCHANGED <<setup, signals, upload, polling>>

\* The reader of a meter, as far as the model knows it; null if disabled.
Reader(m) == IF m.enabled THEN <<m.serial.device>> ELSE <<>>

\* Mutant of push_back: nothing is kept for a meter that is disabled.
push_backEnabled(list, m) == IF m.enabled THEN Append(list, Reader(m)) ELSE list

push_back(list, m) == Append(list, Reader(m))

\* A device may be missing or refuse to open.
OpenPort ==
  LET m == Cfg.meters[next] IN
  /\ Runs("main") /\ stage = "open" /\ next <= Len(Cfg.meters)
  /\ \/ /\ m.enabled => Supported(m.serial)
        /\ readers' = push_back(readers, m)
        /\ next' = next + 1
        /\ UNCHANGED process
     \/ /\ m.enabled
        /\ Return("exit1")
        /\ UNCHANGED <<next, readers>>
  /\ UNCHANGED <<file, config, signals, upload, polling>>

\* Scheduler, reporter with its thread, callbacks and signal handlers.
Construct ==
  /\ Runs("main") /\ stage = "open" /\ next > Len(Cfg.meters)
  /\ Goto("run")
  /\ worker' = IF Cfg.mqtt.enabled THEN "alive" ELSE "none"
  /\ UNCHANGED <<setup, signals, inHand, backlog, polling>>

(***************************************************************************)
(* The polling: Scheduler's steps, with what the callbacks add.            *)
(***************************************************************************)
Turn ==
  /\ \/ Logs /\ S!Run
     \/ (running \/ Logs) /\ S!LoopTest
     \/ S!Sleep \/ S!VisitMeter \/ S!VisitItem
  /\ UNCHANGED <<process, upload>>

\* Mutant of TooShort: the comparison is one of int.
TooShortSigned(size, length) == 4 + size < 4 + length

\* The comparison is one of std::size_t.
TooShort(size, length) == 4 + size < ToSize(4 + length)

\* read_data(): without an answer it can use, with one whose value is too
\* short, with a value; and a range of bytes whose end is before its beginning.
Read ==
  LET length == Cfg.data_items[j].data_length IN
  /\ pc = "read" /\ Logs
  /\ UNCHANGED upload
  /\ \/ S!ReadItem("failed") /\ UNCHANGED process
     \/ \E size \in AnswerSizes :
          \/ TooShort(size, length) /\ S!ReadItem("decodeFailed") /\ UNCHANGED process
          \/ ~TooShort(size, length) /\ length >= 0 /\ S!ReadItem("success")
               /\ UNCHANGED process
          \/ ~TooShort(size, length) /\ length < 0 /\ Return("abort")
               /\ UNCHANGED polling

\* Mutant of Room: the queue may get one longer.
RoomForOneMore == backlog <= Cfg.mqtt.max_queue

\* report_batch(): the queue takes the message.
Room == backlog < Cfg.mqtt.max_queue

Flush ==
  /\ backlog < MaxBacklog
  /\ S!Flush
  /\ backlog' = IF Cfg.mqtt.enabled /\ batch # <<>> /\ Room THEN backlog + 1 ELSE backlog
  /\ UNCHANGED <<process, worker, inHand>>

Poll ==
  /\ Runs("main") /\ stage = "run"
  /\ UNCHANGED <<setup, signals>>
  /\ Turn \/ Read \/ Flush

(***************************************************************************)
(* return 0: ~MqttReporter() asks its thread to finish and joins it, the   *)
(* other objects go, the process ends.                                     *)
(***************************************************************************)
\* Mutant of Joined: the thread is detached.
Detached == TRUE

Joined == worker # "alive"

Finish ==
  /\ Runs("main")
  /\ \/ stage = "run" /\ pc = "returned" /\ Goto("destroy")
     \/ stage = "destroy" /\ Joined /\ Goto("unwound")
     \/ stage = "unwound" /\ Return("exit0")
  /\ UNCHANGED <<setup, signals, upload, polling>>

(***************************************************************************)
(* worker_loop(): it leaves only when nothing is left to publish.          *)
(***************************************************************************)
Worker ==
  /\ Runs("worker") /\ worker = "alive"
  /\ \/ /\ ~inHand /\ backlog > 0
        /\ inHand' = TRUE
        /\ backlog' = backlog - 1
        /\ UNCHANGED worker
     \/ /\ inHand /\ Logs
        /\ inHand' = FALSE
        /\ UNCHANGED <<worker, backlog>>
     \/ /\ stage = "destroy" /\ backlog = 0 /\ ~inHand
        /\ worker' = "done"
        /\ UNCHANGED <<inHand, backlog>>
  /\ UNCHANGED <<setup, process, signals, polling>>

(***************************************************************************)
(* Signals: a handler that runs later, once per signal.                    *)
(***************************************************************************)
Alive(thread) == thread = "main" \/ worker = "alive"

\* The thread may be in a call of the logger.
MayLog(thread) ==
  IF thread = "main" THEN stage = "run" /\ pc \in {"boot", "read"} ELSE inHand

Interrupt(thread) ==
  /\ stage \in {"run", "destroy"}
  /\ Alive(thread)
  /\ handler' = thread
  /\ \/ UNCHANGED holder
     \/ SignalInLog /\ Logs /\ MayLog(thread) /\ holder' = thread
  /\ signalled' = (signalled \/ (stage = "run" /\ pc # "boot"))
  /\ UNCHANGED process

\* No handler yet; or one that uses a scheduler that is gone.
Fatal ==
  /\ \/ stage \in {"load", "validate", "open"} /\ Return("killed")
     \/ stage = "unwound" /\ \/ Return("abort")
                             \/ UNCHANGED process
  /\ UNCHANGED <<handler, holder, signalled>>

Signal ==
  /\ outcome = "running" /\ handler = "none" /\ arrivals < MaxSignals
  /\ arrivals' = arrivals + 1
  /\ Fatal \/ Interrupt("main") \/ Interrupt("worker")
  /\ UNCHANGED <<setup, upload, polling>>

\* Mutant of StopOnce: the handler logs and nothing else.
NoStop == UNCHANGED polling

\* g_scheduler->stop(); again if it comes again.
StopOnce == IF stopped = "yes" THEN UNCHANGED polling ELSE S!Stop

signal_handler ==
  /\ outcome = "running" /\ handler # "none"
  /\ Logs
  /\ handler' = "none"
  /\ UNCHANGED <<setup, process, upload, holder, arrivals, signalled>>
  /\ StopOnce

Terminated == outcome # "running" /\ UNCHANGED vars

main == Load \/ Validate \/ OpenPort \/ Construct \/ Poll \/ Finish

Next == main \/ Worker \/ Signal \/ signal_handler \/ Terminated

\* Each thread runs, and a handler that has been entered.
Spec ==
  /\ Init /\ [][Next]_vars
  /\ WF_vars(main) /\ WF_vars(Worker) /\ WF_vars(signal_handler)
-----------------------------------------------------------------------------
(***************************************************************************)
(* Properties.                                                             *)
(***************************************************************************)
\* The type of the state; max_queue is a std::size_t.
TypeOK ==
  /\ file \in Files
  /\ Len(config) <= 1
  /\ config # <<>> => Cfg.mqtt.max_queue \in Nat
  /\ stage \in {"load", "validate", "open", "run", "destroy", "unwound"}
  /\ next \in Nat \ {0}
  /\ IsSeq(readers)
  /\ outcome \in {"running", "exit0", "exit1", "killed", "abort"}
  /\ handler \in {"none", "main", "worker"}
  /\ holder \in {"nobody", "main", "worker"}
  /\ arrivals \in 0..MaxSignals
  /\ signalled \in BOOLEAN
  /\ worker \in {"none", "alive", "done"}
  /\ inHand \in BOOLEAN
  /\ backlog \in 0..MaxBacklog

\* run() finds for every meter the reader of that meter's own line, at that
\* meter's place, a null pointer for a disabled one, and something to poll: a
\* meter with a reader and an item.
Started == stage \in {"run", "destroy", "unwound"}

ReadyToPoll ==
  Started =>
    /\ readers = [n \in DOMAIN Cfg.meters |-> Reader(Cfg.meters[n])]
    /\ S!Polled = EnabledIn(Cfg.meters)
    /\ S!Polled # {} /\ S!ItemEnabled # {}

\* What there is to poll by the file alone: the meters and items that are not
\* disabled, each meter with a reader.
Says(list) == [n \in DOMAIN list |-> Given(list[n].enabled, TRUE)]

AsFiled(f) ==
  LET seconds == Given(f.poll_interval_seconds, 60) IN
  [meters   |-> Says(f.meters),
   readers  |-> Says(f.meters),
   items    |-> Says(f.data_items),
   interval |-> IF seconds > 0 THEN seconds ELSE 0]

Filed == INSTANCE Scheduler WITH config <- AsFiled(file),
                                 Configs <- {AsFiled(f) : f \in Files},
                                 Code <- {"success", "decodeFailed", "failed"}

\* The program polls as a scheduler does that is given what the file says:
\* main()'s way there, the null pointers among the readers, the callbacks, the
\* signals and the end of main() add no step to the polling and change none.
PollsAsFiled == Filed!Init /\ [][Filed!Next]_(Filed!vars)

\* A program that has found nothing wrong with its file goes on handing over
\* readings until it is stopped or ends.
AcceptedIsPolled ==
  []<>(pc = "flush" /\ batch # <<>>) \/ <>(stopped = "yes" \/ outcome # "running")

\* A signal that comes while run() is at work ends the program.
SignalStops == signalled ~> outcome # "running"

\* How many steps the two threads still make at most.
StepsToExit ==
  IF outcome # "running" THEN 0
  ELSE [load |-> 6, validate |-> 5, open |-> 4, run |-> 3, destroy |-> 2, unwound |-> 1][stage]
         + 3 * S!StepsLeft + 2 * backlog
         + (IF worker = "alive" THEN 1 ELSE 0) + (IF inHand THEN 1 ELSE 0)

\* Once the polling is stopped every step of either thread leaves the program
\* fewer of them, the batch that is still handed over included; signals that
\* come after, and their handlers, add none.
StopLeadsOut ==
  [][stopped = "yes" /\ <<setup, process, upload, polling>>' # <<setup, process, upload, polling>>
       => StepsToExit' < StepsToExit]_vars

\* A program that returns 0 has been stopped by a signal and has handed every
\* reading it queued to the broker, or lost it to a failed connection.
DrainedAtExit ==
  outcome = "exit0" => /\ stopped = "yes"
                       /\ worker # "alive" /\ backlog = 0 /\ ~inHand

\* The program dies of an exception or a bad access only with an enabled item
\* whose length is between -4 and -1, or from a signal after the scheduler is
\* gone.
AbortCause ==
  outcome = "abort" =>
    \/ stage = "unwound"
    \/ \E n \in EnabledIn(Cfg.data_items) : Cfg.data_items[n].data_length \in -4..-1

\* The queue gets no longer than the file says, for a number the file may say.
QueueAsConfigured ==
  Started /\ Cfg.mqtt.enabled /\ file.mqtt.max_queue \in Nat =>
    backlog <= file.mqtt.max_queue

Box == INSTANCE Outbox WITH
  limit    <- ToSize(Given(file.mqtt.max_queue, DefaultMqtt.max_queue)),
  closed   <- stage \in {"destroy", "unwound"},
  finished <- worker = "done"

\* The program uses the reporter as one that MqttReporter implements, with the
\* bound that std::size_t makes of the file's: it hands over nothing once the
\* destructor runs and joins a thread that has nothing left.
OutboxUsed == Box!Spec
=============================================================================
