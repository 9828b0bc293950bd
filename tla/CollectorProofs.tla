-------------------------- MODULE CollectorProofs ---------------------------
(***************************************************************************)
(* Theorems about Collector for every set of files.                        *)
(***************************************************************************)
EXTENDS Collector, TLAPS

(***************************************************************************)
(* The way to the loop: what main() has made of the file when it starts to *)
(* poll.                                                                   *)
(***************************************************************************)
Checked == stage \notin {"load", "validate"}

Loaded ==
  /\ file \in Files
  /\ config \in {<<>>, load(file)}
  /\ stage # "load" => config # <<>>
  /\ Checked => validate(Cfg) = {}

Opened ==
  /\ next \in Nat \ {0}
  /\ ~Checked => next = 1
  /\ Checked => next <= Len(Cfg.meters) + 1
  /\ Started => next = Len(Cfg.meters) + 1
  /\ readers = [n \in 1..next - 1 |-> Reader(Cfg.meters[n])]

\* A loaded configuration has a list of meters, one per meter of the file.
LEMMA MetersListed ==
  ASSUME file \in Files, config = load(file), config # <<>>
  PROVE  /\ Len(Cfg.meters) \in Nat
         /\ DOMAIN Cfg.meters = 1..Len(Cfg.meters)
<1> DEFINE base == parse_serial_node(file.serial, DefaultSerial)
           listed == [n \in DOMAIN file.meters |-> LoadedMeter(file.meters[n], base)]
<1>1. Cfg.meters = listed
  BY DEF load, Cfg
<1>2. file.meters \in Seq({file.meters[n] : n \in DOMAIN file.meters})
  BY FilesAssumption DEF IsSeq
<1>3. Len(file.meters) \in Nat /\ DOMAIN file.meters = 1..Len(file.meters)
  BY <1>2
<1> HIDE DEF base
<1>4. listed \in Seq({listed[n] : n \in DOMAIN listed}) /\ Len(listed) = Len(file.meters)
  BY <1>3
<1> HIDE DEF listed
<1> QED BY <1>1, <1>4

\* The steps that are not main()'s way to the loop or out of it.
LEMMA SetupKept ==
  ASSUME Poll \/ Worker \/ Signal \/ signal_handler \/ Terminated \/ UNCHANGED vars
  PROVE  UNCHANGED <<file, config, next, readers, stage>>
<1>1. CASE Poll
  BY <1>1 DEF Poll, Turn, Read, Flush, Return, setup, process
<1>2. CASE Worker
  BY <1>2 DEF Worker, setup, process
<1>3. CASE Signal
  BY <1>3 DEF Signal, Fatal, Interrupt, Return, setup, process
<1>4. CASE signal_handler
  BY <1>4 DEF signal_handler, setup, process
<1>5. CASE Terminated \/ UNCHANGED vars
  BY <1>5 DEF Terminated, vars, setup, process
<1> QED BY <1>1, <1>2, <1>3, <1>4, <1>5

LEMMA InitLoaded == Init => Loaded /\ Opened
<1> SUFFICES ASSUME Init
             PROVE  Loaded /\ Opened
  OBVIOUS
<1>1. file \in Files /\ config = <<>> /\ stage = "load" /\ next = 1 /\ readers = <<>>
  BY DEF Init
<1>2. readers = [n \in 1..next - 1 |-> Reader(Cfg.meters[n])]
  BY <1>1
<1> QED BY <1>1, <1>2 DEF Loaded, Opened, Checked, Started

LEMMA NextLoaded == Loaded /\ Opened /\ [Next]_vars => Loaded' /\ Opened'
<1> SUFFICES ASSUME Loaded, Opened, [Next]_vars
             PROVE  Loaded' /\ Opened'
  OBVIOUS
<1>1. CASE Load
  <2>1. /\ stage = "load" /\ config' = load(file)
        /\ UNCHANGED <<file, next, readers>>
        /\ stage' = "load" \/ (stage' = "validate" /\ config' # <<>>)
    BY <1>1 DEF Load, Goto, Return
  <2>2. next = 1 /\ readers = <<>>
    BY <2>1 DEF Opened, Checked
  <2>3. readers' = [n \in 1..next' - 1 |-> Reader(Cfg'.meters[n])]
    BY <2>1, <2>2
  <2> QED BY <2>1, <2>2, <2>3 DEF Loaded, Opened, Checked, Started
<1>2. CASE Validate
  <2>1. /\ stage = "validate"
        /\ UNCHANGED <<file, config, next, readers>>
        /\ stage' = "validate" \/ (stage' = "open" /\ validate(Cfg) = {})
    BY <1>2 DEF Validate, Goto, Return, setup
  <2>2. Cfg' = Cfg
    BY <2>1 DEF Cfg
  <2>3. Len(Cfg.meters) \in Nat
    BY <2>1, MetersListed DEF Loaded
  <2> QED BY <2>1, <2>2, <2>3 DEF Loaded, Opened, Checked, Started
<1>3. CASE OpenPort
  <2>1. /\ stage = "open" /\ next <= Len(Cfg.meters)
        /\ UNCHANGED <<file, config, stage>>
        /\ \/ readers' = push_back(readers, Cfg.meters[next]) /\ next' = next + 1
           \/ UNCHANGED <<next, readers>>
    BY <1>3 DEF OpenPort, Return, process
  <2>2. Cfg' = Cfg
    BY <2>1 DEF Cfg
  <2>3. Len(Cfg.meters) \in Nat
    BY <2>1, MetersListed DEF Loaded
  <2>4. Loaded'
    BY <2>1, <2>2 DEF Loaded, Checked
  <2>5. CASE UNCHANGED <<next, readers>>
    BY <2>1, <2>2, <2>4, <2>5 DEF Opened, Checked, Started
  <2>6. CASE readers' = push_back(readers, Cfg.meters[next]) /\ next' = next + 1
    <3> DEFINE slot(n) == Reader(Cfg.meters[n])
    <3>1. readers = [n \in 1..next - 1 |-> slot(n)]
      BY DEF Opened
    <3>2. readers' = Append(readers, slot(next))
      BY <2>6 DEF push_back
    <3> HIDE DEF slot
    <3>3. readers' = [n \in 1..next |-> slot(n)]
      BY <3>1, <3>2 DEF Opened
    <3>4. readers' = [n \in 1..next' - 1 |-> Reader(Cfg'.meters[n])]
      BY <3>3, <2>2, <2>6 DEF slot, Opened
    <3> QED BY <3>4, <2>1, <2>2, <2>3, <2>4, <2>6 DEF Opened, Checked, Started
  <2> QED BY <2>1, <2>4, <2>5, <2>6
<1>4. CASE Construct
  <2>1. /\ stage = "open" /\ stage' = "run" /\ next > Len(Cfg.meters)
        /\ UNCHANGED <<file, config, next, readers>>
    BY <1>4 DEF Construct, Goto, setup
  <2>2. Cfg' = Cfg
    BY <2>1 DEF Cfg
  <2>3. Len(Cfg.meters) \in Nat
    BY <2>1, MetersListed DEF Loaded
  <2> QED BY <2>1, <2>2, <2>3 DEF Loaded, Opened, Checked, Started
<1>5. CASE Finish
  <2>1. /\ Started /\ Started'
        /\ UNCHANGED <<file, config, next, readers>>
    BY <1>5 DEF Finish, Goto, Return, setup, Started
  <2>2. Cfg' = Cfg
    BY <2>1 DEF Cfg
  <2> QED BY <2>1, <2>2 DEF Loaded, Opened, Checked, Started
<1>6. CASE Poll \/ Worker \/ Signal \/ signal_handler \/ Terminated \/ UNCHANGED vars
  <2>1. UNCHANGED <<file, config, next, readers, stage>>
    BY <1>6, SetupKept
  <2>2. Cfg' = Cfg
    BY <2>1 DEF Cfg
  <2> QED BY <2>1, <2>2 DEF Loaded, Opened, Checked, Started
<1> QED BY <1>1, <1>2, <1>3, <1>4, <1>5, <1>6 DEF Next, main

\* What validate() lets pass has a meter and an item to poll.
LEMMA SomethingToPoll ==
  ASSUME NEW c, validate(c) = {}
  PROVE  EnabledIn(c.meters) # {} /\ EnabledIn(c.data_items) # {}
<1>1. True(MeterErrors(c.meters)) = {} /\ True(ItemErrors(c.data_items)) = {}
  BY DEF validate
<1>2. "noEnabledMeter" \notin True(MeterErrors(c.meters))
  BY <1>1
<1>3. ~MeterErrors(c.meters).noEnabledMeter
  BY <1>2 DEF True, MeterErrors
<1>4. EnabledIn(c.meters) # {}
  BY <1>3 DEF MeterErrors
<1>5. /\ "noItems" \notin True(ItemErrors(c.data_items))
      /\ "noEnabledItem" \notin True(ItemErrors(c.data_items))
  BY <1>1
<1>6. ~ItemErrors(c.data_items).noItems /\ ~ItemErrors(c.data_items).noEnabledItem
  BY <1>5 DEF True, ItemErrors
<1>7. EnabledIn(c.data_items) # {}
  BY <1>6 DEF ItemErrors
<1> QED BY <1>4, <1>7

LEMMA OpenedIsReady == Loaded /\ Opened => ReadyToPoll
<1> SUFFICES ASSUME Loaded, Opened, Started
             PROVE  /\ readers = [n \in DOMAIN Cfg.meters |-> Reader(Cfg.meters[n])]
                    /\ S!Polled = EnabledIn(Cfg.meters)
                    /\ S!Polled # {} /\ S!ItemEnabled # {}
  BY DEF ReadyToPoll
<1>1. /\ config = load(file) /\ config # <<>> /\ file \in Files
      /\ validate(Cfg) = {}
  BY DEF Loaded, Checked, Started
<1>2. Len(Cfg.meters) \in Nat /\ DOMAIN Cfg.meters = 1..Len(Cfg.meters)
  BY <1>1, MetersListed
<1>3. readers = [n \in DOMAIN Cfg.meters |-> Reader(Cfg.meters[n])]
  <2>1. 1..next - 1 = DOMAIN Cfg.meters
    BY <1>2 DEF Opened
  <2> QED BY <2>1 DEF Opened
<1>4. S!Polled = EnabledIn(Cfg.meters)
  <2>1. \A n \in DOMAIN Cfg.meters : (readers[n] # <<>>) <=> Cfg.meters[n].enabled
    <3> SUFFICES ASSUME NEW n \in DOMAIN Cfg.meters
                 PROVE  (readers[n] # <<>>) <=> Cfg.meters[n].enabled
      OBVIOUS
    <3>1. readers[n] = Reader(Cfg.meters[n])
      BY <1>3
    <3>2. <<Cfg.meters[n].serial.device>> # <<>>
      OBVIOUS
    <3> QED BY <3>1, <3>2 DEF Reader
  <2>2. DOMAIN readers = DOMAIN Cfg.meters
    BY <1>3
  <2> QED BY <2>1, <2>2 DEF S!Polled, SchedulerConfig, EnabledIn
<1>5. S!ItemEnabled = EnabledIn(Cfg.data_items)
  BY DEF S!ItemEnabled, SchedulerConfig, EnabledIn
<1> QED BY <1>1, <1>3, <1>4, <1>5, SomethingToPoll

\* run() finds every meter's own reader at the meter's place, and something
\* to poll, whatever the file: the index of the loop over the meters is good
\* for the list of readers.
THEOREM ReadersFitMeters == Spec => []ReadyToPoll
<1>1. Spec => [](Loaded /\ Opened)
  BY InitLoaded, NextLoaded, PTL DEF Spec
<1> QED BY <1>1, OpenedIsReady, PTL

(***************************************************************************)
(* The way out: what holds when main() returns.                            *)
(***************************************************************************)
Leaving ==
  /\ running \in BOOLEAN
  /\ pc # "boot" /\ ~running => stopped = "yes"
  /\ pc = "returned" => ~running
  /\ stage \in {"destroy", "unwound"} => pc = "returned"
  /\ outcome = "exit0" => stage = "unwound"

Working ==
  /\ worker \in {"none", "alive", "done"}
  /\ worker # "alive" => backlog = 0 /\ ~inHand
  /\ worker = "done" => stage \in {"destroy", "unwound"}
  /\ worker = "none" /\ Started => ~Cfg.mqtt.enabled
  /\ ~Started => worker = "none"
  /\ stage = "unwound" => worker # "alive"

LEMMA InitLeaving == Init => Leaving /\ Working
BY DEF Init, S!Constructed, Leaving, Working, Started

\* A step of the loop.
LEMMA PollStep ==
  ASSUME Leaving, Poll
  PROVE  /\ running' \in BOOLEAN
         /\ pc' # "boot" /\ ~running' => stopped' = "yes"
         /\ pc' = "returned" => ~running'
<1>1. CASE S!Run
  BY <1>1 DEF S!Run
<1>2. CASE S!LoopTest
  BY <1>2 DEF S!LoopTest, S!ghost, Leaving
<1>3. CASE S!Sleep
  BY <1>3 DEF S!Sleep, S!ghost, Leaving
<1>4. CASE S!VisitMeter
  BY <1>4 DEF S!VisitMeter, S!LeavePoll, Leaving
<1>5. CASE S!VisitItem
  BY <1>5 DEF S!VisitItem, S!LeavePoll, S!ghost, Leaving
<1>6. CASE \E c \in {"success", "decodeFailed", "failed"} : S!ReadItem(c)
  BY <1>6 DEF S!ReadItem, Leaving
<1>7. CASE S!Flush
  BY <1>7 DEF S!Flush, Leaving
<1>8. CASE UNCHANGED polling
  BY <1>8 DEF polling, Leaving
<1> QED
  BY <1>1, <1>2, <1>3, <1>4, <1>5, <1>6, <1>7, <1>8 DEF Poll, Turn, Read, Flush

LEMMA NextLeaving == Leaving /\ [Next]_vars => Leaving'
<1> SUFFICES ASSUME Leaving, [Next]_vars
             PROVE  Leaving'
  OBVIOUS
<1>1. CASE Load \/ Validate \/ OpenPort \/ Construct
  BY <1>1 DEF Load, Validate, OpenPort, Construct, Goto, Return, process, polling, Leaving
<1>2. CASE Poll
  <2>1. stage = "run" /\ stage' = stage /\ outcome = "running"
    BY <1>2, SetupKept DEF Poll, Runs
  <2>2. outcome' # "exit0"
    BY <1>2, <2>1 DEF Poll, Turn, Read, Flush, Return, process
  <2> QED BY <1>2, <2>1, <2>2, PollStep DEF Leaving
<1>3. CASE Finish
  BY <1>3 DEF Finish, Goto, Return, polling, Leaving
<1>4. CASE Worker
  BY <1>4 DEF Worker, process, polling, Leaving
<1>5. CASE Signal
  <2>1. outcome = "running" /\ outcome' # "exit0" /\ UNCHANGED <<stage, polling>>
    BY <1>5 DEF Signal, Fatal, Interrupt, Return, process
  <2> QED BY <2>1 DEF polling, Leaving
<1>6. CASE signal_handler
  <2>1. CASE UNCHANGED polling
    BY <1>6, <2>1 DEF signal_handler, process, polling, Leaving
  <2>2. CASE S!Stop
    BY <1>6, <2>2 DEF signal_handler, process, S!Stop, Leaving
  <2> QED BY <1>6, <2>1, <2>2 DEF signal_handler, StopOnce
<1>7. CASE Terminated \/ UNCHANGED vars
  BY <1>7 DEF Terminated, vars, process, polling, Leaving
<1> QED BY <1>1, <1>2, <1>3, <1>4, <1>5, <1>6, <1>7 DEF Next, main

LEMMA NextWorking == Working /\ [Next]_vars => Working'
<1> SUFFICES ASSUME Working, [Next]_vars
             PROVE  Working'
  OBVIOUS
<1>1. CASE Load \/ Validate \/ OpenPort
  <2>1. ~Started /\ ~Started' /\ UNCHANGED upload /\ stage' # "unwound"
    BY <1>1 DEF Load, Validate, OpenPort, Goto, Return, process, Started
  <2> QED BY <2>1 DEF upload, Working, Started
<1>2. CASE Construct
  <2>1. /\ ~Started /\ stage' = "run" /\ UNCHANGED <<config, inHand, backlog>>
        /\ worker' = IF Cfg.mqtt.enabled THEN "alive" ELSE "none"
    BY <1>2 DEF Construct, Goto, setup, Started
  <2>2. Cfg' = Cfg
    BY <2>1 DEF Cfg
  <2> QED BY <2>1, <2>2 DEF Working, Started
<1>3. CASE Poll
  <2>1. UNCHANGED <<config, stage>> /\ stage = "run"
    BY <1>3, SetupKept DEF Poll
  <2>2. Cfg' = Cfg
    BY <2>1 DEF Cfg
  <2>3. UNCHANGED <<worker, inHand>>
    BY <1>3 DEF Poll, Turn, Read, Flush, upload
  <2>4. backlog' = backlog \/ Cfg.mqtt.enabled
    BY <1>3 DEF Poll, Turn, Read, Flush, upload
  <2> QED BY <2>1, <2>2, <2>3, <2>4 DEF Working, Started
<1>4. CASE Finish
  <2>1. UNCHANGED <<config, worker, inHand, backlog>> /\ Started /\ Started'
    BY <1>4 DEF Finish, Goto, Return, setup, upload, Started
  <2>2. Cfg' = Cfg
    BY <2>1 DEF Cfg
  <2> QED BY <1>4, <2>1, <2>2 DEF Finish, Goto, Return, Joined, Working
<1>5. CASE Worker
  <2>1. UNCHANGED <<config, stage>> /\ worker = "alive"
    BY <1>5, SetupKept DEF Worker
  <2> QED BY <1>5, <2>1 DEF Worker, Working, Started
<1>6. CASE Signal \/ signal_handler \/ Terminated \/ UNCHANGED vars
  <2>1. UNCHANGED <<config, stage>>
    BY <1>6, SetupKept
  <2>2. Cfg' = Cfg
    BY <2>1 DEF Cfg
  <2>3. UNCHANGED upload
    BY <1>6 DEF Signal, signal_handler, Terminated, vars
  <2> QED BY <2>1, <2>2, <2>3 DEF upload, Working, Started
<1> QED BY <1>1, <1>2, <1>3, <1>4, <1>5, <1>6 DEF Next, main

\* Whatever the file and whenever the signals come, a program that returns 0
\* was stopped by one and has nothing left to publish.
THEOREM NothingLeftBehind == Spec => []DrainedAtExit
<1>1. Leaving /\ Working => DrainedAtExit
  BY DEF Leaving, Working, DrainedAtExit
<1> QED BY <1>1, InitLeaving, NextLeaving, NextWorking, PTL DEF Spec

(***************************************************************************)
(* The length of the queue.                                                *)
(***************************************************************************)
Bounded ==
  /\ backlog \in Nat
  /\ Started /\ Cfg.mqtt.enabled /\ Cfg.mqtt.max_queue \in Nat =>
       backlog <= Cfg.mqtt.max_queue

LEMMA NextBounded == Bounded /\ Working /\ [Next]_vars => Bounded'
<1> SUFFICES ASSUME Bounded, Working, [Next]_vars
             PROVE  Bounded'
  OBVIOUS
<1>1. CASE Load \/ Validate \/ OpenPort
  <2>1. ~Started' /\ UNCHANGED upload
    BY <1>1 DEF Load, Validate, OpenPort, Goto, Return, process, Started
  <2> QED BY <2>1 DEF upload, Bounded
<1>2. CASE Construct
  <2>1. backlog = 0 /\ backlog' = 0
    BY <1>2 DEF Construct, Working, Started
  <2> QED BY <2>1 DEF Bounded
<1>3. CASE Poll
  <2>1. UNCHANGED <<config, stage>>
    BY <1>3, SetupKept
  <2>2. Cfg' = Cfg
    BY <2>1 DEF Cfg
  <2>3. backlog' = backlog \/ (backlog' = backlog + 1 /\ Room)
    BY <1>3 DEF Poll, Turn, Read, Flush, upload
  <2> QED BY <2>1, <2>2, <2>3 DEF Room, Bounded, Started
<1>4. CASE Finish
  <2>1. UNCHANGED <<config, backlog>> /\ Started
    BY <1>4 DEF Finish, Goto, Return, setup, upload, Started
  <2> QED BY <2>1 DEF Bounded, Cfg
<1>5. CASE Worker
  <2>1. UNCHANGED <<config, stage>>
    BY <1>5, SetupKept
  <2>2. Cfg' = Cfg
    BY <2>1 DEF Cfg
  <2>3. backlog' = backlog \/ (backlog > 0 /\ backlog' = backlog - 1)
    BY <1>5 DEF Worker
  <2> QED BY <2>1, <2>2, <2>3 DEF Bounded, Started
<1>6. CASE Signal \/ signal_handler \/ Terminated \/ UNCHANGED vars
  <2>1. UNCHANGED <<config, stage>>
    BY <1>6, SetupKept
  <2>2. UNCHANGED upload
    BY <1>6 DEF Signal, signal_handler, Terminated, vars
  <2> QED BY <2>1, <2>2 DEF upload, Bounded, Started, Cfg
<1> QED BY <1>1, <1>2, <1>3, <1>4, <1>5, <1>6 DEF Next, main

\* A number that is not negative is never made larger by the conversion.
LEMMA QueueLoaded ==
  ASSUME file \in Files, config = load(file), config # <<>>, file.mqtt.max_queue \in Nat
  PROVE  Cfg.mqtt.max_queue \in Nat /\ Cfg.mqtt.max_queue <= file.mqtt.max_queue
<1> DEFINE n == file.mqtt.max_queue
<1>1. Given(n, 512) = n
  BY FieldAssumption DEF Given
<1>2. Cfg.mqtt = parse_mqtt_node(file.mqtt)
  BY DEF load, Cfg
<1>3. Cfg.mqtt.max_queue = ToSize(n)
  <2> DEFINE read == [f \in DOMAIN DefaultMqtt |-> Given(file.mqtt[f], DefaultMqtt[f])]
  <2>1. "max_queue" \in DOMAIN DefaultMqtt /\ DefaultMqtt.max_queue = 512
    BY DEF DefaultMqtt
  <2>2. read["max_queue"] = n /\ DOMAIN read = DOMAIN DefaultMqtt
    BY <1>1, <2>1
  <2>3. parse_mqtt_node(file.mqtt) = [read EXCEPT !["max_queue"] = ToSize(@)]
    BY DEF parse_mqtt_node
  <2> HIDE DEF read, n
  <2> QED BY <1>2, <2>1, <2>2, <2>3
<1>4. n % SizeValues \in Nat /\ n % SizeValues <= n
  BY SizeAssumption
<1> QED BY <1>3, <1>4 DEF ToSize

\* The queue never gets longer than the file says, whatever else the file
\* says and however far the worker is behind; a negative number is excluded.
THEOREM QueueBounded == Spec => []QueueAsConfigured
<1>1. Init => Bounded
  BY DEF Init, Bounded, Started
<1>2. Loaded /\ Bounded => QueueAsConfigured
  <2> SUFFICES ASSUME Loaded, Bounded, Started, Cfg.mqtt.enabled, file.mqtt.max_queue \in Nat
               PROVE  backlog <= file.mqtt.max_queue
    BY DEF QueueAsConfigured
  <2>1. config = load(file) /\ config # <<>> /\ file \in Files
    BY DEF Loaded, Started
  <2>2. Cfg.mqtt.max_queue \in Nat /\ Cfg.mqtt.max_queue <= file.mqtt.max_queue
    BY <2>1, QueueLoaded
  <2> QED BY <2>2 DEF Bounded
<1> QED BY <1>1, <1>2, InitLoaded, NextLoaded, InitLeaving, NextWorking, NextBounded,
           PTL DEF Spec

(***************************************************************************)
(* What the program can die of.                                            *)
(***************************************************************************)
Chosen == pc = "read" => Started /\ j \in EnabledIn(Cfg.data_items)

\* With the sum wrapped, only a length from -4 to -1 gets past the comparison.
LEMMA WrappedIsTooShort ==
  ASSUME NEW size \in Nat, NEW length \in Int, size < SizeValues + length,
         length < 0, ~TooShort(size, length)
  PROVE  length \in -4..-1
<1> SUFFICES ASSUME length < -4
             PROVE  FALSE
  OBVIOUS
<1> DEFINE a == 4 + length
<1>1. a \in Int /\ a < 0 /\ a + SizeValues > 0 /\ SizeValues \in Nat \ {0}
  BY SizeAssumption
<1> HIDE DEF a
<1>2. a % SizeValues = a + SizeValues
  BY <1>1
<1>3. ToSize(a) = 4 + length + SizeValues
  BY <1>2, SizeAssumption DEF a, ToSize
<1> QED BY <1>3, SizeAssumption DEF TooShort, a

LEMMA NextChosen == Chosen /\ [Next]_vars => Chosen'
<1> SUFFICES ASSUME Chosen, [Next]_vars
             PROVE  Chosen'
  OBVIOUS
<1>1. CASE Load \/ Validate \/ OpenPort \/ Construct \/ Finish
  <2>1. UNCHANGED pc /\ (pc = "read" => UNCHANGED config /\ Started')
    BY <1>1 DEF Load, Validate, OpenPort, Construct, Finish, Goto, Return, process,
                setup, polling, Chosen, Started
  <2> QED BY <1>1, <2>1 DEF Load, Validate, OpenPort, Construct, Finish, polling,
                            Chosen, Cfg
<1>2. CASE Poll
  <2>1. UNCHANGED <<config, stage>> /\ stage = "run"
    BY <1>2, SetupKept DEF Poll
  <2>2. Started'
    BY <2>1 DEF Started
  <2>3. CASE S!VisitItem
    <3>1. pc' = "read" => j \in S!ItemEnabled /\ j' = j
      BY <2>3 DEF S!VisitItem, S!LeavePoll
    <3> QED BY <2>1, <2>2, <3>1 DEF S!ItemEnabled, SchedulerConfig, EnabledIn, Chosen, Cfg
  <2>4. CASE UNCHANGED polling
    BY <2>1, <2>2, <2>4 DEF polling, Chosen, Cfg
  <2>5. CASE \E c \in {"success", "decodeFailed", "failed"} : S!ReadItem(c)
    BY <2>5 DEF S!ReadItem, Chosen
  <2>6. CASE S!Run \/ S!LoopTest \/ S!Sleep \/ S!VisitMeter \/ S!Flush
    <3>1. pc' # "read"
      BY <2>6 DEF S!Run, S!LoopTest, S!Sleep, S!VisitMeter, S!LeavePoll, S!Flush
    <3> QED BY <3>1 DEF Chosen
  <2> QED BY <1>2, <2>3, <2>4, <2>5, <2>6 DEF Poll, Turn, Read, Flush
<1>3. CASE Worker \/ Signal \/ Terminated \/ UNCHANGED vars
  <2>1. UNCHANGED <<config, stage, polling>>
    BY <1>3, SetupKept DEF Worker, Signal, Terminated, vars
  <2> QED BY <2>1 DEF polling, Chosen, Started, Cfg
<1>4. CASE signal_handler
  <2>1. UNCHANGED <<config, stage>>
    BY <1>4, SetupKept
  <2>2. UNCHANGED <<pc, j>>
    BY <1>4 DEF signal_handler, StopOnce, S!Stop, S!loop, polling
  <2> QED BY <2>1, <2>2 DEF Chosen, Started, Cfg
<1> QED BY <1>1, <1>2, <1>3, <1>4 DEF Next, main

\* The length of a loaded item is a number the file may say.
LEMMA LengthLoaded ==
  ASSUME file \in Files, config = load(file), config # <<>>,
         NEW n \in DOMAIN Cfg.data_items, NEW size \in AnswerSizes
  PROVE  LET length == Cfg.data_items[n].data_length IN
         length < 0 => length \in Int /\ size \in Nat /\ size < SizeValues + length
<1> DEFINE said == file.data_items[n].length
<1>1. Cfg.data_items = [k \in DOMAIN file.data_items |-> LoadedItem(file.data_items[k])]
  BY DEF load, Cfg
<1>2. n \in DOMAIN file.data_items
  BY <1>1
<1>3. Cfg.data_items[n].data_length = Given(said, 0)
  BY <1>1, <1>2 DEF LoadedItem
<1>4. size \in Nat /\ (said \notin {Absent, Garbled} => said \in Int /\ size < SizeValues + said)
  BY <1>2, LengthAssumption
<1> HIDE DEF said
<1> QED BY <1>3, <1>4 DEF Given

LEMMA NextAborted ==
  Loaded /\ Chosen /\ AbortCause /\ [Next]_vars => AbortCause'
<1> SUFFICES ASSUME Loaded, Chosen, AbortCause, [Next]_vars, outcome' = "abort"
             PROVE  \/ stage' = "unwound"
                    \/ \E n \in EnabledIn(Cfg'.data_items) :
                         Cfg'.data_items[n].data_length \in -4..-1
  BY DEF AbortCause
<1>1. CASE outcome = "abort"
  <2>1. UNCHANGED vars
    BY <1>1 DEF Next, main, Load, Validate, OpenPort, Construct, Poll, Finish, Worker,
                Signal, signal_handler, Terminated, Runs
  <2>2. UNCHANGED <<config, stage>>
    BY <2>1 DEF vars, setup, process
  <2> QED BY <1>1, <2>2 DEF AbortCause, Cfg
<1>2. CASE outcome # "abort"
  <2>1. CASE Poll
    <3> DEFINE length == Cfg.data_items[j].data_length
    <3>1. UNCHANGED config /\ stage = "run"
      BY <2>1, SetupKept DEF Poll
    <3>2. PICK size \in AnswerSizes : ~TooShort(size, length) /\ length < 0 /\ pc = "read"
      BY <1>2, <2>1 DEF Poll, Turn, Read, Flush, process
    <3>3. config = load(file) /\ config # <<>> /\ file \in Files
      BY <3>1 DEF Loaded
    <3>4. j \in EnabledIn(Cfg.data_items) /\ j \in DOMAIN Cfg.data_items
      BY <3>2 DEF Chosen, EnabledIn
    <3>5. length \in Int /\ size \in Nat /\ size < SizeValues + length
      BY <3>2, <3>3, <3>4, LengthLoaded
    <3>6. length \in -4..-1
      BY <3>2, <3>5, WrappedIsTooShort
    <3> QED BY <3>1, <3>4, <3>6 DEF Cfg
  <2>2. CASE Signal
    BY <1>2, <2>2 DEF Signal, Fatal, Interrupt, Return, process
  <2>3. CASE ~Poll /\ ~Signal
    BY <1>2, <2>3 DEF Next, main, Load, Validate, OpenPort, Construct, Finish, Worker,
                      signal_handler, Terminated, Goto, Return, process, vars
  <2> QED BY <2>1, <2>2, <2>3
<1> QED BY <1>1, <1>2

\* For every file and every answer the program dies only of an item whose
\* length is between -4 and -1 or of a signal after the scheduler is gone: any
\* other length the file may say, zero, one that is too large or one further
\* below zero, ends as an error of the read.
THEOREM AbortsExplained == Spec => []AbortCause
<1>1. Init => Chosen /\ AbortCause
  BY DEF Init, S!Constructed, Chosen, AbortCause
<1> QED BY <1>1, InitLoaded, NextLoaded, NextChosen, NextAborted, PTL DEF Spec

(***************************************************************************)
(* Type correctness.                                                       *)
(***************************************************************************)
\* The parts of the type that no invariant above has.
Typed ==
  /\ file \in Files
  /\ Len(config) <= 1
  /\ stage \in {"load", "validate", "open", "run", "destroy", "unwound"}
  /\ outcome \in {"running", "exit0", "exit1", "killed", "abort"}
  /\ handler \in {"none", "main", "worker"}
  /\ holder \in {"nobody", "main", "worker"}
  /\ arrivals \in 0..MaxSignals
  /\ signalled \in BOOLEAN
  /\ worker \in {"none", "alive", "done"}
  /\ inHand \in BOOLEAN
  /\ backlog \in 0..MaxBacklog

LEMMA OneConfig == ASSUME NEW f PROVE Len(load(f)) <= 1
<1>1. ASSUME NEW x PROVE Len(<<x>>) <= 1
  OBVIOUS
<1>2. Len(<<>>) <= 1
  OBVIOUS
<1> QED BY <1>1, <1>2 DEF load

\* The conversion to std::size_t gives a number for whatever the file says.
LEMMA QueueIsNat ==
  ASSUME file \in Files, config = load(file), config # <<>>
  PROVE  Cfg.mqtt.max_queue \in Nat
<1> DEFINE said == Given(file.mqtt.max_queue, 512)
<1>1. Cfg.mqtt = parse_mqtt_node(file.mqtt)
  BY DEF load, Cfg
<1>2. Cfg.mqtt.max_queue = ToSize(said)
  BY <1>1 DEF parse_mqtt_node, DefaultMqtt
<1>3. said \in Int
  BY FieldTypeAssumption DEF Given, HandsOver
<1> HIDE DEF said
<1>4. ToSize(said) \in Nat
  BY <1>3, SizeAssumption DEF ToSize
<1> QED BY <1>2, <1>4

LEMMA TypeStep == Typed /\ [Next]_vars => Typed'
<1> SUFFICES ASSUME Typed, [Next]_vars
             PROVE  Typed'
  OBVIOUS
<1> USE DEF Typed, Goto, Return, setup, process, signals, upload
<1>1. CASE Load
  BY <1>1, OneConfig DEF Load
<1>2. CASE Validate \/ OpenPort \/ Construct \/ Finish
  BY <1>2 DEF Validate, OpenPort, Construct, Finish
<1>3. CASE Poll
  <2>1. UNCHANGED <<file, config, stage, handler, holder, arrivals, signalled>>
    BY <1>3, SetupKept DEF Poll
  <2>2. UNCHANGED <<worker, inHand>> /\ (backlog' = backlog \/ (backlog < MaxBacklog /\ backlog' = backlog + 1))
    BY <1>3 DEF Poll, Turn, Read, Flush
  <2>3. outcome' \in {outcome, "abort"}
    BY <1>3 DEF Poll, Turn, Read, Flush
  <2>4. backlog' \in 0..MaxBacklog
    BY <2>2, BoundsAssumption
  <2> QED BY <2>1, <2>2, <2>3, <2>4
<1>4. CASE Worker
  <2>1. backlog' \in 0..MaxBacklog
    BY <1>4, BoundsAssumption DEF Worker
  <2> QED BY <1>4, <2>1 DEF Worker
<1>5. CASE Signal
  <2>1. arrivals' \in 0..MaxSignals
    BY <1>5, BoundsAssumption DEF Signal
  <2> QED BY <1>5, <2>1 DEF Signal, Fatal, Interrupt
<1>6. CASE signal_handler
  BY <1>6 DEF signal_handler
<1>7. CASE Terminated \/ UNCHANGED vars
  BY <1>7 DEF Terminated, vars
<1> QED BY <1>1, <1>2, <1>3, <1>4, <1>5, <1>6, <1>7 DEF Next, main

\* The program's state always has its type: the bound of the queue is a number
\* of std::size_t and the list of readers a list, whatever the file says.
THEOREM TypeCorrect == Spec => []TypeOK
<1>1. Init => Typed
  <2>1. 0 \in 0..MaxSignals /\ 0 \in 0..MaxBacklog
    BY BoundsAssumption
  <2>2. Len(<<>>) <= 1
    OBVIOUS
  <2> QED BY <2>1, <2>2 DEF Init, Typed
<1>2. Typed /\ Loaded /\ Opened => TypeOK
  <2> SUFFICES ASSUME Typed, Loaded, Opened
               PROVE  TypeOK
    OBVIOUS
  <2>1. config # <<>> => Cfg.mqtt.max_queue \in Nat
    BY QueueIsNat DEF Loaded
  <2>2. IsSeq(readers)
    <3>1. readers = [n \in 1..next - 1 |-> Reader(Cfg.meters[n])] /\ next - 1 \in Nat
      BY DEF Opened
    <3> QED BY <3>1 DEF IsSeq
  <2>3. next \in Nat \ {0}
    BY DEF Opened
  <2> QED BY <2>1, <2>2, <2>3 DEF TypeOK, Typed
<1> QED BY <1>1, <1>2, TypeStep, InitLoaded, NextLoaded, PTL DEF Spec

(***************************************************************************)
(* The polling is that of a scheduler that is given what the file says.    *)
(***************************************************************************)
LEMMA GivenType ==
  ASSUME NEW type, NEW field, HandsOver(field, type), NEW default \in type
  PROVE  Given(field, default) \in type
BY DEF HandsOver, Given

\* The flags of a list of meters or items.
LEMMA SaysType ==
  ASSUME NEW list, IsSeq(list), \A n \in DOMAIN list : HandsOver(list[n].enabled, BOOLEAN)
  PROVE  /\ Says(list) \in Seq(BOOLEAN)
         /\ Len(list) \in Nat /\ DOMAIN list = 1..Len(list)
         /\ Says(list) \in [1..Len(list) -> BOOLEAN]
<1>1. Len(list) \in Nat /\ DOMAIN list = 1..Len(list)
  BY DEF IsSeq
<1>2. \A n \in DOMAIN list : Given(list[n].enabled, TRUE) \in BOOLEAN
  BY GivenType
<1>3. Says(list) \in [1..Len(list) -> BOOLEAN]
  BY <1>1, <1>2 DEF Says
<1> QED BY <1>1, <1>3

\* What Scheduler assumes of its configurations.
LEMMA FiledConfigs ==
  ASSUME NEW f \in Files
  PROVE  /\ AsFiled(f).meters \in Seq(BOOLEAN)
         /\ AsFiled(f).readers \in Seq(BOOLEAN)
         /\ AsFiled(f).items \in Seq(BOOLEAN)
         /\ AsFiled(f).interval \in Nat
<1>1. Says(f.meters) \in Seq(BOOLEAN) /\ Says(f.data_items) \in Seq(BOOLEAN)
  BY FilesAssumption, FieldTypeAssumption, SaysType
<1>2. Given(f.poll_interval_seconds, 60) \in Int
  <2>1. HandsOver(f.poll_interval_seconds, Int) /\ 60 \in Int
    BY FieldTypeAssumption
  <2> QED BY <2>1, GivenType
<1> QED BY <1>1, <1>2 DEF AsFiled

\* Started, the scheduler has the configuration of the file.
LEMMA SameConfig ==
  ASSUME Loaded, Opened, Started
  PROVE  SchedulerConfig = AsFiled(file)
<1>1. /\ config = load(file) /\ config # <<>> /\ file \in Files
      /\ validate(Cfg) = {}
  BY DEF Loaded, Checked, Started
<1> DEFINE on == Says(file.meters)
           items == Says(file.data_items)
           seconds == Given(file.poll_interval_seconds, 60)
<1>2. /\ IsSeq(file.meters)
      /\ \A n \in DOMAIN file.meters : HandsOver(file.meters[n].enabled, BOOLEAN)
  BY <1>1, FilesAssumption, FieldTypeAssumption
<1>3. /\ Len(file.meters) \in Nat /\ DOMAIN file.meters = 1..Len(file.meters)
      /\ on \in [1..Len(file.meters) -> BOOLEAN]
  BY <1>2, SaysType
<1>4. /\ DOMAIN Cfg.meters = DOMAIN file.meters
      /\ \A n \in DOMAIN file.meters : Cfg.meters[n].enabled = on[n]
  BY <1>1 DEF load, Cfg, LoadedMeter, Says
<1>5. /\ DOMAIN Cfg.data_items = DOMAIN file.data_items
      /\ \A n \in DOMAIN file.data_items : Cfg.data_items[n].enabled = items[n]
      /\ DOMAIN items = DOMAIN file.data_items
  BY <1>1 DEF load, Cfg, LoadedItem, Says
<1>6. Cfg.poll_interval_seconds = seconds
  BY <1>1 DEF load, Cfg
<1>7. seconds \in Int /\ seconds > 0
  <2>1. HandsOver(file.poll_interval_seconds, Int) /\ 60 \in Int
    BY <1>1, FieldTypeAssumption
  <2>2. seconds \in Int
    BY <2>1, GivenType
  <2>3. "interval" \notin True([interval |-> Cfg.poll_interval_seconds <= 0])
    BY <1>1 DEF validate
  <2>4. ~(Cfg.poll_interval_seconds <= 0)
    BY <2>3 DEF True
  <2> HIDE DEF seconds
  <2> QED BY <1>6, <2>2, <2>4
<1>8. /\ DOMAIN readers = DOMAIN Cfg.meters
      /\ \A n \in DOMAIN readers : readers[n] = Reader(Cfg.meters[n])
  BY OpenedIsReady DEF ReadyToPoll
<1> HIDE DEF on, items, seconds
<1>9. SchedulerConfig.meters = on
  BY <1>3, <1>4 DEF SchedulerConfig
<1>10. SchedulerConfig.items = items
  BY <1>5 DEF SchedulerConfig, items, Says
<1>11. ASSUME NEW n \in DOMAIN readers
       PROVE  (readers[n] # <<>>) = on[n]
  <2>1. n \in 1..Len(file.meters) /\ on[n] \in BOOLEAN /\ Cfg.meters[n].enabled = on[n]
    BY <1>3, <1>4, <1>8
  <2>2. readers[n] = IF on[n] THEN <<Cfg.meters[n].serial.device>> ELSE <<>>
    BY <1>8, <2>1 DEF Reader
  <2>3. <<Cfg.meters[n].serial.device>> # <<>>
    OBVIOUS
  <2> QED BY <2>1, <2>2, <2>3
<1>12. SchedulerConfig.readers = on
  BY <1>3, <1>4, <1>8, <1>11 DEF SchedulerConfig
<1>13. AsFiled(file) = [meters |-> on, readers |-> on, items |-> items, interval |-> seconds]
  BY <1>7 DEF AsFiled, on, items, seconds
<1>14. SchedulerConfig = [meters |-> SchedulerConfig.meters, readers |-> SchedulerConfig.readers,
                          items |-> SchedulerConfig.items, interval |-> Cfg.poll_interval_seconds]
  BY DEF SchedulerConfig
<1> QED BY <1>6, <1>9, <1>10, <1>12, <1>13, <1>14

LEMMA FileKept == [Next]_vars => file' = file
<1>1. CASE Load \/ Validate \/ OpenPort \/ Construct \/ Finish
  BY <1>1 DEF Load, Validate, OpenPort, Construct, Finish, setup
<1>2. CASE Poll \/ Worker \/ Signal \/ signal_handler \/ Terminated \/ UNCHANGED vars
  BY <1>2, SetupKept
<1> QED BY <1>1, <1>2 DEF Next, main

\* Every step of the program is a step of a scheduler with the configuration
\* of the file, or none.
LEMMA NextPolls == Loaded /\ Opened /\ [Next]_vars => [Filed!Next]_(Filed!vars)
<1> SUFFICES ASSUME Loaded, Opened, [Next]_vars
             PROVE  [Filed!Next]_(Filed!vars)
  OBVIOUS
<1>0. AsFiled(file)' = AsFiled(file)
  BY FileKept DEF AsFiled, Says
<1>1. ASSUME UNCHANGED polling
      PROVE  UNCHANGED Filed!vars
  BY <1>0, <1>1 DEF polling, Filed!vars, Filed!loop, Filed!ghost
<1>2. CASE Load \/ Validate \/ OpenPort \/ Construct \/ Finish
  BY <1>1, <1>2 DEF Load, Validate, OpenPort, Construct, Finish
<1>3. CASE Worker \/ Signal \/ Terminated \/ UNCHANGED vars
  BY <1>1, <1>3 DEF Worker, Signal, Terminated, vars
<1>4. CASE signal_handler
  <2>1. CASE UNCHANGED polling
    BY <1>1, <2>1
  <2>2. CASE S!Stop
    BY <1>0, <2>2 DEF S!Stop, S!loop, Filed!Stop, Filed!loop, Filed!Next
  <2> QED BY <1>4, <2>1, <2>2 DEF signal_handler, StopOnce
<1>5. CASE Poll
  <2>1. stage = "run"
    BY <1>5 DEF Poll
  <2>2. SchedulerConfig = AsFiled(file)
    BY <2>1, SameConfig DEF Started
  <2>3. /\ S!NumMeters = Filed!NumMeters /\ S!NumItems = Filed!NumItems
        /\ S!Interval = Filed!Interval
        /\ S!Polled = Filed!Polled /\ S!ItemEnabled = Filed!ItemEnabled
    BY <2>2 DEF S!NumMeters, S!NumItems, S!Interval, S!Polled, S!ItemEnabled,
                Filed!NumMeters, Filed!NumItems, Filed!Interval, Filed!Polled,
                Filed!ItemEnabled
  <2> USE <1>0 DEF Filed!Next, Filed!Poller, S!loop, S!ghost, Filed!loop, Filed!ghost
  <2>4. CASE S!Run
    BY <2>4 DEF S!Run, Filed!Run
  <2>5. CASE S!LoopTest
    BY <2>5 DEF S!LoopTest, Filed!LoopTest
  <2>6. CASE S!Sleep
    BY <2>3, <2>6 DEF S!Sleep, Filed!Sleep
  <2>7. CASE S!VisitMeter
    BY <2>3, <2>7 DEF S!VisitMeter, S!LeavePoll, Filed!VisitMeter, Filed!LeavePoll
  <2>8. CASE S!VisitItem
    BY <2>3, <2>8 DEF S!VisitItem, S!LeavePoll, Filed!VisitItem, Filed!LeavePoll
  <2>9. CASE S!Flush
    BY <2>9 DEF S!Flush, Filed!Flush
  <2>10. ASSUME NEW c \in {"success", "decodeFailed", "failed"}, S!ReadItem(c)
         PROVE  Filed!Next
    BY <2>10 DEF S!ReadItem, Filed!ReadItem
  <2>11. CASE UNCHANGED polling
    BY <1>1, <2>11
  <2> QED BY <1>5, <2>4, <2>5, <2>6, <2>7, <2>8, <2>9, <2>10, <2>11
          DEF Poll, Turn, Read, Flush
<1> QED BY <1>2, <1>3, <1>4, <1>5 DEF Next, main

\* Whatever the file, the program polls as a scheduler with the meters and
\* items that the file enables: Collector implements the safety of Scheduler.
THEOREM ImplementsScheduler == Spec => PollsAsFiled
<1>1. Init => Filed!Init
  BY DEF Init, S!Constructed, Filed!Init, Filed!Constructed
<1> QED BY <1>1, InitLoaded, NextLoaded, NextPolls, PTL DEF Spec, PollsAsFiled

\* What main() hands to the parts it starts is what the theorems about them
\* assume: a scheduler gets the configuration of the file, with a pause between
\* its rounds, and a reporter a queue with room for a message.
PartsFit ==
  Started =>
    /\ SchedulerConfig = AsFiled(file) /\ SchedulerConfig.interval \in Nat \ {0}
    /\ Cfg.mqtt.enabled => Cfg.mqtt.max_queue \in Nat \ {0}

\* Whatever the file, no part is started outside what is proved of it.
THEOREM PartsStartFit == Spec => []PartsFit
<1>1. Loaded /\ Opened => PartsFit
  <2> SUFFICES ASSUME Loaded, Opened, Started
               PROVE  /\ SchedulerConfig = AsFiled(file)
                      /\ SchedulerConfig.interval \in Nat \ {0}
                      /\ Cfg.mqtt.enabled => Cfg.mqtt.max_queue \in Nat \ {0}
    BY DEF PartsFit
  <2>1. file \in Files /\ config = load(file) /\ config # <<>> /\ validate(Cfg) = {}
    BY DEF Loaded, Checked, Started
  <2>2. SchedulerConfig = AsFiled(file)
    BY SameConfig
  <2>3. SchedulerConfig.interval \in Nat \ {0}
    <3> DEFINE table == [interval |-> Cfg.poll_interval_seconds <= 0]
               seconds == Given(file.poll_interval_seconds, 60)
    <3>1. True(table) = {}
      BY <2>1 DEF validate
    <3>2. ~(Cfg.poll_interval_seconds <= 0)
      <4>1. "interval" \in DOMAIN table /\ "interval" \notin True(table)
        BY <3>1
      <4>2. ~table["interval"]
        BY <4>1, Zenon DEF True
      <4> QED BY <4>2
    <3>3. SchedulerConfig.interval = Cfg.poll_interval_seconds
      BY DEF SchedulerConfig
    <3>4. Cfg.poll_interval_seconds = seconds
      BY <2>1 DEF load, Cfg
    <3>5. seconds \in Int
      BY <2>1, FieldTypeAssumption DEF Given, HandsOver
    <3> QED BY <3>2, <3>3, <3>4, <3>5
  <2>4. ASSUME Cfg.mqtt.enabled
        PROVE  Cfg.mqtt.max_queue \in Nat \ {0}
    <3>1. Cfg.mqtt.max_queue \in Nat
      BY <2>1, QueueIsNat
    <3>2. True(MqttErrors(Cfg.mqtt)) = {}
      BY <2>1, <2>4 DEF validate
    <3>3. "max_queue" \in DOMAIN MqttErrors(Cfg.mqtt)
      BY DEF MqttErrors
    <3>4. ~MqttErrors(Cfg.mqtt)["max_queue"]
      BY <3>2, <3>3, Zenon DEF True
    <3>5. MqttErrors(Cfg.mqtt)["max_queue"] = (Cfg.mqtt.max_queue = 0)
      BY DEF MqttErrors
    <3>6. Cfg.mqtt.max_queue # 0
      BY <3>4, <3>5, Zenon
    <3> QED BY <3>1, <3>6
  <2> QED BY <2>2, <2>3, <2>4
<1> QED BY <1>1, InitLoaded, NextLoaded, PTL DEF Spec

(***************************************************************************)
(* So what is proved of the scheduler holds of the program.                *)
(***************************************************************************)
P == INSTANCE SchedulerProofs WITH config <- AsFiled(file),
                                   Configs <- {AsFiled(f) : f \in Files},
                                   Code <- {"success", "decodeFailed", "failed"}

LEMMA FiledAssumed == P!ConfigAssumption
BY FiledConfigs DEF P!ConfigAssumption

LEMMA SameScheduler ==
  /\ Filed!Init => P!Init
  /\ [Filed!Next]_(Filed!vars) => [P!Next]_(P!vars)
<1>1. Filed!Init => P!Init
  BY DEF Filed!Init, Filed!Constructed, P!Init, P!Constructed
<1>2. Filed!vars = P!vars /\ Filed!vars' = P!vars'
  BY DEF Filed!vars, Filed!loop, Filed!ghost, P!vars, P!loop, P!ghost
<1>3. Filed!Next => P!Next
  BY DEF Filed!Next, P!Next, Filed!Poller, P!Poller, Filed!Run, P!Run,
         Filed!LoopTest, P!LoopTest, Filed!Sleep, P!Sleep, Filed!VisitMeter, P!VisitMeter,
         Filed!VisitItem, P!VisitItem, Filed!ReadItem, P!ReadItem, Filed!Flush, P!Flush,
         Filed!Stop, P!Stop, Filed!Terminated, P!Terminated, Filed!LeavePoll, P!LeavePoll,
         Filed!NumMeters, P!NumMeters, Filed!NumItems, P!NumItems, Filed!Interval,
         P!Interval, Filed!Polled, P!Polled, Filed!ItemEnabled, P!ItemEnabled,
         Filed!loop, P!loop, Filed!ghost, P!ghost, Filed!vars, P!vars
<1> QED BY <1>1, <1>2, <1>3

\* Whatever the program has been told to do, at most one more reading is made
\* once the handler of a signal has called stop(): the one already decided on.
THEOREM OneReadAfterSignal == Spec => []Filed!OneReadAfterStop
<1>1. P!Init => P!TypeOK /\ P!LateInv
  BY FiledAssumed, P!InitType, P!InitLate
<1>2. P!TypeOK /\ P!LateInv /\ [P!Next]_(P!vars) => P!TypeOK' /\ P!LateInv'
  BY FiledAssumed, P!NextType, P!NextLate
<1>3. P!LateInv => Filed!OneReadAfterStop
  BY DEF P!LateInv, P!OneReadAfterStop, Filed!OneReadAfterStop
<1> QED BY <1>1, <1>2, <1>3, ImplementsScheduler, SameScheduler, PTL DEF PollsAsFiled

\* Every batch the program hands over is of one visit to one enabled meter and
\* has one reading for each enabled item of the file, in the file's order.
THEOREM WholeBatchesOfFile == Spec => Filed!BatchWhole
<1>1. P!Init => P!TypeOK /\ P!BatchInv
  BY FiledAssumed, P!InitType, P!InitBatch
<1>2. P!TypeOK /\ P!BatchInv /\ [P!Next]_(P!vars) => P!TypeOK' /\ P!BatchInv'
  BY FiledAssumed, P!NextType, P!NextBatch
<1>3. P!TypeOK /\ P!BatchInv /\ [P!Next]_(P!vars) => [P!HandoverWhole]_(P!vars)
  BY FiledAssumed, P!StepWhole
<1>4. [][P!HandoverWhole]_(P!vars) => Filed!BatchWhole
  BY DEF P!HandoverWhole, Filed!BatchWhole, P!ItemEnabled, Filed!ItemEnabled, P!Polled,
         Filed!Polled, P!Complete, Filed!Complete, P!vars, P!loop, P!ghost,
         Filed!vars, Filed!loop, Filed!ghost
<1> QED BY <1>1, <1>2, <1>3, <1>4, ImplementsScheduler, SameScheduler, PTL DEF PollsAsFiled

\* The program polls the meters of the file in turn: between two batches it hands
\* over it passes over no enabled meter, within a round or from one to the next.
THEOREM InTurnOfFile == Spec => Filed!InTurn
<1>1. P!Init => P!TypeOK /\ P!BatchInv /\ P!TurnInv
  BY FiledAssumed, P!InitType, P!InitBatch, P!InitTurn
<1>2. P!TypeOK /\ P!BatchInv /\ P!TurnInv /\ [P!Next]_(P!vars)
        => P!TypeOK' /\ P!BatchInv' /\ P!TurnInv'
  BY FiledAssumed, P!NextType, P!NextBatch, P!NextTurn
<1>3. P!TypeOK /\ P!BatchInv /\ P!TurnInv /\ [P!Next]_(P!vars) => [P!HandoverInTurn]_(P!vars)
  BY FiledAssumed, P!StepInTurn
<1>4. [][P!HandoverInTurn]_(P!vars) => Filed!InTurn
  BY DEF P!HandoverInTurn, Filed!InTurn, P!ItemEnabled, Filed!ItemEnabled, P!Polled,
         Filed!Polled, P!Between, Filed!Between, P!vars, P!loop, P!ghost,
         Filed!vars, Filed!loop, Filed!ghost
<1> QED BY <1>1, <1>2, <1>3, <1>4, ImplementsScheduler, SameScheduler, PTL DEF PollsAsFiled

\* Every round of the program ends: however its reads fail, each step of the
\* polling takes one off a number that the file's meters, items and seconds bound.
THEOREM RoundsOfFileEnd == Spec => Filed!RoundEnds
<1>1. P!Init => P!TypeOK /\ P!Awake
  BY FiledAssumed, P!InitType, P!InitAwake
<1>2. P!TypeOK /\ P!Awake /\ [P!Next]_(P!vars) => P!TypeOK' /\ P!Awake'
  BY FiledAssumed, P!NextType, P!NextAwake
<1>3. P!TypeOK /\ P!Awake /\ [P!Next]_(P!vars) => [P!Ending]_(P!vars)
  BY FiledAssumed, P!StepEnds
<1>4. [][P!Ending]_(P!vars) => Filed!RoundEnds
  BY DEF P!Ending, Filed!RoundEnds, P!RoundLeft, Filed!RoundLeft, P!VisitLeft,
         Filed!VisitLeft, P!NumMeters, Filed!NumMeters, P!NumItems, Filed!NumItems,
         P!Interval, Filed!Interval, P!vars, P!loop, P!ghost,
         Filed!vars, Filed!loop, Filed!ghost
<1> QED BY <1>1, <1>2, <1>3, <1>4, ImplementsScheduler, SameScheduler, PTL DEF PollsAsFiled

(***************************************************************************)
(* The reporter as the program uses it.                                    *)
(***************************************************************************)
\* The bound of the queue as the file has it.
LEMMA BoundLoaded ==
  ASSUME file \in Files
  PROVE  LET n == ToSize(Given(file.mqtt.max_queue, DefaultMqtt.max_queue)) IN
         /\ n \in Nat
         /\ config = load(file) /\ config # <<>> => Cfg.mqtt.max_queue = n
<1> DEFINE said == Given(file.mqtt.max_queue, 512)
<1>1. DefaultMqtt.max_queue = 512
  BY DEF DefaultMqtt
<1>2. said \in Int
  BY FieldTypeAssumption DEF Given, HandsOver
<1>3. ASSUME config = load(file), config # <<>>
      PROVE  Cfg.mqtt.max_queue = ToSize(said)
  <2>1. Cfg.mqtt = parse_mqtt_node(file.mqtt)
    BY <1>3 DEF load, Cfg
  <2> QED BY <2>1 DEF parse_mqtt_node, DefaultMqtt
<1> HIDE DEF said
<1>4. ToSize(said) \in Nat
  BY <1>2, SizeAssumption DEF ToSize
<1> QED BY <1>1, <1>3, <1>4 DEF said

LEMMA StepBoxed ==
  Loaded /\ Leaving /\ Working /\ Typed /\ [Next]_vars => [Box!Next]_(Box!vars)
<1> SUFFICES ASSUME Loaded, Leaving, Working, Typed, [Next]_vars
             PROVE  [Box!Next]_(Box!vars)
  OBVIOUS
<1> DEFINE bound == ToSize(Given(file.mqtt.max_queue, DefaultMqtt.max_queue))
<1>0. bound' = bound /\ backlog \in Nat
  BY FileKept DEF Typed
<1> USE DEF Box!Next
<1>1. CASE Load \/ Validate \/ OpenPort
  <2>1. /\ ~Started /\ ~Started' /\ UNCHANGED upload
    BY <1>1 DEF Load, Validate, OpenPort, Goto, Return, process, Started
  <2> QED BY <1>0, <2>1 DEF upload, Started, Box!vars
<1>2. CASE Construct
  <2>1. /\ stage = "open" /\ stage' = "run" /\ UNCHANGED <<inHand, backlog>>
        /\ worker = "none" /\ worker' # "done"
    BY <1>2 DEF Construct, Goto, Working, Started
  <2> QED BY <1>0, <2>1 DEF Box!vars
<1>3. CASE Poll
  <2>1. UNCHANGED <<config, stage>> /\ stage = "run" /\ UNCHANGED <<worker, inHand>>
    BY <1>3, SetupKept DEF Poll, Turn, Read, Flush, upload
  <2>2. backlog' = backlog \/ (backlog' = backlog + 1 /\ Room)
    BY <1>3 DEF Poll, Turn, Read, Flush, upload
  <2>3. Cfg.mqtt.max_queue = bound
    BY <2>1, BoundLoaded DEF Loaded
  <2> HIDE DEF bound
  <2>4. backlog' = backlog \/ (backlog' = backlog + 1 /\ backlog < bound)
    BY <2>2, <2>3 DEF Room
  <2> QED BY <1>0, <2>1, <2>4 DEF Box!vars, Box!Accept, bound
<1>4. CASE Finish
  <2>1. UNCHANGED upload
    BY <1>4 DEF Finish
  <2>2. CASE stage = "run"
    BY <1>0, <1>4, <2>1, <2>2 DEF Finish, Goto, Return, upload, Box!vars, Box!Close
  <2>3. CASE stage \in {"destroy", "unwound"}
    <3>1. stage' \in {"destroy", "unwound"}
      BY <1>4, <2>3 DEF Finish, Goto, Return
    <3> QED BY <1>0, <2>1, <2>3, <3>1 DEF upload, Box!vars
  <2> QED BY <1>4, <2>2, <2>3 DEF Finish
<1>5. CASE Worker
  <2>1. UNCHANGED stage /\ worker = "alive"
    BY <1>5, SetupKept DEF Worker
  <2>2. CASE ~inHand /\ backlog > 0 /\ inHand' = TRUE /\ backlog' = backlog - 1 /\ UNCHANGED worker
    BY <1>0, <2>1, <2>2 DEF Box!Take
  <2>3. CASE inHand /\ inHand' = FALSE /\ UNCHANGED <<worker, backlog>>
    BY <1>0, <2>1, <2>3 DEF Box!Settle
  <2>4. CASE /\ stage = "destroy" /\ backlog = 0 /\ ~inHand
             /\ worker' = "done" /\ UNCHANGED <<inHand, backlog>>
    BY <1>0, <2>1, <2>4 DEF Box!Finish
  <2> QED BY <1>5, <2>2, <2>3, <2>4 DEF Worker
<1>6. CASE Signal \/ signal_handler \/ Terminated \/ UNCHANGED vars
  <2>1. UNCHANGED stage
    BY <1>6, SetupKept
  <2>2. UNCHANGED upload
    BY <1>6 DEF Signal, signal_handler, Terminated, vars
  <2> QED BY <1>0, <2>1, <2>2 DEF upload, Box!vars
<1> QED BY <1>1, <1>2, <1>3, <1>4, <1>5, <1>6 DEF Next, main

\* Whatever the file, the program takes no more of the reporter for granted
\* than Outbox: MqttReporterProofs has that the reporter implements it.
THEOREM UsesOutbox == Spec => OutboxUsed
<1>1. Init => Box!Init /\ Typed
  <2>1. 0 \in 0..MaxSignals /\ 0 \in 0..MaxBacklog
    BY BoundsAssumption
  <2>2. Len(<<>>) <= 1
    OBVIOUS
  <2>3. Init => Typed
    BY <2>1, <2>2 DEF Init, Typed
  <2> QED BY <2>3, BoundLoaded DEF Init, Box!Init
<1> QED BY <1>1, InitLoaded, NextLoaded, InitLeaving, NextLeaving, NextWorking, TypeStep,
           StepBoxed, PTL DEF Spec, OutboxUsed, Box!Spec

(***************************************************************************)
(* The way from a signal to the end.                                       *)
(***************************************************************************)
\* The loop is entered with everything set up, and stays stopped.
Stopping ==
  /\ pc \in S!Control
  /\ pc # "boot" => Started
  /\ stopped = "yes" => ~running /\ pc # "boot"

\* A step of the loop, after the stop one that is nearer to its end; only the
\* one that hands over a batch may add a message.
LEMMA PollLeft ==
  ASSUME Stopping, Poll
  PROVE  /\ pc' \in S!Control /\ stopped' = stopped
         /\ stopped = "yes" => ~running' /\ pc' # "boot"
         /\ pc' = pc \/ pc' # "boot"
         /\ stopped = "yes" => UNCHANGED polling \/ S!StepsLeft' < S!StepsLeft
<1> USE DEF Stopping, S!Control, S!StepsLeft
<1>1. CASE S!Run
  BY <1>1 DEF S!Run, S!ghost
<1>2. CASE S!LoopTest
  BY <1>2 DEF S!LoopTest, S!ghost
<1>3. CASE S!Sleep
  BY <1>3 DEF S!Sleep, S!ghost
<1>4. CASE S!VisitMeter
  BY <1>4 DEF S!VisitMeter, S!LeavePoll
<1>5. CASE S!VisitItem
  BY <1>5 DEF S!VisitItem, S!LeavePoll, S!ghost
<1>6. CASE \E c \in {"success", "decodeFailed", "failed"} : S!ReadItem(c)
  BY <1>6 DEF S!ReadItem
<1>7. CASE S!Flush
  BY <1>7 DEF S!Flush
<1>8. CASE UNCHANGED polling
  BY <1>8 DEF polling
<1> QED
  BY <1>1, <1>2, <1>3, <1>4, <1>5, <1>6, <1>7, <1>8 DEF Poll, Turn, Read, Flush

LEMMA InitStopping == Init => Stopping
BY DEF Init, S!Constructed, Stopping, S!Control

LEMMA NextStopping == Stopping /\ [Next]_vars => Stopping'
<1> SUFFICES ASSUME Stopping, [Next]_vars
             PROVE  Stopping'
  OBVIOUS
<1>1. CASE Load \/ Validate \/ OpenPort \/ Construct \/ Finish
  <2>1. UNCHANGED polling /\ (Started => Started')
    BY <1>1 DEF Load, Validate, OpenPort, Construct, Finish, Goto, Return, Started, process
  <2> QED BY <2>1 DEF polling, Stopping
<1>2. CASE Poll
  <2>1. Started'
    BY <1>2, SetupKept DEF Poll, Started
  <2> QED BY <1>2, <2>1, PollLeft DEF Stopping
<1>3. CASE Worker \/ Signal \/ Terminated \/ UNCHANGED vars
  <2>1. UNCHANGED <<stage, polling>>
    BY <1>3, SetupKept DEF Worker, Signal, Terminated, vars
  <2> QED BY <2>1 DEF polling, Stopping, Started
<1>4. CASE signal_handler
  <2>1. UNCHANGED stage
    BY <1>4, SetupKept
  <2>2. CASE UNCHANGED polling
    BY <2>1, <2>2 DEF polling, Stopping, Started
  <2>3. CASE S!Stop
    BY <2>1, <2>3 DEF S!Stop, S!loop, Stopping, Started
  <2> QED BY <1>4, <2>2, <2>3 DEF signal_handler, StopOnce
<1> QED BY <1>1, <1>2, <1>3, <1>4 DEF Next, main

\* The step after the stop, as StopLeadsOut has it.
LeadsOut ==
  stopped = "yes" /\ <<setup, process, upload, polling>>' # <<setup, process, upload, polling>>
    => StepsToExit' < StepsToExit

LEMMA StepLeadsOut ==
  Stopping /\ Working /\ Typed /\ [Next]_vars => [LeadsOut]_vars
<1> SUFFICES ASSUME Stopping, Working, Typed, Next, stopped = "yes",
                    <<setup, process, upload, polling>>' # <<setup, process, upload, polling>>
             PROVE  StepsToExit' < StepsToExit
  BY DEF LeadsOut
<1> DEFINE place(s) ==
             [load |-> 6, validate |-> 5, open |-> 4, run |-> 3, destroy |-> 2, unwound |-> 1][s]
           alive(w) == IF w = "alive" THEN 1 ELSE 0
           held(h) == IF h THEN 1 ELSE 0
<1>1. Started /\ pc # "boot" /\ ~running /\ backlog \in Nat
  BY DEF Stopping, Typed
<1>2. S!StepsLeft \in Nat
  BY DEF Stopping, S!StepsLeft, S!Control
<1>3. outcome = "running" =>
        StepsToExit = place(stage) + 3 * S!StepsLeft + 2 * backlog + alive(worker) + held(inHand)
  BY DEF StepsToExit
<1>4. StepsToExit' = IF outcome' # "running" THEN 0
                     ELSE place(stage') + 3 * S!StepsLeft' + 2 * backlog' + alive(worker') + held(inHand')
  BY DEF StepsToExit
<1>5. place(stage) \in Nat \ {0} /\ alive(worker) \in Nat /\ held(inHand) \in Nat
  BY <1>1 DEF Started
<1>6. ASSUME outcome = "running", outcome' # "running"
      PROVE  StepsToExit' < StepsToExit
  BY <1>2, <1>3, <1>4, <1>5, <1>1, <1>6
<1>7. CASE Poll
  <2>1. stage' = stage /\ outcome = "running" /\ UNCHANGED <<setup, worker, inHand>>
    BY <1>7, SetupKept DEF Poll, Runs, Turn, Read, Flush, upload
  <2>2. CASE UNCHANGED polling
    <3>1. outcome' # "running"
      BY <1>1, <1>7, <2>1, <2>2 DEF Poll, Turn, Read, Flush, Return, process, upload, polling,
            S!Run, S!LoopTest, S!Sleep, S!VisitMeter, S!VisitItem, S!LeavePoll, S!ReadItem, S!Flush
    <3> QED BY <1>6, <2>1, <3>1
  <2>3. CASE S!StepsLeft' < S!StepsLeft
    <3>1. S!StepsLeft' \in Nat
      BY <1>7, PollLeft DEF S!StepsLeft, S!Control
    <3>2. backlog' \in {backlog, backlog + 1}
      BY <1>7 DEF Poll, Turn, Read, Flush, upload
    <3> HIDE DEF place, alive, held
    <3>3. CASE outcome' = "running"
      BY <1>1, <1>2, <1>3, <1>4, <1>5, <2>1, <2>3, <3>1, <3>2, <3>3
    <3> QED BY <1>6, <2>1, <3>3
  <2> QED BY <1>7, <2>2, <2>3, PollLeft
<1>8. CASE Finish
  <2>1. UNCHANGED <<upload, polling>> /\ S!StepsLeft' = S!StepsLeft /\ outcome = "running"
    BY <1>8 DEF Finish, Runs, polling, S!StepsLeft
  <2>2. outcome' # "running" \/ (outcome' = "running" /\ place(stage') \in Nat /\ place(stage') < place(stage))
    BY <1>8, <2>1 DEF Finish, Goto, Return
  <2> HIDE DEF place, alive, held
  <2> QED BY <1>1, <1>2, <1>3, <1>4, <1>5, <1>6, <2>1, <2>2 DEF upload
<1>9. CASE Worker
  <2>1. UNCHANGED <<stage, outcome, polling>> /\ S!StepsLeft' = S!StepsLeft /\ outcome = "running"
    BY <1>9 DEF Worker, Runs, process, polling, S!StepsLeft
  <2>2. 2 * backlog' + alive(worker') + held(inHand') < 2 * backlog + alive(worker) + held(inHand)
        /\ backlog' \in Nat /\ alive(worker') \in Nat /\ held(inHand') \in Nat
    BY <1>1, <1>9 DEF Worker, Typed
  <2> HIDE DEF place, alive, held
  <2> QED BY <1>1, <1>2, <1>3, <1>4, <1>5, <2>1, <2>2
<1>10. CASE Signal
  <2>1. outcome = "running" /\ UNCHANGED <<setup, upload, polling, stage>>
    BY <1>10, SetupKept DEF Signal
  <2>2. outcome' # "running"
    BY <1>10, <2>1 DEF process
  <2> QED BY <1>6, <2>1, <2>2
<1>11. ~signal_handler /\ ~Terminated
  BY DEF signal_handler, StopOnce, Terminated, vars
<1>12. ~(Load \/ Validate \/ OpenPort \/ Construct)
  BY <1>1 DEF Load, Validate, OpenPort, Construct, Started
<1> QED BY <1>7, <1>8, <1>9, <1>10, <1>11, <1>12 DEF Next, main

\* Once a signal has stopped the polling, whatever is still to be read, queued,
\* published or signalled, the two threads are on a way out on which no step is
\* taken twice: the safety half of SignalStops.
THEOREM StopsLeadOut == Spec => StopLeadsOut
<1>1. Init => Typed
  <2>1. 0 \in 0..MaxSignals /\ 0 \in 0..MaxBacklog
    BY BoundsAssumption
  <2>2. Len(<<>>) <= 1
    OBVIOUS
  <2> QED BY <2>1, <2>2 DEF Init, Typed
<1>2. Stopping /\ Working /\ Typed /\ [Next]_vars => [LeadsOut]_vars
  BY StepLeadsOut
<1>3. [][LeadsOut]_vars => StopLeadsOut
  BY DEF LeadsOut, StopLeadsOut
<1> QED BY <1>1, <1>2, <1>3, InitStopping, NextStopping, InitLeaving, NextWorking, TypeStep,
           PTL DEF Spec
=============================================================================
