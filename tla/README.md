# Formal model of the DL/T 645 collector

TLA+ modules, TLC configurations and TLAPS proofs for the program in this
repository (`src/`): a gateway process that polls electricity meters over an
RS-485 serial line with the DL/T 645-2007 protocol and reports the readings to an
MQTT broker, which can also query the cached readings.

Paths below are relative to the program's source directory `src/src/` unless they
begin with `src/`.

## 1. The system

### 1.1 Components

| component | source | state it keeps | operations |
|---|---|---|---|
| Program | `main.cpp` | global pointer to the scheduler | start, signal handler, shutdown |
| Configuration | `app/config.cpp` | none after loading | `load`, `validate` |
| Scheduler | `app/scheduler.cpp` | `running_`, position in the two loops, batch of the meter at hand | `run`, `poll_once`, `stop` |
| Meter reader | `app/meter_reader.cpp` | none of its own | `read_data` (request, wait, validate, decode) |
| Frame transceiver | `transport/frame_transceiver.cpp` | `recv_buffer_` | `send_frame`, `receive_frame` |
| Serial port | `transport/serial_port.cpp` | the tty, whose input queue the kernel keeps per device | `open`, `send`, `receive` |
| Frame codec | `protocol/frame_codec.cpp`, `frame.h` | none | `encode`, `decode` |
| BCD codec, data items, address | `protocol/bcd_codec.cpp`, `address.cpp`, `data_item.cpp` | none | `add33`, `sub33`, `decode_float`, `encode`, `encode_di`, `from_string`, ... |
| MQTT reporter | `app/mqtt_reporter.cpp` | `queue_`, cache, `running_`, Paho client | `report`, `report_batch`, worker loop, destructor |
| Query payload | `app/mqtt_query_payload.cpp` | none | parse a query command |
| Result log and logging | `app/result_reporter.cpp`, `app/logging.cpp` | the default logger, with its mutex | format and write log lines |

### 1.2 How they interact

```
 signal ──> stop() ─┐                         ┌── cmd/query ──┐
                    v                         v               │
              Scheduler ── report_batch ──> MqttReporter ──> broker
                    │        (callback)      queue, cache,     (Paho)
             read_data (call)                worker thread
                    v
        MeterReader ─> FrameTransceiver ─> SerialPort ══ RS-485 ══ meters
                            │
                        FrameCodec
```

There are two threads and a signal handler. The polling thread is `main`: it runs
the scheduler, which calls the meter reader down to the serial port and, per
meter, calls back into the reporter. The reporter's worker thread owns the Paho
client. The two share `queue_`, the cache and `running_` of the reporter under one
mutex. The signal handler runs on one of the two threads, in the middle of whatever
that thread does; it writes a log line and clears the scheduler's atomic `running_`.
All log lines of both threads go through the one mutex of the default logger's sinks.
Everything on the serial side is one thread against the line, where bytes come when
they come; meters configured on one device share its input queue.

### 1.3 What is hard, and what makes each component correct

* **Serial side.** Bytes arrive in chunks cut anywhere; a deadline can pass before,
  in or after an answer; the user-space buffer is emptied by each request and the
  kernel's queue is not; noise, crosstalk and lost bytes. Correct is: a value
  returned for a request is the value of the meter's answer to *that* request; a wrong
  byte is not taken for data; a frame that is there is found; nothing of the
  next frame is consumed; every read ends.
* **Scheduler.** The stop comes at any instant, before the loop too. Correct is:
  batches are whole and of one meter and one visit; the loop ends soon after a stop
  and only then; no meter starves behind disabled or missing ones.
* **Reporter.** `report` and a worker with an unreliable broker interleave; messages
  are dequeued before it is known that they can be sent; queries are answered between
  dequeuing and publishing, on the same connection; the client is destroyed on
  failures; the destructor joins the worker. Correct is: reports reach the broker
  in order and at most once; an answer is never older than what the asker could
  know; nothing accepted is lost except with a connection; shutdown drains the queue
  and ends; commands are served.

* **Program and configuration.** A file is any tree YAML can make; numbers may be
  negative and conversions change them. Correct is: a program that starts has a
  reader for each enabled meter at the place the scheduler looks for it and
  something to poll; it polls until it is stopped; a signal ends it with nothing left in the
  reporter; what makes it die is known.
* **Codecs and identifiers.** Correct is: a value is the number its digits stand for, an
  address is written as it was read, different identifiers have different bytes.

The complete list of hazards, each at its line with the properties that cover it, is
in `PROJECT.json` under `hazards`.

## 2. Modules

| module | models | form |
|---|---|---|
| `MqttReporter` | `app/mqtt_reporter.cpp` | detailed specification |
| `Uplink` | what the reporter promises to the polling thread | abstract specification, implemented by `MqttReporter` |
| `Outbox` | what the reporter is to `main()` | abstract specification, implemented by `MqttReporter` and by what `Collector` uses of it |
| `MqttReporterProofs` | | proofs |
| `MeterReader` | `read_data` over transceiver and tty, with the meaning and the values of frames | detailed specification over `BcdCodec` |
| `MeterReaderProofs` | | proofs |
| `BcdCodec` | `protocol/bcd_codec.cpp`, `DataItem::decode_value` | operators on byte sequences |
| `Identifiers` | `protocol/address.cpp`, `DataItem::encode_di` | operators |
| `BcdCodecProofs` | | lemmas on those operators |
| `FrameCodec` | `protocol/frame_codec.cpp`, masking | operators on byte sequences |
| `FrameCodecProofs` | | lemmas on those operators |
| `FrameTransceiver` | `send_frame`, `receive_frame`, byte by byte | detailed specification over `FrameCodec` |
| `FrameTransceiverProofs` | | proofs |
| `Scheduler` | `app/scheduler.cpp` | detailed specification |
| `SchedulerProofs` | | proofs |
| `Config` | `app/config.cpp`, the settings `SerialPort::open` accepts | operators on the tree of a file |
| `Collector` | `main.cpp`, the signal handler, the logger's mutex | composition of `Config`, `Scheduler` and the reporter's queue and thread |
| `CollectorProofs` | | proofs |
| `NatRecursion` | | induction and recursion on the natural numbers, for the proofs |
| `MC*` | | finite values for TLC |

`PROJECT.json` maps each definition to the lines it models.

### 2.1 MqttReporter

One action is one critical section of `mutex_`, or one library call made outside it.
Readings are version numbers: the n-th call of a report operation carries version n,
so *newer* is *larger*. The polling thread's actions are `ReportBatch` (cache and
queue in one critical section), `Report` and `ReportEnqueue` (`report()` has two
critical sections, and the worker may run between them), `Destroy` and `Join` (the
destructor). The worker has a control point `wpc`:

| `wpc` | place in `worker_loop` |
|---|---|
| `take` | the wait on the condition variable and the dequeue (`WorkerTake`, `WorkerExit`) |
| `open` | `ensure_connected` (`WorkerOpen`) |
| `poll`, `replyPoll` | `handle_incoming_commands` after connecting, and its answer |
| `publish` | `publish_now` of the dequeued message |
| `idle`, `replyIdle` | the wait for commands with no message at hand, and its answer |
| `close`, `done` | disconnecting and leaving the thread |

`client` is the state of the Paho handle, `inflight` what it has accepted and the
broker has not received, `inbox` what it has received and not handed over. The client
is created with `cleansession = 1` and without persistence, therefore destroying it or
losing the link empties both. The broker, the link and the users are environment
(`Deliver`, `LinkLost`, `UserQuery`), modelled from how the code calls Paho.

`report_batch` is given one result per item by the scheduler, so every key of the
meter is refreshed; the text of topics, payloads and JSON is left out.
`known` and `asked` are ghosts: they remember, per key, the newest version that had
left the gateway or whose report call had returned when a query was sent.

`Uplink` says what the polling thread may rely on: a first-in first-out channel that
may refuse a report, may lose the oldest ones, and never duplicates, reorders or
keeps one for ever. The refinement mapping takes what is in flight, the message in
the worker's hand and the queue, in this order, for the content of the channel.

`Outbox` says what `main()` relies on, with numbers in place of messages: a bounded queue that is
closed by the destructor, a thread that takes one message at a time and never gives one
back, and that is done only when nothing is left. `Collector` keeps just these of the reporter.

### 2.2 MeterReader, BcdCodec and Identifiers

The polling thread works through `Plan`, a cycle of requests to the meters that share one
device. Each meter has a receive buffer of its own in the code; since every
request empties the buffer of its meter before anything is read into it, one variable
`buf` stands for all of them. A frame on the line is two
pieces, a head that ends somewhere behind the address and a tail; noise is a piece
of any length. `kernel` is the tty's queue, `wire` what is
still coming. A frame knows the meter that sends it, the item and the bytes of the value,
and whether the request it answers is the latest one (`fresh`); `Verdict` is
`validate_response` with the length test of `read_data`, in their order, and
`ResultOf` adds the value. Time is abstract: `Timeout` may
happen at any moment of a read, as the deadline may pass at any moment.
`Crosstalk` brings frames of other devices, `SendFails` is a failed write.

`BcdCodec` has the value of a frame: `decode_float` is `decode` on the bytes in reverse
order, each turn of the loop (`Accumulate`) a sum modulo `MaxValue + 1`, as that of a
`uint64_t`, behind the overflow test of the code. Invalid digits and a failed overflow test
give 0, a success, as in the code. `Number` is what it is compared with: the
number in base 100, of any size. `Identifiers` has addresses and data identifiers; a
character of an address string is the value of its hexadecimal digit.

### 2.3 FrameCodec and FrameTransceiver

`FrameCodec` has the frames as bytes: masking, checksum, `encode` and `decode`, with
the arithmetic modulo 256. `FrameTransceiver` is the loop of `receive_frame` on real
bytes: chunks of at most `ReadChunk`, decoding at the front of the buffer, erasing
what was consumed, trimming an oversized buffer to the next 0x68. Devices send frames
behind 0, 1 or more preambles, and the line may lose, alter or add bytes. The two
models of the transceiver answer different questions: `FrameTransceiver` whether the
bytes of frames are recovered exactly, `MeterReader` whether the frames are the
answers to the requests.

### 2.4 Scheduler

One action per turn of a loop head (`LoopTest`, `VisitMeter`, `VisitItem`, `Sleep`),
per read and per batch callback, with `Stop` between any two of them. `shown` and
`uploads` record what the two callbacks were given; `lateReads` counts reads that
begin after a stop of the running loop. `config` is chosen at the beginning and has the
flags of meters and items, the interval, and which readers are there: the list of
readers is independent of that of the meters here, as the constructor allows.

### 2.5 Config and Collector

A file is the tree that YAML makes of it, reduced to the fields by which the program
decides: each field is a value, `Absent`, or `Garbled` if its text does not convert.
`load` has the defaults, the inheritance of the serial settings, the failed conversions and
the conversion of `max_queue` to `std::size_t` (modulo `SizeValues`); `validate` has the errors,
one flag each. A negative `max_queue` is huge by the time `validate` compares it with 0, so it is accepted and
means no bound: `QueueAsConfigured` is about the other numbers only.

`Collector` is `main()`. `stage` is its place:

| `stage` | lines of `main.cpp` |
|---|---|
| `load`, `validate` | 33-37, 39-45 |
| `open` | 49-66, one action per meter, then 68-87 (`Construct`) |
| `run` | 90: the steps of `Scheduler`, through `INSTANCE` with the loaded configuration and the readers `main` has made |
| `destroy` | 92, in `~MqttReporter`, waiting for the thread |
| `unwound` | 92, scheduler gone, process not ended yet |

A read in `Collector` is what `read_data` does with a `data_length` of any sign: the
comparison of `std::size_t`, and the iterator range that throws if it runs backwards (`abort`).
Of the reporter, `backlog` counts the queue and `inHand` the message the worker has;
`MqttReporter` has all the rest. Here the worker publishes or loses each message. That the two
fit is `OutboxUsed` on this side and `OutboxImplemented` on the other. That `main()` polls as
`Scheduler` does is `PollsAsFiled`: `Filed` is `Scheduler` with the flags and the interval as
they stand in the file (`AsFiled`), every meter with a reader, whereas the steps of `Collector`
use the configuration as loaded and the list of readers as `main()` has filled it.

A signal (`Signal`) kills the program before the handlers are installed, and after that occupies
one of the two threads with `signal_handler` until the handler has written its line and called
`stop()`. Handlers do not nest in the model. `holder` is the owner of the logger's mutex:
log calls are atomic except where a signal strikes within one, which `SignalInLog` allows or
excludes. In `unwound` the handler uses a scheduler that has been destroyed: the model
chooses between an abort and nothing.

## 3. Runs

Passing runs:

| run | instance | shows |
|---|---|---|
| `mqtt_safety` | 1 meter, 2 items, queue of 2, 3 reports, 1 query | `TypeOK`, `UplinkInOrder`, `AnswerFresh`, `DrainedOnReturn`, `LossOnlyWithConnection`, `AnswerNewest`, `OutboxImplemented`, `DrainAdvances` |
| `mqtt_liveness` | 1 item, queue of 1, 3 reports, 2 queries | `ShutdownCompletes`, `QueriesServed`, `UplinkImplemented` |
| `reader_line` | three requests to two meters on one line, answers with a byte more than the item has and with fewer, one of no decimal digits, every fault, 4 pieces unread (about a million states, two minutes) | `QuietStartIsExact`, `ReadingIsExact`, `ReadReturns` |
| `scheduler` | every configuration of at most 3 meters, 3 readers, 2 items and an interval of at most 1: 3150 of them; two result codes | `BatchWhole`, `OneReadAfterStop`, `StopReturns`, `EveryMeterPolled`, `StopIsPrompt`, `RoundEnds`, `InTurn` |
| `collector` | 26 files that differ from a sound one in each field that decides, 2 signals, answers of 1 and 2 bytes | `ReadyToPoll`, `AcceptedIsPolled`, `SignalStops`, `DrainedAtExit`, `AbortCause`, `QueueAsConfigured`, `PollsAsFiled`, `OutboxUsed`, `StopLeadsOut` |
| `transceiver_bytes` | two frames, one with an address byte 0x68, a data byte that wraps, and data that pass for checksum and end of frame, 0 or 1 preamble, 2 reads, one line fault (five million states) | `WrongByteNeverData`, `WholeFrameReturned`, `ExactlyOneFrameConsumed`, `FirstFrameReturned` |

Runs in which TLC refutes something the repository says of the program (the quotes are
in `PROJECT.json` under `findings`):

| run | property | what happens |
|---|---|---|
| `reader_stale` | `ResidualFrameNeverUsed` | an answer later than its deadline stays in the tty's queue, which nothing flushes, and becomes the value of the next read of the same item |
| `reader_slow` | `SlowMeterIsRead` | with two items or more, one late answer puts every later read one answer behind: each takes the answer to the request before, fails with `kDataMismatch` at once and leaves its own answer to its successor, for good |
| `transceiver_noise` | `FrameBoundaryFound` | one stray byte before an intact frame, and the read times out with the whole answer in its buffer |
| `collector_signal` | `SignalStops` | the same instance, but a signal may interrupt a log call: the handler logs before it stops, waits for the mutex that its own thread holds, and the program never ends |
| `scheduler_early_stop` | `StopIsFinal` | `stop()` before `run()` has set `running_` is overwritten |
| `mqtt_query_service` | `QueryService` | a subscription that fails once is not tried again while the link stays up |

### 3.1 Bounds, and why they are enough

* A queue of 2 with 3 reports fills, overflows and is drained while a fourth place
  (the worker's hand) and the connection hold messages; with the queue of 1 of the
  liveness run, overflow happens at each step of the worker. Two items make reports of one
  key and of several overlap; they are interchangeable, which the safety run uses as
  symmetry (the liveness run has a single item and no symmetry). Two
  queries let one be answered while the other waits.
* Four pieces on the line are two frames: the answer that is late and the answer to
  the present request. A third frame could only repeat the situation of the
  second. Noise of any length is one piece. Requests for two items of one meter and one item
  of two meters cover each way two neighbouring requests can differ; values of 1 and 2 bytes
  with a byte more and a byte less than the item has meet each branch of the length test, and
  a `MaxValue` of 1299 is met exactly by one of them; the value of 1 byte is 0x3A, which is not decimal.
* The bytes run sends two frames of 12 and 14 bytes over chunks of at most 8 and a
  limit of 17, in place of 256 and 1024: a frame takes two chunks at least, the
  limit is met with one frame and part of the next in the buffer, and trimming
  happens. The fault may strike any byte. The two data bytes of the longer frame are 202 and 22 on the
  line: the checksum and the end it would have with no data, so that the frame with its
  length altered to 0 decodes to another frame. `WrongByteNeverData` therefore leaves out the length
  (`FrameStays`), as well as a preamble that turns into a start and a start that turns into a preamble; without
  the first of these exceptions TLC refutes it in this very run. A limit smaller than a frame with its preambles is excluded
  by `RoomAssumption`: the longest frame of the protocol has 267 bytes and the code's limit is 1024. The
  proofs are for any of these constants.
* The scheduler has no bound but those of its configurations: with three meters there is one before and
  one after any meter that is skipped, and with two items a stop can come between them.
* The collector's files have up to three meters, disabled first, between and alone, and each number
  of the configuration at and beyond its limits (negative `max_queue` and `data_length`, zero, too
  large a port). `SizeValues` is 1000 instead of 2^64: the assumption `LengthAssumption` names what
  matters, that sizes and lengths are far below it. `MaxBacklog` is one more than the largest queue
  of a file except the one whose negative `max_queue` means no limit; there the polling thread waits
  at the bound for the worker. Two signals give one that comes while the other is handled or after it.

### 3.2 Fairness

* The worker thread is scheduled, and every library call it makes has a time limit
  (`connectTimeout`, the timeouts of receive and disconnect): `WF(Worker)`.
  Nothing makes the calls *succeed*: connecting, publishing and subscribing fail
  as often as they like.
* The second half of `report()` and the return of `join` follow once they can;
  `Deliver`: a link that stays up carries what it was given (QoS 1).
* The polling thread runs, and `read_data` and the sleep are bounded in time:
  `WF(Poller)` in `Scheduler`. In `MeterReader` the deadline passes (`WF(Timeout)`)
  and bytes already on the wire arrive. Neither stops, reports nor queries are fair.
* In `Collector` each thread runs: `WF(main)`, `WF(Worker)`; and a handler that has been entered
  goes on when it can: `WF(signal_handler)`. Signals are not fair. The mutex of the logger is free
  again and again in the passing run, as no one is interrupted while holding it.

## 4. Proofs

TLAPS checks these for every value of the constants, under the named assumptions of
the modules (`MaxQueue > 0`, as `Config::validate` demands; configurations whose lists
are sequences; data fields of at most 255 bytes, as the length
field has one byte; a frame that fits the receive buffer's limit).

* **`BcdCodecProofs`.** `DecodeInRange`; `DecodeExactly`: decimal digits whose number fits are
  decoded to it, so the overflow test refuses none of those; `NotBcdIsZero`; `ValueExact`;
  `EncodeThenDecode`; `AddressReadBack`; `DiBytesDistinct`. The loops are recursive functions;
  `NatRecursion` derives, from the well-foundedness of the natural numbers, the
  existence of such a function and a form of induction the provers can use: a set of numbers
  that holds 0 and is closed under the successor.
* **`MeterReaderProofs`.** `ReaderType`. `QuietReadsExact` and `ReadingsExact` for any number of
  meters, items, pieces and any answers: by `Clear`, while a read that started on a quiet line waits,
  every answer in the buffer, the tty or on the line is one to this very request; by `Exact`, the
  result of any read is `ResultOf` of the frame it found, and on a quiet line of such a frame or of another device's. `ValueExact`
  and `NotBcdIsZero` give the number.
* **`CollectorProofs`.** For every set of files: `ReadersFitMeters` (by `Loaded` and `Opened`: the
  list of readers has, at each point of the loop of `main`, one entry for each meter passed);
  `NothingLeftBehind` (by `Leaving`: the polling ends only after a stop; by `Working`: a
  thread that is done has left nothing, and it is done before `unwound`); `QueueBounded` (by
  `Bounded`, and `ToSize` of a number that is not negative is no larger than it); `TypeCorrect`; `AbortsExplained` (by
  `Chosen`, and the wrapped sum is above any size unless the length is -4 or more). They rest on
  `FilesAssumption` (lists are sequences), `LengthAssumption`, `FieldTypeAssumption` (what YAML hands over
  for an `int` or a `bool` is one) and `FieldAssumption`.
  `ImplementsScheduler`: `SameConfig` has that, once the loop is entered, what the scheduler sees is what the
  file says, defaults included; `NextPolls` turns each step of the program into one of the scheduler or a
  stutter. Through that refinement the invariants of `SchedulerProofs` are those of the program
  (`OneReadAfterSignal`, `WholeBatchesOfFile`): the module is instantiated, its lemmas cited, and what it
  assumes of configurations proved of every file (`FiledConfigs`); in the same way the meters of the file hand over
  in turn (`InTurnOfFile`) and each round of the program ends (`RoundsOfFileEnd`). `UsesOutbox` rests on `Working`.
  `PartsStartFit`: what `main()` starts meets what the theorems about the parts assume, the queue's room included.
  `StopsLeadOut` is the safety half of `SignalStops`: from the stop on each step of either thread takes at least one
  off `StepsToExit`, which counts the stages of `main()` left, the steps of the loop left, the backlog and the
  worker. By `Stopping` a loop that was stopped does not run, and it was stopped only from within `run()`;
  `PollLeft` has what one step of the loop does to the measure.
* **`MqttReporterProofs`.** `TypeCorrect`. `AnswersAreFresh`: the bare property is
  not inductive, since an answer is old or new already when it is made;
  `FreshInv` says that the cache of a key is at least what is `known` of it and at least the
  version of any message, with that key, that is drafted, queued, in hand or in flight; that a
  query waiting has seen no more than the cache; and that an answer under way has a version no smaller than
  what its asker had seen. `ReportsArriveInOrder`: `OrderInv` takes
  what arrived, what is in flight, the job, the queue and the draft as a single line in
  strictly increasing versions, all at most `issued`; each action takes from the
  front of a part and appends to another, or drops. `ShutdownDrains`: `DrainInv` says that the
  worker leaves its loop only after the stop and with nothing queued or in hand, and that from the stop on
  nobody enqueues. `SafelyImplemented` and `LossExplained` rest on one lemma, `ChannelMoves`: a
  step leaves what the gateway carries alone (`Quiet`), adds one message at the end or refuses it (`Offering`),
  moves the first to the broker (`Arriving`), lets an answer pass (`Answering`), or drops a first
  stretch with the link down before or after (`Losing`). It needs `ChannelInv`, that queue, job and draft
  hold reports only, and the draft the newest. `Reports`, a recursive function, is
  taken apart by `ReportsAppend` and `ReportsHead`; the lemmas on `Versions` turn the five
  kinds of step into steps of `Uplink`. `AnswersAreNewest`: by `NewestInv` the cache is
  at least as new as all that has arrived, and no answer in flight or under way is behind a message before it; an
  answer made from the cache can follow any of them, as `FreshInv` has the cache ahead of every message. `IsOutbox` rests on `DrainInv`.
  `DrainEnds` is the safety half of `ShutdownCompletes`: after the destructor's request each step of the worker takes
  at least one off `WorkLeft`, six for each message queued and the worker's place in its loop, by `DrainInv` and without any
  assumption on the broker.
* **`FrameCodecProofs`.** Masking is undone by unmasking; one altered byte changes the
  checksum; a frame with one wrong byte is refused (`WrongByteRefused`) unless the byte is the length,
  which moves the checksum elsewhere, or the first start byte and becomes one more preamble; `decode` never consumes more than there is, so the branch of
  `receive_frame` that clears the buffer in that case is dead; what decodes at the front of a
  buffer decodes the same whatever follows (`DecodePrefix`), and the bytes consumed are by
  themselves that frame (`DecodeExact`); what `decode` takes for a frame is, byte for byte, preambles and the
  encoding of the frame it returns (`DecodedIsEncoded`), so no byte of it is ignored; a frame behind any number of preambles and before
  any bytes decodes to itself, `decode` after `encode` in particular. The checksum is a
  recursive function, reasoned about through its first index of disagreement (`LeastNumber`,
  from the well-foundedness of the natural numbers).
* **`FrameTransceiverProofs`.** `TypeCorrect`, `WholeFramesReturned`, `OneFrameConsumed`,
  `FirstFramesReturned`, `WrongByteIsNeverData`. In the strengthening, `Untrimmed` says that, as long as no more than
  `MaxBuffer` bytes were read, the buffer of a waiting read is just what was read, and an end of
  it beyond that. A frame that had been missed in a shorter prefix would, by `DecodePrefix`, have
  been found when that prefix was the buffer's beginning. `FirstFrameReturned` is about a read begun with no byte on
  its way (`mark`): `Stream`, what was read, what waits in the tty and what is on its way, one behind the other,
  begins with the first frame sent since (`Opens`); so the beginning that decodes first is that
  frame, by `FrameSentIsFrameDecoded`, `DecodePrefix` and `DecodedFrame`, and it fits the buffer by `RoomAssumption`.
  `WrongByteNeverData` compares what was read with `origin`, the bytes the devices have sent since the request. By `Traced` these
  begin with the first frame, whole, as soon as there are any. What the read returned decodes from a beginning of
  what was read, and that differs from the same beginning of `origin` in one byte at most: by `WrongByteInStream`
  it is no frame if the byte lies within the first frame (`WrongByteRefused`), and the first frame if it lies behind it.
* **`SchedulerProofs`.** `TypeCorrect`. `AtMostOneReadAfterStop`: counting late reads is not
  inductive by itself; `LateInv` adds that a stopped loop stays stopped and that a read is
  only ever about to be made when none was made late. `BatchesAreWhole`: by `BatchInv` the batch
  is at each point of a visit what the result callback was shown, and has one result for each enabled item
  before the one at hand, in order. `MetersInTurn`: by `TurnInv` no meter that can be polled lies, in the cycle of the meters,
  between the last handover and the meter at hand, nor, while the loop runs between two rounds, between that handover and the
  first meter. `StopsPromptly` and `RoundsEnd` are measures that fall: `StepsLeft` has the at most six steps after
  a stop, and `RoundLeft` those of a round, a product of meters and items and the seconds of the pause. The
  second needs `Awake`, that the loop runs until it is stopped.

Only model-checked: everything under fairness (`ShutdownCompletes`, `QueriesServed`,
`ReadReturns`, `StopReturns`, `EveryMeterPolled`, `AcceptedIsPolled`, `SignalStops`) and the
fairness in the refinement of `Uplink`. Of these, what does not need fairness is proved: that every step goes towards the end
and none back (`DrainEnds` for `ShutdownCompletes`; `StopsPromptly` for `StopReturns`; `RoundsEnd` and `MetersInTurn` for
`EveryMeterPolled`, and through `PollsAsFiled` for `AcceptedIsPolled`; `StopsLeadOut` for
`SignalStops`). What remains with TLC is that a step is always possible until the end, and taken.

No property says that `receive_frame` returns only frames that were sent, since that is false. One wrong length
can end a frame on data that pass for checksum and end; two wrong bytes can cancel in a sum modulo 256; and a
read that begins in the middle of a frame whose data hold a whole frame finds that one. What holds for all
frames is `WrongByteNeverData` for one altered byte elsewhere, and `FirstFrameReturned` where there is none.
Liveness and `ENABLED` are beyond the proof system used here.

## 5. Not modelled

* The calls of `SerialPort::open` to termios: I/O. Which settings it refuses is in
  `Config.Supported`, and that it may fail is in `Collector.OpenPort`.
* `app/mqtt_query_payload.cpp`: a stateless scan of a text, character by character, and a file
  read. Its outcome, a key or a command that does not parse, is an input of `MqttReporter`; the text
  itself is below what these properties tell apart.
* The division of a value by a power of ten and the 53 bits of a `double`: a value is its digits.
* `4 + data_length` in `int` at the very end of its range, where it overflows.
* Which number a data identifier becomes when its text is longer than 32 bits or has a tail that is
  not hexadecimal, and meters of the same name, which share topics and cache keys (see the hazards).
* One signal handler interrupting another.
* A reporter that is disabled in the configuration: every operation of it returns at once.
* YAML parsing, the text of topics, payloads and log lines.
* Thread creation failure, memory exhaustion.
* MQTT below the client's interface: QoS 1 may duplicate on the wire; the Paho client
  here reconnects with a clean session and no persistence, so it has nothing to send
  again after a reconnect.

## 6. Plan

Done, in this order: `MqttReporter` with `Uplink`; `MeterReader`; `Scheduler`;
`FrameCodec` and `FrameTransceiver`; their proofs; `BcdCodec` and `Identifiers`; the meters and the
values of `MeterReader`; `Config` and `Collector`; their proofs; the refinement of `Uplink`; the refinements
between the components (`PollsAsFiled`, `OutboxUsed`, `OutboxImplemented`), what is true of a read on a quiet
line (`FirstFrameReturned`) and of the order of answers (`AnswerNewest`); the measures of shutdown and of a
round, and the order of the meters (`DrainAdvances`, `StopIsPrompt`, `RoundEnds`, `InTurn`, `StopLeadsOut`); what one wrong byte can do
(`WrongByteNeverData`). To come:

1. Proofs about `Config` by itself: which files `load` and `validate` accept, field by field.
2. The buffer of `receive_frame` beyond its limit: how far it can grow, once a limit is documented.
3. The reads of `Collector` and those of `MeterReader` under one abstract read, as the reporter has it with `Outbox`.
