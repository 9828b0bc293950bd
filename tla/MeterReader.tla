---------------------------- MODULE MeterReader ----------------------------
(***************************************************************************)
(* Reading a meter over its serial device: MeterReader::read_data() on top *)
(* of FrameTransceiver on top of SerialPort (src/src/app/meter_reader.cpp, *)
(* src/src/transport).  The polling thread works through the items of the  *)
(* meters that share the line in a fixed cycle; a meter's own receive      *)
(* buffer is emptied before each of its reads, so one buffer stands for    *)
(* all of them.                                                            *)
(*                                                                         *)
(* A frame on the line is a head, which ends somewhere after the address,  *)
(* and a tail; anything else on the line is noise, one piece of it being   *)
(* any number of bytes.  Time is abstract: the deadline of a read may pass *)
(* at any moment.                                                          *)
(***************************************************************************)
EXTENDS BcdCodec

CONSTANTS Plan,        \* the cycle of requests: a sequence of records [meter, item]
          Length,      \* DataItem::data_length of each item
          Other,       \* a device of the bus that is none of the meters
          Answers,     \* what a meter can answer, see Answer
          Faults,      \* what else may happen on the line, a subset of LineFault
          MaxPieces    \* bound: pieces on the line and in the tty, unread

LineFault == {"noise", "silence", "crosstalk", "writeError"}

Steps == 1..Len(Plan)
Item  == {Plan[i].item : i \in Steps}
Meter == {Plan[i].meter : i \in Steps}

\* "error": D1 or any control code but 0x91; "tiny": no room for a DI;
\* "data": the DI of the request and the bytes of the value.
Answer == [kind : {"data", "error", "tiny"}, value : Seq(0..255)]

ASSUME PlanAssumption ==
  /\ Plan \in Seq([meter : Meter, item : Item])
  /\ Plan # <<>>
  /\ Other \notin Meter
ASSUME LengthAssumption == Length \in [Item -> Nat]
ASSUME AnswersAssumption == Answers \subseteq Answer
ASSUME FaultsAssumption == Faults \subseteq LineFault
ASSUME BoundsAssumption == MaxPieces \in Nat

VARIABLES
  pc,       \* "idle": between two reads; "receive": in receive_frame()
  step,     \* the request made last
  buf,      \* recv_buffer_
  kernel,   \* bytes the tty has received and nobody has read
  wire,     \* bytes being sent to us
  last,     \* what read_data() returned last, with the frame it looked at
  quiet     \* no earlier answer was under way when the request was sent

vars == <<pc, step, buf, kernel, wire, last, quiet>>

(***************************************************************************)
(* Frames.  `fresh` holds while the request a frame answers is the latest. *)
(***************************************************************************)
Frame == [meter : Meter \cup {Other}, item : Item, kind : {"data", "error", "tiny"},
          value : Seq(0..255), fresh : BOOLEAN]

AnswerTo(request, a, fresh) ==
  [meter |-> request.meter, item |-> request.item, kind |-> a.kind,
   value |-> a.value, fresh |-> fresh]

\* A frame of another device on the bus.
ForeignFrame ==
  AnswerTo([Plan[1] EXCEPT !.meter = Other], [kind |-> "data", value |-> <<>>], FALSE)
Noise == [part |-> "noise"]
Piece == [part : {"head", "tail"}, frame : Frame] \cup {Noise}

IsNoise(p)  == p.part = "noise"
IsAnswer(p) == ~IsNoise(p) /\ p.frame.meter # Other
Carries(s)  == \E i \in DOMAIN s : IsAnswer(s[i])
Aged(s) == [i \in DOMAIN s |->
              IF IsNoise(s[i]) THEN Noise ELSE [s[i] EXCEPT !.frame.fresh = FALSE]]

\* Adjacent noise is one piece of noise.
Joined(s, t) ==
  IF s # <<>> /\ t # <<>> /\ s[Len(s)] = Noise /\ Head(t) = Noise
  THEN s \o Tail(t) ELSE s \o t

PiecesOf(f) == <<[part |-> "head", frame |-> f], [part |-> "tail", frame |-> f]>>

Code == {"success", "sendFailed", "timeout", "addressMismatch",
         "errorResponse", "dataMismatch", "decodeFailed"}
Result == [code : Code \cup {"none"}, frames : Seq(Frame),
           value : 0..MaxValue]

Without(code) == [code |-> code, frames |-> <<>>, value |-> 0]
NoResult == Without("none")

(***************************************************************************)
(* FrameCodec::decode() on a receive buffer: a frame is found only at the  *)
(* very beginning and only when it is whole.                               *)
(***************************************************************************)
Decodable(b) ==
  /\ Len(b) >= 2
  /\ b[1].part = "head"
  /\ b[2].part = "tail" /\ b[2].frame = b[1].frame

\* trim_to_next_frame_start(): once the buffer has outgrown its limit, which
\* takes noise, it is cut at the next 0x68 after its first byte.  A head holds
\* two of them, so what is left of a head in first place is no frame any more.
Oversized(b) == \E i \in DOMAIN b : IsNoise(b[i])
NextStart(b) == {i \in 2..Len(b) : b[i].part = "head"}
Trimmed(b) ==
  IF b[1].part = "head" THEN Joined(<<Noise>>, Tail(b))
  ELSE IF NextStart(b) = {} THEN <<>>
  ELSE SubSeq(b, CHOOSE i \in NextStart(b) : \A j \in NextStart(b) : i <= j, Len(b))

\* validate_response() and the length check of read_data(), in their order.
Verdict(f, request) ==
  IF f.meter # request.meter THEN "addressMismatch"
  ELSE IF f.kind = "error" THEN "errorResponse"
  ELSE IF f.kind = "tiny" \/ f.item # request.item THEN "dataMismatch"
  ELSE IF Len(f.value) < Length[request.item] THEN "decodeFailed"
  ELSE "success"

\* The bytes of the item; what follows them in the frame is not looked at.
ValueBytes(f, item) == SubSeq(f.value, 1, Length[item])

\* What read_data() makes of a frame.
ResultOf(f, request) ==
  LET code == Verdict(f, request) IN
  [code |-> code, frames |-> <<f>>,
   value |-> IF code = "success" THEN decode_value(ValueBytes(f, request.item)) ELSE 0]

Init ==
  /\ pc = "idle"
  /\ step = Len(Plan)
  /\ buf = <<>>
  /\ kernel = <<>>
  /\ wire = <<>>
  /\ last = NoResult
  /\ quiet = TRUE

NextStep == (step % Len(Plan)) + 1

\* Mutant of NewRequest: the receive buffer is not cleared.
NewRequestKeepsBuffer ==
  /\ pc = "idle"
  /\ step' = NextStep
  /\ buf' = Aged(buf)
  /\ kernel' = Aged(kernel)
  /\ quiet' = ~Carries(kernel \o wire)

\* send_frame() empties the receive buffer; the kernel's queue stays.
NewRequest ==
  /\ pc = "idle"
  /\ step' = NextStep
  /\ buf' = <<>>
  /\ kernel' = Aged(kernel)
  /\ quiet' = ~Carries(kernel \o wire)

\* read_data() writes the request: the meter answers, or does not hear it.
Send ==
  /\ NewRequest
  /\ \/ \E a \in Answers :
          /\ Len(kernel \o wire) + 2 <= MaxPieces
          /\ wire' = Aged(wire) \o PiecesOf(AnswerTo(Plan[NextStep], a, TRUE))
     \/ /\ "silence" \in Faults \/ Len(kernel \o wire) + 2 > MaxPieces
        /\ wire' = Aged(wire)
  /\ pc' = "receive"
  /\ last' = NoResult

\* SerialPort::send() fails: the read returns at once.
SendFails ==
  /\ "writeError" \in Faults
  /\ NewRequest
  /\ wire' = Aged(wire)
  /\ last' = Without("sendFailed")
  /\ UNCHANGED pc

\* One turn of the loop of receive_frame() that finds bytes to read.
Receive ==
  LET b == Joined(buf, kernel) IN
  /\ pc = "receive"
  /\ kernel # <<>>
  /\ kernel' = <<>>
  /\ \/ /\ Decodable(b)
        /\ buf' = SubSeq(b, 3, Len(b))
        /\ last' = ResultOf(b[1].frame, Plan[step])
        /\ pc' = "idle"
     \/ /\ ~Decodable(b)
        /\ buf' = b \/ (Oversized(b) /\ buf' = Trimmed(b))
        /\ UNCHANGED <<last, pc>>
  /\ UNCHANGED <<step, wire, quiet>>

\* Mutant of Timeout: each chunk restarts the deadline.
TimeoutWhenSilent ==
  /\ pc = "receive"
  /\ kernel = <<>>
  /\ pc' = "idle"
  /\ last' = Without("timeout")
  /\ UNCHANGED <<step, buf, kernel, wire, quiet>>

\* Mutant of Timeout: what has been received is returned.
TimeoutWithBuffer ==
  /\ pc = "receive"
  /\ pc' = "idle"
  /\ last' = [Without("timeout") EXCEPT !.frames = buf]
  /\ UNCHANGED <<step, buf, kernel, wire, quiet>>

\* The deadline passes, whatever has been received by then.
Timeout ==
  /\ pc = "receive"
  /\ pc' = "idle"
  /\ last' = Without("timeout")
  /\ UNCHANGED <<step, buf, kernel, wire, quiet>>

(***************************************************************************)
(* The line: bytes arrive in order, may be garbled, and may be noise.      *)
(***************************************************************************)
Arrive ==
  /\ wire # <<>>
  /\ wire' = Tail(wire)
  /\ kernel' = Append(kernel, Head(wire))
  /\ UNCHANGED <<pc, step, buf, last, quiet>>

Garble ==
  /\ "noise" \in Faults
  /\ wire # <<>>
  /\ wire' = Tail(wire)
  /\ kernel' = Joined(kernel, <<Noise>>)
  /\ UNCHANGED <<pc, step, buf, last, quiet>>

NoiseBurst ==
  /\ "noise" \in Faults
  /\ Len(kernel \o wire) < MaxPieces
  /\ kernel' = Joined(kernel, <<Noise>>)
  /\ UNCHANGED <<pc, step, buf, wire, last, quiet>>

\* Bound: one foreign frame at a time between the bus and the buffer.
IsForeign(p) == ~IsNoise(p) /\ p.frame.meter = Other
Crosstalk ==
  /\ "crosstalk" \in Faults
  /\ ~\E i \in DOMAIN (buf \o kernel \o wire) : IsForeign((buf \o kernel \o wire)[i])
  /\ Len(kernel \o wire) + 2 <= MaxPieces
  /\ wire' = wire \o PiecesOf(ForeignFrame)
  /\ UNCHANGED <<pc, step, buf, kernel, last, quiet>>

Next ==
  \/ Send \/ SendFails \/ Receive \/ Timeout
  \/ Arrive \/ Garble \/ NoiseBurst \/ Crosstalk

\* The thread runs, deadlines pass, and a byte on the line arrives.
Fairness ==
  /\ WF_vars(Send \/ SendFails)
  /\ WF_vars(Receive)
  /\ WF_vars(Timeout)
  /\ WF_vars(Arrive)

Spec == Init /\ [][Next]_vars /\ Fairness
-----------------------------------------------------------------------------
(***************************************************************************)
(* Properties.                                                             *)
(***************************************************************************)
\* The type of the state.
TypeOK ==
  /\ pc \in {"idle", "receive"}
  /\ step \in Steps
  /\ buf \in Seq(Piece)
  /\ kernel \in Seq(Piece)
  /\ wire \in Seq(Piece)
  /\ Len(kernel \o wire) <= MaxPieces
  /\ last \in Result /\ Len(last.frames) <= 1
  /\ quiet \in BOOLEAN

\* A read whose request went out while no earlier answer was under way is
\* exact, whatever noise there is and whatever earlier reads left in the
\* buffer: the only answer it looks at is the one to this very request, so it
\* calls an answer a mismatch only if it is too small to name its item.
QuietStartIsExact ==
  quiet /\ last.frames # <<>> =>
    LET f == last.frames[1] IN
      \/ f.meter = Other
      \/ /\ f.fresh
         /\ last.code # "addressMismatch"
         /\ last.code = "dataMismatch" => f.kind = "tiny"

\* The number a read returns is one the meter asked sent for the item asked for,
\* in answer to this request if the read started as above, to an earlier one at
\* worst: its bytes, the least significant first, without what follows them, if
\* they are decimal digits and the number fits.  Bytes that are not decimal
\* digits are passed on as the number 0, not refused.
ReadingIsExact ==
  last.code = "success" =>
    LET raw == ValueBytes(last.frames[1], Plan[step].item)
        sent == Number(Reversed(raw))
    IN  /\ last.frames[1].meter = Plan[step].meter
        /\ last.frames[1].item = Plan[step].item
        /\ quiet => last.frames[1].fresh
        /\ AllBcd(raw) /\ sent <= MaxValue => last.value = sent
        /\ ~AllBcd(raw) => last.value = 0

\* Every read returns, under any noise: the deadline is absolute.
ReadReturns == pc = "receive" ~> pc = "idle"

\* The comparison of the DI is there to keep left-over frames from being
\* used: the value returned answers the request just made.
ResidualFrameNeverUsed ==
  last.code = "success" => last.frames[1].fresh

\* The read ended at its deadline and its answer is still under way.
Late == last.code = "timeout" /\ Carries(kernel \o wire)

\* A slow meter is read all the same: once deadlines no longer cut answers
\* off, reads succeed again.
SlowMeterIsRead == <>[]~Late => []<>(last.code = "success")
=============================================================================
