-------------------------- MODULE FrameTransceiver --------------------------
(***************************************************************************)
(* FrameTransceiver, byte by byte: send_frame() and receive_frame()        *)
(* (src/src/transport/frame_transceiver.cpp) over a serial line whose      *)
(* bytes arrive at any moment, so that read() returns them in any chunks.  *)
(* Bytes on the line may be lost, altered or noise.  MeterReader is the    *)
(* same code, coarser here and with the meaning of the frames there.       *)
(***************************************************************************)
EXTENDS FrameCodec

CONSTANTS Sendable,     \* frames the devices of the bus send
          Wakeups,      \* how many preambles they send before a frame
          Strays,       \* values of the bytes that come in by noise
          ReadChunk,    \* kReadChunkSize
          MaxBuffer,    \* kMaxRecvBufferSize
          MaxReads,     \* bound: reads
          MaxSent,      \* bound: frames sent by the devices
          MaxFaults     \* bound: bytes lost, altered or added by noise

ASSUME DataAssumption ==
  /\ Sendable \subseteq Frame
  /\ \A f \in Sendable : Len(f.data) <= 255     \* the length field is one byte
  /\ Wakeups \subseteq Nat
  /\ Strays \subseteq Byte
ASSUME RoomAssumption ==
  \* kMaxRecvBufferSize is 1024, the longest frame has 267 bytes
  \A f \in Sendable, n \in Wakeups : n + 12 + Len(f.data) <= MaxBuffer
ASSUME ChunkAssumption  == ReadChunk \in Nat \ {0}
ASSUME BufferAssumption == MaxBuffer \in Nat
ASSUME BoundsAssumption == MaxReads \in Nat /\ MaxSent \in Nat /\ MaxFaults \in Nat

VARIABLES
  pc,       \* "idle", or "receive": in receive_frame()
  reads,    \* how many times send_frame() was called
  buf,      \* recv_buffer_
  kernel,   \* bytes the tty has received and nobody has read
  wire,     \* bytes on their way to us
  got,      \* what receive_frame() returned last: no value or a frame
  taken,    \* ghost: the bytes read since the last send_frame()
  sent,     \* ghost: the frames sent by devices, in order
  faults,   \* ghost: how many bytes were lost, altered or added
  mark,     \* ghost: how many frames were sent before the last send_frame(), if
            \* no byte was on its way then and every one came through since
  origin    \* ghost: that number and the bytes the devices have sent since, if no
            \* byte was on its way then and none was lost or added since

line == <<wire, sent, faults>>
vars == <<pc, reads, buf, kernel, wire, got, taken, sent, faults, mark, origin>>

Init ==
  /\ pc = "idle"
  /\ reads = 0
  /\ buf = <<>> /\ kernel = <<>> /\ wire = <<>>
  /\ got = <<>>
  /\ taken = <<>>
  /\ sent = <<>>
  /\ faults = 0
  /\ mark = <<>> /\ origin = <<>>

Smaller(m, n) == IF m <= n THEN m ELSE n

Quiet == kernel = <<>> /\ wire = <<>>

\* A request goes out and an answer is awaited, with b in the buffer.
Request(b) ==
  /\ pc = "idle"
  /\ reads < MaxReads
  /\ pc' = "receive"
  /\ reads' = reads + 1
  /\ buf' = b
  /\ got' = <<>>
  /\ taken' = <<>>
  /\ mark' = IF Quiet THEN <<Len(sent)>> ELSE <<>>
  /\ origin' = IF Quiet THEN <<[first |-> Len(sent), bytes |-> <<>>]>> ELSE <<>>
  /\ UNCHANGED <<kernel, line>>

\* Mutant of SendFrame: recv_buffer_ is not cleared.
SendFrameStale == Request(buf)

\* send_frame(): the write of the request is MeterReader's Send.
SendFrame == Request(<<>>)

\* Where trim_to_next_frame_start() can cut, the first byte never being one.
NextStart(b) == {i \in 2..Len(b) : b[i] = FRAME_START}
Trimmed(b) ==
  IF Len(b) <= 1 THEN b
  ELSE IF NextStart(b) = {} THEN <<>>
  ELSE SubSeq(b, CHOOSE i \in NextStart(b) : \A j \in NextStart(b) : i <= j, Len(b))

\* Mutant of Kept: the buffer is trimmed whenever it holds no whole frame.
KeptTrimmed(b) == Trimmed(b)

Kept(b) == IF Len(b) > MaxBuffer THEN Trimmed(b) ELSE b

\* Mutant of Rest: the bytes consumed are counted from the first 68.
RestMiscounted(b) ==
  SubSeq(b, decode(b)[1].bytes_consumed - LeadingPreambles(b) + 1, Len(b))

\* The bytes behind the frame a buffer starts with.
Rest(b) == SubSeq(b, decode(b)[1].bytes_consumed + 1, Len(b))

\* One turn of the loop of receive_frame() that finds bytes to read.
Receive ==
  /\ pc = "receive"
  /\ kernel # <<>>
  /\ LET n == Smaller(Len(kernel), ReadChunk)
         b == buf \o SubSeq(kernel, 1, n)
     IN /\ kernel' = SubSeq(kernel, n + 1, Len(kernel))
        /\ taken' = taken \o SubSeq(kernel, 1, n)
        /\ \/ /\ decode(b) # <<>>
              /\ buf' = Rest(b)
              /\ got' = <<decode(b)[1].frame>>
              /\ pc' = "idle"
           \/ /\ decode(b) = <<>>
              /\ buf' = Kept(b)
              /\ UNCHANGED <<pc, got>>
  /\ UNCHANGED <<reads, line, mark, origin>>

\* The deadline passes; what was received stays in the buffer.
Timeout ==
  /\ pc = "receive"
  /\ pc' = "idle"
  /\ UNCHANGED <<reads, buf, kernel, got, taken, line, mark, origin>>

(***************************************************************************)
(* The line.                                                               *)
(***************************************************************************)
DeviceSends ==
  /\ Len(sent) < MaxSent
  /\ \E f \in Sendable, n \in Wakeups :
       /\ wire' = wire \o Preambles(n) \o Bare(f)
       /\ sent' = Append(sent, f)
       /\ origin' = [i \in DOMAIN origin |->
                       [origin[i] EXCEPT !.bytes = @ \o Preambles(n) \o Bare(f)]]
  /\ UNCHANGED <<pc, reads, buf, kernel, got, taken, faults, mark>>

Arrive ==
  /\ wire # <<>>
  /\ wire' = Tail(wire)
  /\ kernel' = Append(kernel, Head(wire))
  /\ UNCHANGED <<pc, reads, buf, got, taken, sent, faults, mark, origin>>

\* A byte is lost, altered, or added by noise.
Disturb ==
  /\ faults < MaxFaults
  /\ faults' = faults + 1
  /\ mark' = <<>>
  /\ \/ /\ wire # <<>>
        /\ wire' = Tail(wire)
        /\ origin' = <<>>
        /\ UNCHANGED kernel
     \/ /\ wire # <<>>
        /\ wire' = Tail(wire)
        /\ \E b \in Strays \ {Head(wire)} : kernel' = Append(kernel, b)
        /\ UNCHANGED origin
     \/ /\ \E b \in Strays : kernel' = Append(kernel, b)
        /\ origin' = <<>>
        /\ UNCHANGED wire
  /\ UNCHANGED <<pc, reads, buf, got, taken, sent>>

\* The last read is over.
Finished == pc = "idle" /\ reads = MaxReads /\ UNCHANGED vars

Next ==
  \/ SendFrame \/ Receive \/ Timeout
  \/ DeviceSends \/ Arrive \/ Disturb
  \/ Finished

Spec == Init /\ [][Next]_vars
-----------------------------------------------------------------------------
(***************************************************************************)
(* Properties.                                                             *)
(***************************************************************************)
\* The type of the state.
TypeOK ==
  /\ pc \in {"idle", "receive"}
  /\ reads \in 0..MaxReads
  /\ buf \in Seq(Byte) /\ kernel \in Seq(Byte)
  /\ wire \in Seq(Byte) /\ taken \in Seq(Byte)
  /\ got \in Seq(Frame) /\ Len(got) <= 1
  /\ sent \in Seq(Frame)
  /\ faults \in 0..MaxFaults
  /\ mark \in Seq(Nat) /\ Len(mark) <= 1
  /\ origin \in Seq([first : Nat, bytes : Seq(Byte)]) /\ Len(origin) <= 1

\* Byte k of a frame behind p preambles can turn into x and the frame still
\* begin and end where it did: k is not the length, which says where checksum and
\* end are, and neither a preamble turns into a start nor the start into a
\* preamble, which would put the beginning of the frame elsewhere.
FrameStays(p, k, x) ==
  /\ k # p + 10
  /\ k <= p => x # FRAME_START
  /\ k = p + 1 => x # PREAMBLE

\* One wrong byte is not taken for data, unless it moves an end of the frame: if
\* no byte was on its way when the request was sent, and what was read since is
\* what the devices have sent but for the value of one byte, then a frame
\* returned is the first one as it was sent.  A wrong length can make a frame of
\* other data: checksum and end are then looked for among the data.
WrongByteNeverData ==
  got # <<>> /\ Len(taken) <= MaxBuffer =>
    \A o \in DOMAIN origin, k \in DOMAIN taken :
      /\ \A i \in DOMAIN taken \ {k} : taken[i] = origin[o].bytes[i]
      /\ FrameStays(LeadingPreambles(origin[o].bytes), k, taken[k])
      => got[1] = sent[origin[o].first + 1]

\* receive_frame() does not wait for a frame it has: whatever the chunks the
\* bytes came in, it goes on or gives up only when no beginning of what it has
\* read, up to kMaxRecvBufferSize bytes, is a frame.
WholeFrameReturned ==
  got = <<>> =>
    \A k \in 0..Smaller(Len(taken), MaxBuffer) : decode(SubSeq(taken, 1, k)) = <<>>

\* What leaves the buffer with a frame is that frame and its preambles, so that
\* what comes next can be decoded: the buffer keeps an end of what was read, and
\* the frame is what stood before it, behind what trimming threw away, which is
\* nothing up to kMaxRecvBufferSize bytes.
ExactlyOneFrameConsumed ==
  got # <<>> =>
    LET n == Len(taken) - Len(buf) IN
      /\ n >= 0
      /\ buf = SubSeq(taken, n + 1, Len(taken))
      /\ \E m \in 0..n :
           /\ decode(SubSeq(taken, m + 1, n)) =
                <<[frame |-> got[1], bytes_consumed |-> n - m]>>
           /\ Len(taken) <= MaxBuffer => m = 0

\* The first frame sent on a quiet line is the one receive_frame() returns, and
\* not an earlier answer or a piece of one: if no byte was on its way when the
\* request was sent, and every byte since came through as it was sent, then a
\* frame returned is the first one sent since, and it is returned once every
\* byte was read, whatever the preambles, the chunks and the frames behind it.
FirstFrameReturned ==
  \A i \in DOMAIN mark :
    /\ got # <<>> => Len(sent) > mark[i] /\ got[1] = sent[mark[i] + 1]
    /\ Len(sent) > mark[i] /\ Quiet => got # <<>>

\* receive_frame() finds the boundary of a frame: it does not give up with a
\* whole frame in its buffer.
FrameBoundaryFound ==
  pc = "idle" /\ reads > 0 /\ got = <<>> =>
    \A k \in DOMAIN buf : decode(SubSeq(buf, k, Len(buf))) = <<>>
=============================================================================
