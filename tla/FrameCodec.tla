----------------------------- MODULE FrameCodec -----------------------------
(***************************************************************************)
(* DL/T 645 frames as bytes: FrameCodec and the data mask of BcdCodec      *)
(* (src/src/protocol).  On the line a frame is                             *)
(*    FE ...  68  address(6)  68  control  length  data(length)  cs  16    *)
(* with every data byte shifted by 0x33 and cs the sum, modulo 256, of all *)
(* the bytes from the first 68 up to cs.                                   *)
(***************************************************************************)
EXTENDS Integers, Sequences

Byte == 0..255

PREAMBLE    == 254    \* 0xFE
FRAME_START == 104    \* 0x68
FRAME_END   == 22     \* 0x16
DATA_MASK   == 51     \* 0x33

Address == [1..6 -> Byte]
Frame   == [address : Address, control : Byte, data : Seq(Byte)]

\* Mutant of add33: the sum is not taken modulo 256.
add33Wide(s) == [i \in DOMAIN s |-> s[i] + DATA_MASK]

add33(s) == [i \in DOMAIN s |-> (s[i] + DATA_MASK) % 256]
sub33(s) == [i \in DOMAIN s |-> (s[i] - DATA_MASK) % 256]

calc_checksum(s) ==
  LET sum[i \in 0..Len(s)] == IF i = 0 THEN 0 ELSE (sum[i - 1] + s[i]) % 256
  IN sum[Len(s)]

\* What the checksum covers.
Body(f) ==
  <<FRAME_START>> \o f.address \o <<FRAME_START, f.control, Len(f.data) % 256>>
    \o add33(f.data)

Bare(f) == Body(f) \o <<calc_checksum(Body(f)), FRAME_END>>

Preambles(n) == [i \in 1..n |-> PREAMBLE]

encode(f) == Preambles(4) \o Bare(f)

\* How many preambles a buffer starts with.
LeadingPreambles(b) ==
  CHOOSE n \in 0..Len(b) :
    /\ \A i \in 1..n : b[i] = PREAMBLE
    /\ n < Len(b) => b[n + 1] # PREAMBLE

\* Mutant of Framed: the checksum is not compared.
FramedUnchecked(b, p) ==
  LET n == b[p + 10] IN
  /\ b[p + 1] = FRAME_START
  /\ b[p + 8] = FRAME_START
  /\ p + 12 + n <= Len(b)
  /\ b[p + 12 + n] = FRAME_END

Framed(b, p) ==
  LET n == b[p + 10] IN
  /\ b[p + 1] = FRAME_START
  /\ b[p + 8] = FRAME_START
  /\ p + 12 + n <= Len(b)
  /\ b[p + 11 + n] = calc_checksum(SubSeq(b, p + 1, p + 10 + n))
  /\ b[p + 12 + n] = FRAME_END

FrameAt(b, p) ==
  [address |-> SubSeq(b, p + 2, p + 7),
   control |-> b[p + 9],
   data    |-> sub33(SubSeq(b, p + 11, p + 10 + b[p + 10]))]

\* decode() returns no value, or a frame with the number of bytes it took.
decode(b) ==
  LET p == LeadingPreambles(b) IN
  IF p + 12 <= Len(b) /\ Framed(b, p)
  THEN <<[frame |-> FrameAt(b, p), bytes_consumed |-> p + 12 + b[p + 10]]>>
  ELSE <<>>
=============================================================================
