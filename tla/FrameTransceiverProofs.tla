----------------------- MODULE FrameTransceiverProofs -----------------------
(***************************************************************************)
(* Proofs about FrameTransceiver, for every set of frames, every chunk     *)
(* size and every buffer limit.                                            *)
(***************************************************************************)
EXTENDS FrameTransceiver, FrameCodecProofs

(***************************************************************************)
(* What the steps do to byte sequences.                                    *)
(***************************************************************************)
LEMMA TrimmedType ==
  ASSUME NEW b \in Seq(Byte)
  PROVE  Trimmed(b) \in Seq(Byte)
<1>1. CASE Len(b) <= 1 \/ NextStart(b) = {}
  BY <1>1 DEF Trimmed
<1>2. CASE ~(Len(b) <= 1) /\ NextStart(b) # {}
  <2>1. NextStart(b) \subseteq Nat /\ NextStart(b) \subseteq 2..Len(b)
    BY DEF NextStart
  <2>2. PICK i \in NextStart(b) : \A j \in NextStart(b) : i <= j
    BY <1>2, <2>1, LeastNumber
  <2> DEFINE c == CHOOSE x \in NextStart(b) : \A j \in NextStart(b) : x <= j
  <2>3. c \in 2..Len(b)
    BY <2>1, <2>2
  <2>4. Trimmed(b) = SubSeq(b, c, Len(b))
    BY <1>2 DEF Trimmed
  <2> HIDE DEF c
  <2> QED BY <2>3, <2>4
<1> QED BY <1>1, <1>2

\* The chunk one turn of the loop of receive_frame() reads.
ChunkLen == Smaller(Len(kernel), ReadChunk)
Chunk    == SubSeq(kernel, 1, ChunkLen)

LEMMA ChunkType ==
  ASSUME kernel \in Seq(Byte), buf \in Seq(Byte), taken \in Seq(Byte)
  PROVE  /\ ChunkLen \in 0..Len(kernel)
         /\ Chunk \in Seq(Byte)
         /\ SubSeq(kernel, ChunkLen + 1, Len(kernel)) \in Seq(Byte)
         /\ buf \o Chunk \in Seq(Byte)
         /\ taken \o Chunk \in Seq(Byte)
         /\ Len(taken \o Chunk) = Len(taken) + Len(Chunk)
         /\ Len(taken) \in Nat /\ Len(Chunk) \in Nat
<1>1. ChunkLen \in 0..Len(kernel)
  BY ChunkAssumption DEF ChunkLen, Smaller
<1>2. Chunk \in Seq(Byte) /\ SubSeq(kernel, ChunkLen + 1, Len(kernel)) \in Seq(Byte)
  BY <1>1 DEF Chunk
<1> QED BY <1>1, <1>2

\* The two outcomes of Receive.
Decoded(b) ==
  /\ decode(b) # <<>>
  /\ buf' = Rest(b)
  /\ got' = <<decode(b)[1].frame>>
  /\ pc' = "idle"

Waiting(b) ==
  /\ decode(b) = <<>>
  /\ buf' = Kept(b)
  /\ UNCHANGED <<pc, got>>

LEMMA ReceiveCases ==
  ASSUME Receive
  PROVE  /\ pc = "receive"
         /\ kernel' = SubSeq(kernel, ChunkLen + 1, Len(kernel))
         /\ taken' = taken \o Chunk
         /\ UNCHANGED <<reads, wire, sent, faults, mark, origin>>
         /\ Decoded(buf \o Chunk) \/ Waiting(buf \o Chunk)
BY DEF Receive, line, Decoded, Waiting, Chunk, ChunkLen

LEMMA BareType ==
  ASSUME NEW f \in Sendable, NEW n \in Wakeups
  PROVE  Preambles(n) \in Seq(Byte) /\ Bare(f) \in Seq(Byte)
<1>1. f \in Frame /\ Len(f.data) <= 255 /\ n \in Nat
  BY DataAssumption
<1>2. Preambles(n) \in Bytes(n)
  BY <1>1, PreambleBytes
<1> DEFINE k == 12 + Len(f.data)
<1>3. k \in Nat /\ Bare(f) \in Bytes(k)
  <2> DEFINE l == Len(f.data)
  <2>1. l \in Nat /\ Bare(f) \in Bytes(12 + l)
    BY <1>1, BareBytes
  <2> HIDE DEF l
  <2>2. 12 + l \in Nat
    BY <2>1
  <2> QED BY <2>1, <2>2 DEF l
<1> HIDE DEF k
<1> QED BY <1>1, <1>2, <1>3, BytesSeq

(***************************************************************************)
(* Type correctness.                                                       *)
(***************************************************************************)
\* What a read begun on a quiet line is compared with, and what a frame adds.
Origin == [first : Nat, bytes : Seq(Byte)]

Longer(z) == [i \in DOMAIN origin |-> [origin[i] EXCEPT !.bytes = @ \o z]]

LEMMA OriginRecord ==
  ASSUME NEW o \in Origin, NEW z \in Seq(Byte)
  PROVE  /\ [o EXCEPT !.bytes = @ \o z] = [first |-> o.first, bytes |-> o.bytes \o z]
         /\ [o EXCEPT !.bytes = @ \o z] \in Origin
<1>1. o.bytes \o z \in Seq(Byte) /\ o.first \in Nat
  BY DEF Origin
<1> DEFINE c == o.bytes \o z
<1> HIDE DEF c
<1>3. [o EXCEPT !.bytes = c] = [first |-> o.first, bytes |-> c]
  <2>1. o = [first |-> o.first, bytes |-> o.bytes]
    BY DEF Origin
  <2> QED BY <2>1
<1>2. [o EXCEPT !.bytes = @ \o z] = [first |-> o.first, bytes |-> o.bytes \o z]
  BY <1>3 DEF c
<1> QED BY <1>1, <1>2 DEF Origin

LEMMA OriginType ==
  ASSUME TypeOK
  PROVE  /\ origin \in Seq(Origin) /\ Len(origin) <= 1
         /\ DOMAIN origin = 1..Len(origin) /\ Len(origin) \in Nat
         /\ \A i \in DOMAIN origin : /\ origin[i] \in Origin
                                     /\ origin[i].first \in Nat
                                     /\ origin[i].bytes \in Seq(Byte)
<1>1. origin \in Seq(Origin) /\ Len(origin) <= 1
  BY DEF TypeOK, Origin
<1>2. DOMAIN origin = 1..Len(origin) /\ Len(origin) \in Nat
  BY <1>1
<1>3. \A i \in DOMAIN origin : origin[i] \in Origin
  BY <1>1
<1> QED BY <1>1, <1>2, <1>3 DEF Origin

LEMMA LongerType ==
  ASSUME TypeOK, NEW z \in Seq(Byte)
  PROVE  /\ Longer(z) \in Seq(Origin) /\ Len(Longer(z)) <= 1
         /\ DOMAIN Longer(z) = DOMAIN origin
         /\ \A i \in DOMAIN origin :
              Longer(z)[i] = [first |-> origin[i].first, bytes |-> origin[i].bytes \o z]
<1> DEFINE g == Longer(z)
           n == Len(origin)
<1>1. DOMAIN origin = 1..n /\ n \in Nat /\ n <= 1
  BY OriginType
<1>2. ASSUME NEW i \in DOMAIN origin
      PROVE  /\ g[i] = [first |-> origin[i].first, bytes |-> origin[i].bytes \o z]
             /\ g[i] \in Origin
  <2>1. origin[i] \in Origin
    BY OriginType
  <2>2. g[i] = [origin[i] EXCEPT !.bytes = @ \o z]
    BY DEF Longer
  <2> QED BY <2>1, <2>2, OriginRecord
<1>3. g = [i \in 1..n |-> g[i]] /\ DOMAIN g = DOMAIN origin
  BY <1>1 DEF Longer
<1> HIDE DEF g, n
<1>4. g \in Seq(Origin) /\ Len(g) = n
  BY <1>1, <1>2, <1>3
<1> QED BY <1>1, <1>2, <1>3, <1>4 DEF g

LEMMA OriginLonger ==
  ASSUME TypeOK, DeviceSends
  PROVE  \E f \in Sendable, n \in Wakeups :
           LET z == Preambles(n) \o Bare(f) IN
             /\ z \in Seq(Byte) /\ Len(wire') = Len(wire) + Len(z)
             /\ sent' = Append(sent, f)
             /\ origin' = Longer(z)
<1>1. PICK f \in Sendable, n \in Wakeups :
        /\ wire' = wire \o Preambles(n) \o Bare(f) /\ sent' = Append(sent, f)
        /\ origin' = [i \in DOMAIN origin |->
                       [origin[i] EXCEPT !.bytes = @ \o Preambles(n) \o Bare(f)]]
  BY DEF DeviceSends
<1> DEFINE x == Preambles(n)
           y == Bare(f)
           z == x \o y
<1>2. x \in Seq(Byte)
  BY BareType
<1>3. y \in Seq(Byte)
  BY BareType
<1>4. wire' = (wire \o x) \o y /\ wire \in Seq(Byte)
  BY <1>1 DEF TypeOK
<1>5. origin' = [i \in DOMAIN origin |-> [origin[i] EXCEPT !.bytes = (@ \o x) \o y]]
  BY <1>1
<1>6. ASSUME NEW i \in DOMAIN origin
      PROVE  (origin[i].bytes \o x) \o y = origin[i].bytes \o (x \o y)
  <2>1. origin[i].bytes \in Seq(Byte)
    BY OriginType
  <2> DEFINE h == origin[i].bytes
  <2> HIDE DEF h, x, y
  <2>2. h \in Seq(Byte)
    BY <2>1 DEF h
  <2>3. (h \o x) \o y = h \o (x \o y)
    BY <1>2, <1>3, <2>2, ConcatAssociative
  <2> QED BY <2>3 DEF h
<1> HIDE DEF x, y
<1>7. z \in Seq(Byte) /\ Len(wire') = Len(wire) + Len(z)
  BY <1>2, <1>3, <1>4
<1>8. origin' = Longer(x \o y)
  BY <1>5, <1>6 DEF Longer
<1> QED BY <1>1, <1>7, <1>8 DEF x, y

LEMMA TypeInit == Init => TypeOK
BY BoundsAssumption DEF Init, TypeOK

LEMMA TypeNext == TypeOK /\ [Next]_vars => TypeOK'
<1> SUFFICES ASSUME TypeOK, [Next]_vars PROVE TypeOK'
  OBVIOUS
<1>1. CASE SendFrame
  <2>1. Len(sent) \in Nat
    BY DEF TypeOK
  <2>2. mark' \in Seq(Nat) /\ Len(mark') <= 1
    BY <1>1, <2>1 DEF SendFrame, Request
  <2>3. origin' \in Seq(Origin) /\ Len(origin') <= 1
    <3>1. [first |-> Len(sent), bytes |-> <<>>] \in Origin
      BY <2>1 DEF Origin
    <3> QED BY <1>1, <3>1 DEF SendFrame, Request
  <2> QED BY <1>1, <2>2, <2>3, BoundsAssumption DEF SendFrame, Request, TypeOK, Origin, line
<1>2. CASE Receive
  <2> DEFINE b == buf \o Chunk
  <2>1. kernel \in Seq(Byte) /\ buf \in Seq(Byte) /\ taken \in Seq(Byte)
    BY DEF TypeOK
  <2>2. b \in Seq(Byte) /\ kernel' \in Seq(Byte) /\ taken' \in Seq(Byte)
    BY <1>2, <2>1, ReceiveCases, ChunkType
  <2>3. UNCHANGED <<reads, wire, sent, faults, mark, origin>> /\ (Decoded(b) \/ Waiting(b)) /\ pc = "receive"
    BY <1>2, ReceiveCases
  <2> HIDE DEF b
  <2>4. CASE Decoded(b)
    <3>1. decode(b)[1].bytes_consumed \in 12..Len(b) /\ decode(b)[1].frame \in Frame
      BY <2>2, <2>4, ConsumedIsThere, DecodedFrame DEF Decoded
    <3>2. buf' \in Seq(Byte)
      BY <2>2, <2>4, <3>1 DEF Decoded, Rest
    <3>3. got' \in Seq(Frame) /\ Len(got') <= 1 /\ pc' = "idle"
      BY <2>4, <3>1 DEF Decoded
    <3> QED BY <2>2, <2>3, <3>2, <3>3 DEF TypeOK
  <2>5. CASE Waiting(b)
    <3>1. buf' \in Seq(Byte)
      BY <2>2, <2>5, TrimmedType DEF Waiting, Kept
    <3> QED BY <2>2, <2>3, <2>5, <3>1 DEF TypeOK, Waiting
  <2> QED BY <2>3, <2>4, <2>5
<1>3. CASE Timeout
  BY <1>3 DEF Timeout, TypeOK, line
<1>4. CASE DeviceSends
  <2>1. PICK f \in Sendable, n \in Wakeups :
          wire' = wire \o Preambles(n) \o Bare(f) /\ sent' = Append(sent, f)
    BY <1>4 DEF DeviceSends
  <2>2. Preambles(n) \in Seq(Byte) /\ Bare(f) \in Seq(Byte) /\ f \in Frame
    BY BareType, DataAssumption
  <2>3. wire' \in Seq(Byte) /\ sent' \in Seq(Frame)
    BY <2>1, <2>2 DEF TypeOK
  <2>4. origin' \in Seq(Origin) /\ Len(origin') <= 1
    <3>1. PICK z : z \in Seq(Byte) /\ origin' = Longer(z)
      BY <1>4, OriginLonger
    <3> QED BY <3>1, LongerType
  <2> QED BY <1>4, <2>3, <2>4 DEF DeviceSends, TypeOK, Origin
<1>5. CASE Arrive
  <2>1. Head(wire) \in Byte /\ Tail(wire) \in Seq(Byte)
    BY <1>5 DEF Arrive, TypeOK
  <2>2. Append(kernel, Head(wire)) \in Seq(Byte)
    BY <2>1 DEF TypeOK
  <2> QED BY <1>5, <2>1, <2>2 DEF Arrive, TypeOK
<1>6. CASE Disturb
  <2>1. faults' \in 0..MaxFaults
    BY <1>6, BoundsAssumption DEF Disturb, TypeOK
  <2>2. wire # <<>> => Tail(wire) \in Seq(Byte)
    BY DEF TypeOK
  <2>3. ASSUME NEW b \in Strays PROVE Append(kernel, b) \in Seq(Byte)
    <3>1. b \in Byte
      BY DataAssumption
    <3> QED BY <3>1 DEF TypeOK
  <2>4. wire' \in Seq(Byte) /\ kernel' \in Seq(Byte)
    BY <1>6, <2>2, <2>3 DEF Disturb, TypeOK
  <2>5. mark' \in Seq(Nat) /\ Len(mark') <= 1
    BY <1>6 DEF Disturb
  <2>6. origin' = origin \/ origin' = <<>>
    BY <1>6 DEF Disturb
  <2>7. origin' \in Seq(Origin) /\ Len(origin') <= 1
    <3>1. CASE origin' = origin
      BY <3>1, OriginType
    <3>2. CASE origin' = <<>>
      BY <3>2
    <3> QED BY <2>6, <3>1, <3>2
  <2> QED BY <1>6, <2>1, <2>4, <2>5, <2>7 DEF Disturb, TypeOK, Origin
<1>7. CASE UNCHANGED vars
  BY <1>7 DEF vars, TypeOK
<1> QED BY <1>1, <1>2, <1>3, <1>4, <1>5, <1>6, <1>7 DEF Next, Finished

\* The state of the transceiver keeps its type: in particular every value that
\* gets onto the line is a byte, the checksum and the masked data included.
THEOREM TypeCorrect == Spec => []TypeOK
BY TypeInit, TypeNext, PTL DEF Spec

(***************************************************************************)
(* Ends of byte sequences: what is left of what was read.                  *)
(***************************************************************************)
IsEnd(s, t) == \E m \in 0..Len(t) : s = SubSeq(t, m + 1, Len(t))

LEMMA EndSelf ==
  ASSUME NEW t \in Seq(Byte)
  PROVE  IsEnd(t, t)
<1>1. t = SubSeq(t, 0 + 1, Len(t)) /\ 0 \in 0..Len(t)
  OBVIOUS
<1> QED BY <1>1 DEF IsEnd

LEMMA EndEmpty ==
  ASSUME NEW t \in Seq(Byte)
  PROVE  IsEnd(<<>>, t)
<1>1. <<>> = SubSeq(t, Len(t) + 1, Len(t)) /\ Len(t) \in 0..Len(t)
  OBVIOUS
<1> QED BY <1>1 DEF IsEnd

LEMMA EndCat ==
  ASSUME NEW s \in Seq(Byte), NEW t \in Seq(Byte), NEW c \in Seq(Byte), IsEnd(s, t)
  PROVE  IsEnd(s \o c, t \o c)
<1>1. PICK m \in 0..Len(t) : s = SubSeq(t, m + 1, Len(t))
  BY DEF IsEnd
<1> DEFINE u == t \o c
           v == s \o c
           x == SubSeq(u, m + 1, Len(u))
<1>2. /\ s \in Seq(Byte) /\ Len(s) = Len(t) - m
      /\ \A k \in 1..Len(s) : s[k] = t[m + k]
  BY <1>1
<1>3. /\ u \in Seq(Byte) /\ Len(u) = Len(t) + Len(c)
      /\ \A k \in 1..(Len(t) + Len(c)) : u[k] = IF k <= Len(t) THEN t[k] ELSE c[k - Len(t)]
  BY ConcatProperties
<1>4. /\ v \in Seq(Byte) /\ Len(v) = Len(s) + Len(c)
      /\ \A k \in 1..(Len(s) + Len(c)) : v[k] = IF k <= Len(s) THEN s[k] ELSE c[k - Len(s)]
  BY ConcatProperties
<1>5. Len(t) \in Nat /\ Len(c) \in Nat /\ m \in Nat
  OBVIOUS
<1> HIDE DEF u, v
<1>6. m \in 0..Len(u)
  BY <1>3, <1>5
<1>7. /\ x \in Seq(Byte) /\ Len(x) = Len(u) - m
      /\ \A k \in 1..Len(x) : x[k] = u[m + k]
  BY <1>3, <1>6
<1> HIDE DEF x
<1>8. Len(x) = Len(v) /\ Len(v) = (Len(t) - m) + Len(c)
  BY <1>2, <1>3, <1>4, <1>5, <1>7
<1>9. ASSUME NEW k \in 1..Len(v) PROVE x[k] = v[k]
  <2>0. ASSUME NEW lt \in Nat, NEW lc \in Nat, NEW ls, m \in 0..lt, ls = lt - m,
               k \in 1..((lt - m) + lc)
        PROVE  k \in 1..(ls + lc) /\ m + k \in 1..(lt + lc)
    BY <2>0
  <2>1. k \in 1..(Len(s) + Len(c)) /\ m + k \in 1..(Len(t) + Len(c)) /\ x[k] = u[m + k]
    <3>1. k \in 1..((Len(t) - m) + Len(c)) /\ k \in 1..Len(x)
      BY <1>8
    <3>2. k \in 1..(Len(s) + Len(c)) /\ m + k \in 1..(Len(t) + Len(c))
      BY <1>2, <1>5, <2>0, <3>1
    <3> QED BY <1>7, <3>1, <3>2
  <2>2. CASE k <= Len(s)
    <3>1. k \in 1..Len(s) /\ m + k <= Len(t)
      BY <1>2, <1>5, <2>1, <2>2
    <3>2. u[m + k] = t[m + k]
      BY <1>3, <2>1, <3>1
    <3>3. v[k] = s[k]
      BY <1>4, <2>1, <2>2
    <3> QED BY <1>2, <2>1, <3>1, <3>2, <3>3
  <2>3. CASE ~(k <= Len(s))
    <3>1. ~(m + k <= Len(t)) /\ (m + k) - Len(t) = k - Len(s)
      BY <1>2, <1>5, <2>1, <2>3
    <3>2. u[m + k] = c[(m + k) - Len(t)]
      BY <1>3, <2>1, <3>1
    <3>3. v[k] = c[k - Len(s)]
      BY <1>4, <2>1, <2>3
    <3> QED BY <2>1, <3>1, <3>2, <3>3
  <2> QED BY <2>2, <2>3
<1>10. v = x
  BY <1>4, <1>7, <1>8, <1>9, SeqEqual
<1> QED BY <1>6, <1>10 DEF IsEnd, u, v, x

LEMMA EndOfEnd ==
  ASSUME NEW s \in Seq(Byte), NEW t \in Seq(Byte), IsEnd(s, t), NEW i \in 0..Len(s)
  PROVE  IsEnd(SubSeq(s, i + 1, Len(s)), t)
<1>1. PICK m \in 0..Len(t) : s = SubSeq(t, m + 1, Len(t))
  BY DEF IsEnd
<1>2. Len(s) = Len(t) - m
  BY <1>1
<1>3. m + i \in 0..Len(t)
  BY <1>1, <1>2
<1>4. SubSeq(s, i + 1, Len(s)) = SubSeq(t, (m + i) + 1, Len(t))
  BY <1>1, <1>2
<1> QED BY <1>3, <1>4 DEF IsEnd

LEMMA KeptIsEnd ==
  ASSUME NEW b \in Seq(Byte), NEW t \in Seq(Byte), IsEnd(b, t)
  PROVE  IsEnd(Kept(b), t)
<1>1. CASE Kept(b) = b \/ Kept(b) = <<>>
  BY <1>1, EndEmpty
<1>2. CASE ~(Len(b) <= 1) /\ NextStart(b) # {} /\ Kept(b) = Trimmed(b)
  <2>1. NextStart(b) \subseteq Nat /\ NextStart(b) \subseteq 2..Len(b)
    BY DEF NextStart
  <2>2. PICK i \in NextStart(b) : \A j \in NextStart(b) : i <= j
    BY <1>2, <2>1, LeastNumber
  <2> DEFINE c == CHOOSE x \in NextStart(b) : \A j \in NextStart(b) : x <= j
  <2>3. c \in 2..Len(b)
    BY <2>1, <2>2
  <2>4. Trimmed(b) = SubSeq(b, c, Len(b))
    BY <1>2 DEF Trimmed
  <2> HIDE DEF c
  <2>5. c - 1 \in 0..Len(b) /\ (c - 1) + 1 = c
    BY <2>3
  <2>6. IsEnd(SubSeq(b, (c - 1) + 1, Len(b)), t)
    BY <2>5, EndOfEnd
  <2> QED BY <1>2, <2>4, <2>5, <2>6
<1> QED BY <1>1, <1>2 DEF Kept, Trimmed

(***************************************************************************)
(* The inductive invariant.  The buffer holds an end of what was read      *)
(* since the request was sent, and all of it until it has outgrown its     *)
(* limit.                                                                  *)
(***************************************************************************)
Untrimmed ==
  pc = "receive" => /\ got = <<>>
                    /\ IsEnd(buf, taken)
                    /\ Len(taken) <= MaxBuffer => buf = taken

\* The bytes on their way when the last request was sent and since, read or not.
Stream == (taken \o kernel) \o wire

\* The bytes b begin with the frame that comes after m others in s.
Begins(b, s, m) ==
  /\ Len(s) = m => b = <<>>
  /\ Len(s) > m =>
       /\ s[m + 1] \in Sendable
       /\ \E w \in Wakeups, r \in Seq(Byte) :
            b = (Preambles(w) \o Bare(s[m + 1])) \o r

\* The first frame sent after m others is at the beginning of the stream.
Opens(m) == Begins(Stream, sent, m)

Marked ==
  \A i \in DOMAIN mark :
    /\ mark[i] \in Nat /\ mark[i] <= Len(sent)
    /\ Opens(mark[i])
    /\ got # <<>> => Len(sent) > mark[i] /\ got[1] = sent[mark[i] + 1]

Inv == TypeOK /\ Untrimmed /\ WholeFrameReturned /\ ExactlyOneFrameConsumed /\ Marked

LEMMA EmptyHasNoFrame ==
  ASSUME NEW k \in 0..0
  PROVE  decode(SubSeq(<<>>, 1, k)) = <<>>
<1> DEFINE e == SubSeq(<<>>, 1, k)
<1>1. e \in Seq(Byte) /\ Len(e) <= 0
  OBVIOUS
<1> HIDE DEF e
<1>2. ASSUME decode(e) # <<>> PROVE FALSE
  <2>1. decode(e)[1].bytes_consumed \in 12..Len(e)
    BY <1>1, <1>2, ConsumedIsThere
  <2>2. Len(e) \in Nat
    BY <1>1
  <2> QED BY <1>1, <2>1, <2>2
<1> QED BY <1>2 DEF e

LEMMA NothingReadNoFrame ==
  \A k \in 0..Smaller(Len(<<>>), MaxBuffer) : decode(SubSeq(<<>>, 1, k)) = <<>>
<1> SUFFICES ASSUME NEW k \in 0..Smaller(Len(<<>>), MaxBuffer)
             PROVE  decode(SubSeq(<<>>, 1, k)) = <<>>
  OBVIOUS
<1>1. k \in 0..0
  BY BufferAssumption DEF Smaller
<1> QED BY <1>1, EmptyHasNoFrame

LEMMA InvInit == Init => Inv
<1> SUFFICES ASSUME Init PROVE Inv
  OBVIOUS
<1>1. TypeOK
  BY TypeInit
<1>2. Untrimmed /\ ExactlyOneFrameConsumed /\ Marked
  BY DEF Init, Untrimmed, ExactlyOneFrameConsumed, Marked
<1>3. taken = <<>>
  BY DEF Init
<1>4. WholeFrameReturned
  BY <1>3, NothingReadNoFrame DEF WholeFrameReturned
<1> QED BY <1>1, <1>2, <1>4 DEF Inv

\* No beginning of a buffer without a frame is a frame.
LEMMA NoFrameInPrefix ==
  ASSUME NEW b \in Seq(Byte), decode(b) = <<>>, NEW k \in 0..Len(b)
  PROVE  decode(SubSeq(b, 1, k)) = <<>>
BY DecodePrefix

LEMMA PrefixOfConcat ==
  ASSUME NEW s \in Seq(Byte), NEW t \in Seq(Byte), NEW k \in 0..Len(s)
  PROVE  SubSeq(s \o t, 1, k) = SubSeq(s, 1, k)
OBVIOUS

LEMMA WaitingStep ==
  ASSUME Inv, Receive, Waiting(buf \o Chunk), TypeOK'
  PROVE  Untrimmed' /\ WholeFrameReturned' /\ ExactlyOneFrameConsumed'
<1> DEFINE b == buf \o Chunk
           t == taken \o Chunk
<1>1. kernel \in Seq(Byte) /\ buf \in Seq(Byte) /\ taken \in Seq(Byte)
  BY DEF Inv, TypeOK
<1>2. /\ Chunk \in Seq(Byte) /\ b \in Seq(Byte) /\ t \in Seq(Byte)
      /\ Len(t) = Len(taken) + Len(Chunk) /\ Len(taken) \in Nat /\ Len(Chunk) \in Nat
  BY <1>1, ChunkType
<1>3. pc = "receive" /\ taken' = t
  BY ReceiveCases
<1>4. decode(b) = <<>> /\ pc' = pc /\ got' = got /\ buf' = Kept(b)
  BY DEF Waiting
<1>5. got = <<>> /\ IsEnd(buf, taken) /\ (Len(taken) <= MaxBuffer => b = t)
  BY <1>3 DEF Inv, Untrimmed
<1>6. \A k \in 0..Smaller(Len(taken), MaxBuffer) : decode(SubSeq(taken, 1, k)) = <<>>
  BY <1>5 DEF Inv, WholeFrameReturned
<1>7. ASSUME NEW k \in 0..Smaller(Len(t), MaxBuffer) PROVE decode(SubSeq(t, 1, k)) = <<>>
  <2>1. k \in 0..Len(t) /\ k <= MaxBuffer
    BY <1>2, BufferAssumption DEF Smaller
  <2>2. CASE Len(taken) <= MaxBuffer
    <3>1. t \in Seq(Byte) /\ decode(t) = <<>>
      BY <1>2, <1>4, <1>5, <2>2
    <3> HIDE DEF t
    <3> QED BY <2>1, <3>1, NoFrameInPrefix
  <2>3. CASE Len(taken) > MaxBuffer
    <3>1. k \in 0..Len(taken) /\ k \in 0..Smaller(Len(taken), MaxBuffer)
      BY <1>2, <2>1, <2>3, BufferAssumption DEF Smaller
    <3>2. SubSeq(t, 1, k) = SubSeq(taken, 1, k)
      BY <1>1, <1>2, <3>1, PrefixOfConcat
    <3> QED BY <1>6, <3>1, <3>2
  <2> QED BY <1>2, <2>2, <2>3, BufferAssumption
<1>8. IsEnd(b, t)
  BY <1>1, <1>2, <1>5, EndCat
<1> HIDE DEF b, t
<1>9. Len(t) <= MaxBuffer => buf' = t
  <2> SUFFICES ASSUME Len(t) <= MaxBuffer PROVE buf' = t
    OBVIOUS
  <2>1. Len(taken) <= MaxBuffer
    BY <1>2, BufferAssumption
  <2>2. b = t
    BY <1>5, <2>1
  <2>3. ~(Len(b) > MaxBuffer)
    <3>1. Len(t) \in Nat
      BY <1>2
    <3> QED BY <2>2, <3>1, BufferAssumption
  <2> QED BY <1>4, <2>2, <2>3 DEF Kept
<1>10. IsEnd(buf', t)
  BY <1>2, <1>4, <1>8, KeptIsEnd
<1> QED BY <1>3, <1>4, <1>5, <1>7, <1>9, <1>10
        DEF Untrimmed, WholeFrameReturned, ExactlyOneFrameConsumed

\* A frame taken from the beginning of an end of t, and what it leaves.
Slice(s, i, j) == SubSeq(s, i + 1, j)

LEMMA TakenOut ==
  ASSUME NEW t \in Seq(Byte), NEW m \in 0..Len(t), NEW b \in Seq(Byte),
         b = Slice(t, m, Len(t)), NEW c \in 0..Len(b)
  PROVE  /\ Len(b) = Len(t) - m
         /\ Len(t) - Len(Slice(b, c, Len(b))) = m + c
         /\ m \in 0..(m + c) /\ (m + c) - m = c /\ m + c \in Nat
         /\ Slice(b, c, Len(b)) = Slice(t, m + c, Len(t))
         /\ Slice(t, m, m + c) = Slice(b, 0, c)
<1> DEFINE r == SubSeq(b, c + 1, Len(b))
           n == Len(t) - Len(r)
<1>0. b = SubSeq(t, m + 1, Len(t))
  BY DEF Slice
<1>1. Len(b) = Len(t) - m /\ b \in Seq(Byte)
  BY <1>0
<1>2. Len(r) = Len(b) - c /\ Len(t) \in Nat
  BY <1>1
<1>3. ASSUME NEW lt \in Nat, NEW lb, NEW lr, lb = lt - m, lr = lb - c, m \in 0..lt, c \in 0..lb
      PROVE  lt - lr = m + c /\ m \in 0..(m + c) /\ m + c \in 0..lt
  BY <1>3
<1>4. n = m + c /\ m \in 0..n /\ n \in 0..Len(t)
  BY <1>1, <1>2, <1>3
<1>5. r = SubSeq(t, (m + c) + 1, Len(t))
  <2>1. r = SubSeq(SubSeq(t, m + 1, Len(t)), c + 1, Len(t) - m)
    BY <1>0, <1>1
  <2>2. c \in 0..(Len(t) - m)
    BY <1>1
  <2> QED BY <2>1, <2>2
<1>6. SubSeq(t, m + 1, m + c) = SubSeq(b, 1, c)
  <2>1. SubSeq(b, 1, c) = SubSeq(SubSeq(t, m + 1, Len(t)), 1, c)
    BY <1>0
  <2>2. c \in 0..(Len(t) - m)
    BY <1>1
  <2> QED BY <2>1, <2>2
<1>7. (m + c) - m = c /\ m + c \in Nat
  BY <1>1, <1>4
<1>8. Slice(b, c, Len(b)) = r
  BY DEF Slice
<1> HIDE DEF r
<1>9. Slice(t, m + c, Len(t)) = r
  BY <1>5 DEF Slice
<1>10. Slice(t, m, m + c) = Slice(b, 0, c)
  BY <1>6 DEF Slice
<1> QED BY <1>1, <1>4, <1>7, <1>8, <1>9, <1>10

LEMMA DecodedStep ==
  ASSUME Inv, Receive, Decoded(buf \o Chunk), TypeOK'
  PROVE  Untrimmed' /\ WholeFrameReturned' /\ ExactlyOneFrameConsumed'
<1> DEFINE b == buf \o Chunk
           t == taken \o Chunk
           c == decode(b)[1].bytes_consumed
           n == Len(t) - Len(buf')
<1>1. kernel \in Seq(Byte) /\ buf \in Seq(Byte) /\ taken \in Seq(Byte)
  BY DEF Inv, TypeOK
<1>2. /\ Chunk \in Seq(Byte) /\ b \in Seq(Byte) /\ t \in Seq(Byte)
      /\ Len(t) = Len(taken) + Len(Chunk) /\ Len(taken) \in Nat /\ Len(Chunk) \in Nat
  BY <1>1, ChunkType
<1>3. pc = "receive" /\ taken' = t
  BY ReceiveCases
<1>4. /\ decode(b) # <<>> /\ pc' = "idle"
      /\ got' = <<decode(b)[1].frame>>
      /\ buf' = SubSeq(b, c + 1, Len(b))
  BY DEF Decoded, Rest
<1>5. IsEnd(buf, taken) /\ (Len(taken) <= MaxBuffer => b = t)
  BY <1>3 DEF Inv, Untrimmed
<1>6. IsEnd(b, t)
  BY <1>1, <1>2, <1>5, EndCat
<1> HIDE DEF b, t
<1>7. c \in 12..Len(b) /\ decode(SubSeq(b, 1, c)) = decode(b)
  BY <1>2, <1>4, DecodeExact
<1>8. decode(b) = <<[frame |-> decode(b)[1].frame, bytes_consumed |-> c]>>
  BY <1>2, <1>4, DecodedFrame
<1> HIDE DEF c
<1>9. PICK m \in 0..Len(t) : b = SubSeq(t, m + 1, Len(t))
  BY <1>6 DEF IsEnd
<1>10. c \in 0..Len(b)
  BY <1>7
<1>11. /\ Len(b) = Len(t) - m
       /\ Len(t) - Len(Slice(b, c, Len(b))) = m + c
       /\ m \in 0..(m + c) /\ (m + c) - m = c /\ m + c \in Nat
       /\ Slice(b, c, Len(b)) = Slice(t, m + c, Len(t))
       /\ Slice(t, m, m + c) = Slice(b, 0, c)
  <2>1. b \in Seq(Byte)
    BY <1>2
  <2>2. t \in Seq(Byte)
    BY <1>2
  <2>3. b = Slice(t, m, Len(t))
    BY <1>9 DEF Slice
  <2> QED BY <1>10, <2>1, <2>2, <2>3, TakenOut
<1>12. n = m + c /\ n - m = c /\ n >= 0 /\ m \in 0..n
  <2>1. n = m + c
    BY <1>4, <1>11 DEF Slice
  <2> HIDE DEF n
  <2> QED BY <1>11, <2>1
<1>16. buf' = SubSeq(t, n + 1, Len(t)) /\ SubSeq(t, m + 1, n) = SubSeq(b, 1, c)
  <2>1. buf' = Slice(b, c, Len(b))
    BY <1>4 DEF Slice
  <2>2. n = m + c
    BY <1>12
  <2> HIDE DEF n
  <2>3. buf' = Slice(t, n, Len(t)) /\ Slice(t, m, n) = Slice(b, 0, c)
    BY <1>11, <2>1, <2>2
  <2>4. 0 + 1 = 1
    OBVIOUS
  <2> QED BY <2>3, <2>4 DEF Slice
<1> HIDE DEF n
<1>13. Len(t) <= MaxBuffer => m = 0
  <2> SUFFICES ASSUME Len(t) <= MaxBuffer PROVE m = 0
    OBVIOUS
  <2>1. b = t
    BY <1>2, <1>5, BufferAssumption
  <2>2. Len(t) \in Nat
    BY <1>2
  <2> QED BY <1>11, <2>1, <2>2
<1>14. decode(SubSeq(t, m + 1, n)) = <<[frame |-> got'[1], bytes_consumed |-> n - m]>>
  BY <1>4, <1>7, <1>8, <1>12, <1>16
<1>15. ExactlyOneFrameConsumed'
  BY <1>3, <1>12, <1>13, <1>14, <1>16 DEF ExactlyOneFrameConsumed, n
<1> QED BY <1>3, <1>4, <1>15 DEF Untrimmed, WholeFrameReturned

(***************************************************************************)
(* What the steps do to the bytes on their way.                            *)
(***************************************************************************)
LEMMA BytesAssociative ==
  ASSUME NEW a \in Seq(Byte), NEW b \in Seq(Byte), NEW c \in Seq(Byte)
  PROVE  (a \o b) \o c = a \o (b \o c)
BY ConcatAssociative

LEMMA CutInTwo ==
  ASSUME NEW k \in Seq(Byte), NEW n \in 0..Len(k)
  PROVE  /\ SubSeq(k, 1, n) \in Seq(Byte) /\ SubSeq(k, n + 1, Len(k)) \in Seq(Byte)
         /\ SubSeq(k, 1, n) \o SubSeq(k, n + 1, Len(k)) = k
<1> DEFINE x == SubSeq(k, 1, n)
           y == SubSeq(k, n + 1, Len(k))
           z == x \o y
<1>1. x \in Seq(Byte) /\ Len(x) = n /\ \A i \in 1..n : x[i] = k[i]
  OBVIOUS
<1>2. /\ y \in Seq(Byte) /\ Len(y) = Len(k) - n
      /\ \A i \in 1..(Len(k) - n) : y[i] = k[n + i]
  OBVIOUS
<1> HIDE DEF x, y
<1>3. /\ z \in Seq(Byte) /\ Len(z) = Len(x) + Len(y)
      /\ \A i \in 1..(Len(x) + Len(y)) : z[i] = IF i <= Len(x) THEN x[i] ELSE y[i - Len(x)]
  BY <1>1, <1>2, ConcatProperties
<1> HIDE DEF z
<1>4. Len(z) = Len(k) /\ Len(k) \in Nat
  BY <1>1, <1>2, <1>3
<1>5. ASSUME NEW i \in 1..Len(z) PROVE z[i] = k[i]
  <2>1. i \in 1..(Len(x) + Len(y))
    BY <1>3
  <2>2. CASE i <= n
    BY <1>1, <1>3, <2>1, <2>2
  <2>3. CASE ~(i <= n)
    <3>1. i - n \in 1..(Len(k) - n) /\ n + (i - n) = i
      BY <1>4, <2>3
    <3>2. z[i] = y[i - n]
      BY <1>1, <1>3, <2>1, <2>3
    <3> QED BY <1>2, <3>1, <3>2
  <2> QED BY <2>2, <2>3
<1>6. z = k
  BY <1>3, <1>4, <1>5, SeqEqual
<1> QED BY <1>1, <1>2, <1>6 DEF x, y, z

LEMMA ReadFromStream ==
  ASSUME NEW a \in Seq(Byte), NEW k \in Seq(Byte), NEW w \in Seq(Byte), NEW n \in 0..Len(k)
  PROVE  ((a \o SubSeq(k, 1, n)) \o SubSeq(k, n + 1, Len(k))) \o w = (a \o k) \o w
<1> DEFINE x == SubSeq(k, 1, n)
           y == SubSeq(k, n + 1, Len(k))
<1>1. x \in Seq(Byte) /\ y \in Seq(Byte) /\ x \o y = k
  BY CutInTwo
<1> HIDE DEF x, y
<1>2. (a \o x) \o y = a \o (x \o y)
  BY <1>1, BytesAssociative
<1> QED BY <1>1, <1>2 DEF x, y

LEMMA ArrivedFromStream ==
  ASSUME NEW a \in Seq(Byte), NEW k \in Seq(Byte), NEW w \in Seq(Byte), w # <<>>
  PROVE  (a \o Append(k, Head(w))) \o Tail(w) = (a \o k) \o w
<1> DEFINE h == <<Head(w)>>
           y == Tail(w)
<1>1. h \in Seq(Byte) /\ y \in Seq(Byte) /\ h \o y = w
  OBVIOUS
<1>0. Append(k, Head(w)) = k \o h
  OBVIOUS
<1> HIDE DEF h, y
<1> DEFINE p == a \o k
<1>2. p \in Seq(Byte)
  OBVIOUS
<1>3. a \o (k \o h) = p \o h
  BY <1>1, BytesAssociative
<1> HIDE DEF p
<1>4. (p \o h) \o y = p \o (h \o y)
  BY <1>1, <1>2, BytesAssociative, Zenon
<1> QED BY <1>0, <1>1, <1>3, <1>4 DEF y, p

LEMMA StreamType ==
  ASSUME TypeOK
  PROVE  /\ taken \in Seq(Byte) /\ kernel \in Seq(Byte) /\ wire \in Seq(Byte)
         /\ Stream \in Seq(Byte) /\ taken \o kernel \in Seq(Byte)
         /\ Len(sent) \in Nat
BY DEF TypeOK, Stream

\* The first frame of the stream, if it came through, is the one decode() finds
\* at its beginning; its bytes fit into the buffer.
LEMMA FirstOfStream ==
  ASSUME TypeOK, NEW m \in Nat, Len(sent) > m, Opens(m)
  PROVE  \E k \in 0..Len(Stream) :
           /\ k <= MaxBuffer
           /\ decode(SubSeq(Stream, 1, k)) = decode(Stream)
           /\ decode(Stream) = <<[frame |-> sent[m + 1], bytes_consumed |-> k]>>
<1> DEFINE f == sent[m + 1]
<1>1. PICK w \in Wakeups, r \in Seq(Byte) : Stream = (Preambles(w) \o Bare(f)) \o r
  BY DEF Opens, Begins
<1>2. f \in Sendable
  BY DEF Opens, Begins
<1> HIDE DEF f
<1>3. f \in Frame /\ Len(f.data) <= 255 /\ w \in Nat /\ w + 12 + Len(f.data) <= MaxBuffer
  BY <1>2, DataAssumption, RoomAssumption
<1> DEFINE k == w + 12 + Len(f.data)
<1>4. decode(Stream) = <<[frame |-> f, bytes_consumed |-> k]>>
  BY <1>1, <1>3, FrameSentIsFrameDecoded
<1>5. k <= MaxBuffer
  BY <1>3
<1> HIDE DEF k
<1>6. Stream \in Seq(Byte)
  BY StreamType
<1>7. decode(Stream) # <<>> /\ decode(Stream)[1].bytes_consumed = k
  BY <1>4
<1>8. k \in 12..Len(Stream) /\ decode(SubSeq(Stream, 1, k)) = decode(Stream)
  BY <1>6, <1>7, DecodeExact
<1>9. k \in 0..Len(Stream)
  BY <1>8
<1> QED BY <1>4, <1>5, <1>8, <1>9 DEF f

LEMMA PrefixOfStream ==
  ASSUME TypeOK, NEW k \in 0..Len(taken)
  PROVE  SubSeq(Stream, 1, k) = SubSeq(taken, 1, k)
<1> DEFINE y == kernel \o wire
<1>1. taken \in Seq(Byte) /\ y \in Seq(Byte) /\ Stream = taken \o y
  BY StreamType, BytesAssociative DEF Stream
<1> HIDE DEF y
<1> QED BY <1>1, PrefixOfConcat

\* While nothing was returned, less than the first frame of the stream was read.
LEMMA NotYetRead ==
  ASSUME TypeOK, WholeFrameReturned, got = <<>>, NEW m \in Nat, Len(sent) > m, Opens(m)
  PROVE  Len(taken) < MaxBuffer /\ taken # Stream
<1>1. PICK k \in 0..Len(Stream) :
         /\ k <= MaxBuffer
         /\ decode(SubSeq(Stream, 1, k)) = decode(Stream)
         /\ decode(Stream) = <<[frame |-> sent[m + 1], bytes_consumed |-> k]>>
  BY FirstOfStream
<1>2. decode(SubSeq(Stream, 1, k)) # <<>>
  <2>1. <<[frame |-> sent[m + 1], bytes_consumed |-> k]>> # <<>>
    OBVIOUS
  <2> QED BY <1>1, <2>1
<1>3. Len(taken) \in Nat
  BY StreamType
<1>4. ASSUME k <= Len(taken) PROVE FALSE
  <2>1. k \in 0..Len(taken) /\ k \in 0..Smaller(Len(taken), MaxBuffer)
    BY <1>1, <1>3, <1>4, BufferAssumption DEF Smaller
  <2>2. decode(SubSeq(taken, 1, k)) = <<>>
    BY <2>1 DEF WholeFrameReturned
  <2> QED BY <1>2, <2>1, <2>2, PrefixOfStream
<1>5. Len(taken) < k /\ k <= Len(Stream)
  BY <1>1, <1>3, <1>4
<1> QED BY <1>1, <1>3, <1>5, BufferAssumption

\* The frame returned is the first one of the stream.
LEMMA DecodedFirst ==
  ASSUME Inv, Receive, Decoded(buf \o Chunk), TypeOK', NEW i \in DOMAIN mark
  PROVE  Len(sent) > mark[i] /\ got'[1] = sent[mark[i] + 1]
<1> DEFINE b == buf \o Chunk
           l == Len(b)
           m == mark[i]
<1>1. kernel \in Seq(Byte) /\ buf \in Seq(Byte) /\ taken \in Seq(Byte) /\ TypeOK
  BY DEF Inv, TypeOK
<1>2. /\ Chunk \in Seq(Byte) /\ b \in Seq(Byte) /\ taken \o Chunk \in Seq(Byte)
      /\ ChunkLen \in 0..Len(kernel)
  BY <1>1, ChunkType
<1>3. pc = "receive" /\ got = <<>> /\ (Len(taken) <= MaxBuffer => buf = taken)
  BY ReceiveCases DEF Inv, Untrimmed
<1>4. decode(b) # <<>> /\ got' = <<decode(b)[1].frame>>
  BY DEF Decoded
<1>5. m \in Nat /\ m <= Len(sent) /\ Opens(m)
  BY DEF Inv, Marked
<1>6. Stream \in Seq(Byte) /\ Len(sent) \in Nat
  BY <1>1, StreamType
<1>7. Len(taken) <= MaxBuffer
  <2>1. CASE Len(sent) > m
    BY <1>1, <1>3, <1>5, <2>1, NotYetRead, StreamType, BufferAssumption DEF Inv
  <2>2. CASE Len(sent) = m
    <3>1. Stream = <<>> /\ Len(Stream) = Len(taken) + Len(kernel) + Len(wire)
      BY <1>1, <1>5, <2>2, StreamType DEF Opens, Begins, Stream
    <3> QED BY <1>1, <3>1, StreamType, BufferAssumption
  <2> QED BY <1>5, <1>6, <2>1, <2>2
<1>8. b = taken \o Chunk
  BY <1>3, <1>7
<1>9. l \in 0..Len(Stream) /\ SubSeq(Stream, 1, l) = b
  <2> DEFINE y == SubSeq(kernel, ChunkLen + 1, Len(kernel)) \o wire
             z == SubSeq(kernel, ChunkLen + 1, Len(kernel))
  <2>1. z \in Seq(Byte) /\ wire \in Seq(Byte) /\ y \in Seq(Byte) /\ y = z \o wire
    BY <1>1, ChunkType, StreamType
  <2>2. Stream = ((taken \o Chunk) \o z) \o wire
    <3>1. wire \in Seq(Byte)
      BY <1>1, StreamType
    <3>3. taken \in Seq(Byte)
      BY <1>1
    <3>4. kernel \in Seq(Byte)
      BY <1>1
    <3>5. ChunkLen \in 0..Len(kernel)
      BY <1>2
    <3>2. ((taken \o SubSeq(kernel, 1, ChunkLen)) \o SubSeq(kernel, ChunkLen + 1, Len(kernel)))
            \o wire = (taken \o kernel) \o wire
      BY <3>1, <3>3, <3>4, <3>5, ReadFromStream
    <3> QED BY <3>2 DEF Stream, Chunk
  <2> HIDE DEF b, y, z
  <2>3. Stream = b \o y
    BY <1>2, <1>8, <2>1, <2>2, BytesAssociative
  <2>4. Len(b) \in 0..Len(b) /\ Len(b) \in 0..Len(b \o y) /\ SubSeq(b, 1, Len(b)) = b
    BY <1>2, <2>1
  <2>5. SubSeq(b \o y, 1, Len(b)) = SubSeq(b, 1, Len(b))
    BY <1>2, <2>1, <2>4, PrefixOfConcat
  <2> QED BY <2>3, <2>4, <2>5
<1> HIDE DEF b, l
<1>10. decode(Stream) = decode(b)
  BY <1>4, <1>6, <1>9, DecodePrefix
<1>11. Len(sent) > m
  <2> SUFFICES ASSUME Len(sent) = m PROVE FALSE
    BY <1>5, <1>6
  <2>1. Stream = <<>>
    BY <1>5 DEF Opens, Begins
  <2>2. 0 \in 0..0 /\ SubSeq(<<>>, 1, 0) = <<>>
    OBVIOUS
  <2>3. decode(<<>>) = <<>>
    BY <2>2, EmptyHasNoFrame
  <2> QED BY <1>4, <1>10, <2>1, <2>3
<1>12. PICK k : decode(Stream) = <<[frame |-> sent[m + 1], bytes_consumed |-> k]>>
  BY <1>1, <1>5, <1>11, FirstOfStream
<1> QED BY <1>4, <1>10, <1>11, <1>12

\* A step that sends nothing, returns nothing and alters no byte.
LEMMA MarkedStays ==
  ASSUME Marked, Stream' = Stream, UNCHANGED <<sent, mark>>, got' = got
  PROVE  Marked'
<1>1. ASSUME NEW m, Opens(m) PROVE Opens(m)'
  BY <1>1 DEF Opens, Begins
<1> QED BY <1>1 DEF Marked

\* One more frame is sent: the bytes still begin with the same one, or with it.
LEMMA BeginsMore ==
  ASSUME NEW b \in Seq(Byte), NEW s \in Seq(Frame), NEW m \in Nat, m <= Len(s),
         Begins(b, s, m), NEW f \in Sendable, NEW n \in Wakeups
  PROVE  /\ Begins(b \o (Preambles(n) \o Bare(f)), Append(s, f), m)
         /\ Len(Append(s, f)) > m
         /\ Len(s) > m => Append(s, f)[m + 1] = s[m + 1]
<1> DEFINE z == Preambles(n) \o Bare(f)
           u == Append(s, f)
<1>1. z \in Seq(Byte)
  BY BareType
<1>2. /\ Len(u) = Len(s) + 1 /\ Len(s) \in Nat
      /\ \A j \in 1..Len(s) : u[j] = s[j]
      /\ u[Len(s) + 1] = f
  <2>1. f \in Frame
    BY DataAssumption
  <2> QED BY <2>1
<1> HIDE DEF u
<1>3. Len(u) > m /\ (Len(s) > m => u[m + 1] = s[m + 1])
  BY <1>2
<1>4. CASE Len(s) = m
  <2>1. b = <<>> /\ u[m + 1] = f
    BY <1>2, <1>4 DEF Begins
  <2>2. b \o z = z \o <<>>
    BY <1>1, <2>1
  <2>3. b \o z = (Preambles(n) \o Bare(u[m + 1])) \o <<>> /\ <<>> \in Seq(Byte)
    BY <2>1, <2>2
  <2>4. ~(Len(u) = m)
    BY <1>2, <1>4
  <2> HIDE DEF z
  <2> QED BY <1>3, <2>1, <2>3, <2>4 DEF Begins, u, z
<1>5. CASE Len(s) > m
  <2>1. PICK w \in Wakeups, r \in Seq(Byte) : b = (Preambles(w) \o Bare(s[m + 1])) \o r
    BY <1>5 DEF Begins
  <2>2. s[m + 1] \in Sendable /\ u[m + 1] = s[m + 1]
    BY <1>3, <1>5 DEF Begins
  <2> DEFINE h == Preambles(w) \o Bare(s[m + 1])
  <2>3. h \in Seq(Byte)
    BY <2>2, BareType
  <2> HIDE DEF h, z
  <2>4. r \o z \in Seq(Byte) /\ (h \o r) \o z = h \o (r \o z)
    BY <1>1, <2>3, BytesAssociative
  <2>5. b \o z = (Preambles(w) \o Bare(u[m + 1])) \o (r \o z)
    BY <2>1, <2>2, <2>4 DEF h
  <2>6. ~(Len(u) = m)
    BY <1>2, <1>5
  <2>7. Begins(b \o z, u, m)
    BY <2>2, <2>4, <2>5, <2>6 DEF Begins
  <2> QED BY <1>3, <2>7 DEF u, z
<1> QED BY <1>2, <1>4, <1>5

LEMMA MarkedSends ==
  ASSUME Inv, DeviceSends, TypeOK'
  PROVE  Marked'
<1>1. PICK f \in Sendable, n \in Wakeups :
        wire' = wire \o Preambles(n) \o Bare(f) /\ sent' = Append(sent, f)
  BY DEF DeviceSends
<1>2. UNCHANGED <<kernel, taken, mark, got>>
  BY DEF DeviceSends
<1>3. TypeOK /\ sent \in Seq(Frame)
  BY DEF Inv, TypeOK
<1> DEFINE x == Preambles(n)
           y == Bare(f)
           z == x \o y
<1>4. x \in Seq(Byte)
  BY BareType
<1>5. y \in Seq(Byte)
  BY BareType
<1>6. z \in Seq(Byte)
  BY <1>4, <1>5
<1>7. Stream' = Stream \o z
  <2>1. Stream' = (taken \o kernel) \o ((wire \o x) \o y)
    BY <1>1, <1>2 DEF Stream
  <2>2. wire \in Seq(Byte)
    BY <1>3, StreamType
  <2>3. taken \in Seq(Byte)
    BY <1>3, StreamType
  <2>4. kernel \in Seq(Byte)
    BY <1>3, StreamType
  <2> HIDE DEF x, y
  <2> DEFINE p == taken \o kernel
  <2>5. p \in Seq(Byte)
    BY <2>3, <2>4
  <2>6. (wire \o x) \o y = wire \o z
    BY <1>4, <1>5, <2>2, BytesAssociative
  <2> HIDE DEF p, z
  <2>7. (p \o wire) \o z = p \o (wire \o z)
    BY <1>6, <2>2, <2>5, BytesAssociative
  <2> QED BY <2>1, <2>6, <2>7 DEF Stream, p
<1>8. Stream \in Seq(Byte)
  BY <1>3, StreamType
<1> SUFFICES ASSUME NEW i \in DOMAIN mark
             PROVE  /\ mark[i] \in Nat /\ mark[i] <= Len(sent')
                    /\ Opens(mark[i])'
                    /\ got # <<>> => Len(sent') > mark[i] /\ got[1] = sent'[mark[i] + 1]
  BY <1>2 DEF Marked
<1> DEFINE m == mark[i]
<1>9. /\ m \in Nat /\ m <= Len(sent) /\ Begins(Stream, sent, m)
      /\ got # <<>> => Len(sent) > m /\ got[1] = sent[m + 1]
  BY DEF Inv, Marked, Opens
<1>10. m' = m
  BY <1>2
<1> HIDE DEF m
<1>11. /\ Begins(Stream \o z, sent', m) /\ Len(sent') > m
       /\ Len(sent) > m => sent'[m + 1] = sent[m + 1]
  BY <1>1, <1>3, <1>8, <1>9, BeginsMore
<1> HIDE DEF z
<1>12. Opens(m)'
  BY <1>7, <1>10, <1>11 DEF Opens
<1>13. m <= Len(sent')
  <2>1. Len(sent') \in Nat
    BY StreamType DEF TypeOK
  <2> QED BY <1>9, <1>11, <2>1
<1> QED BY <1>9, <1>11, <1>12, <1>13 DEF m

LEMMA MarkedNext ==
  ASSUME Inv, [Next]_vars, TypeOK'
  PROVE  Marked'
<1>1. CASE SendFrame
  <2>1. CASE mark' = <<>>
    BY <2>1 DEF Marked
  <2>2. CASE Quiet /\ mark' = <<Len(sent)>>
    <3>1. Stream' = <<>> /\ got' = <<>> /\ sent' = sent
      BY <1>1, <2>2 DEF SendFrame, Request, line, Quiet, Stream
    <3>2. Len(sent) \in Nat
      BY DEF Inv, TypeOK
    <3>3. Opens(Len(sent))'
      BY <3>1, <3>2 DEF Opens, Begins
    <3> QED BY <2>2, <3>1, <3>2, <3>3 DEF Marked
  <2> QED BY <1>1, <2>1, <2>2 DEF SendFrame, Request
<1>2. CASE Receive
  <2>1. UNCHANGED <<sent, mark>>
    BY <1>2, ReceiveCases
  <2>2. Stream' = Stream
    <3>1. wire \in Seq(Byte)
      BY StreamType DEF Inv
    <3>2. taken \in Seq(Byte)
      BY StreamType DEF Inv
    <3>3. kernel \in Seq(Byte)
      BY StreamType DEF Inv
    <3>4. ChunkLen \in 0..Len(kernel)
      BY ChunkType DEF Inv, TypeOK
    <3>5. ((taken \o SubSeq(kernel, 1, ChunkLen)) \o SubSeq(kernel, ChunkLen + 1, Len(kernel)))
            \o wire = (taken \o kernel) \o wire
      BY <3>1, <3>2, <3>3, <3>4, ReadFromStream
    <3>6. /\ taken' = taken \o Chunk /\ wire' = wire
          /\ kernel' = SubSeq(kernel, ChunkLen + 1, Len(kernel))
      BY <1>2, ReceiveCases
    <3> QED BY <3>5, <3>6 DEF Stream, Chunk
  <2>3. CASE Waiting(buf \o Chunk)
    BY <2>1, <2>2, <2>3, MarkedStays DEF Inv, Waiting
  <2>4. CASE Decoded(buf \o Chunk)
    <3>1. ASSUME NEW m, Opens(m) PROVE Opens(m)'
      BY <2>1, <2>2, <3>1 DEF Opens, Begins
    <3>2. ASSUME NEW i \in DOMAIN mark
          PROVE  Len(sent) > mark[i] /\ got'[1] = sent[mark[i] + 1]
      BY <1>2, <2>4, DecodedFirst
    <3>3. ASSUME NEW i \in DOMAIN mark
          PROVE  mark[i] \in Nat /\ mark[i] <= Len(sent) /\ Opens(mark[i])
      BY DEF Inv, Marked
    <3> QED BY <2>1, <3>1, <3>2, <3>3 DEF Marked
  <2> QED BY <1>2, <2>3, <2>4, ReceiveCases
<1>3. CASE Timeout
  BY <1>3, MarkedStays DEF Inv, Timeout, line, Stream
<1>4. CASE DeviceSends
  BY <1>4, MarkedSends
<1>5. CASE Arrive
  <2>1. wire \in Seq(Byte)
    BY StreamType DEF Inv
  <2>2. taken \in Seq(Byte)
    BY StreamType DEF Inv
  <2>3. kernel \in Seq(Byte)
    BY StreamType DEF Inv
  <2>4. wire # <<>>
    BY <1>5 DEF Arrive
  <2>5. (taken \o Append(kernel, Head(wire))) \o Tail(wire) = (taken \o kernel) \o wire
    BY <2>1, <2>2, <2>3, <2>4, ArrivedFromStream
  <2>6. Stream' = Stream
    BY <1>5, <2>5 DEF Arrive, Stream
  <2> QED BY <1>5, <2>6, MarkedStays DEF Inv, Arrive
<1>6. CASE Disturb
  BY <1>6 DEF Disturb, Marked
<1>7. CASE UNCHANGED vars
  BY <1>7, MarkedStays DEF Inv, vars, Stream
<1> QED BY <1>1, <1>2, <1>3, <1>4, <1>5, <1>6, <1>7 DEF Next, Finished

LEMMA InvNext == Inv /\ [Next]_vars => Inv'
<1> SUFFICES ASSUME Inv, [Next]_vars PROVE Inv'
  OBVIOUS
<1>1. TypeOK' /\ Marked'
  BY TypeNext, MarkedNext DEF Inv
<1>2. CASE SendFrame
  <2>1. pc' = "receive" /\ buf' = <<>> /\ got' = <<>> /\ taken' = <<>>
    BY <1>2 DEF SendFrame, Request
  <2>2. IsEnd(<<>>, <<>>)
    <3>1. <<>> \in Seq(Byte)
      OBVIOUS
    <3> QED BY <3>1, EndEmpty
  <2>3. Untrimmed' /\ ExactlyOneFrameConsumed'
    BY <2>1, <2>2 DEF Untrimmed, ExactlyOneFrameConsumed
  <2>4. WholeFrameReturned'
    BY <2>1, NothingReadNoFrame DEF WholeFrameReturned
  <2> QED BY <1>1, <2>3, <2>4 DEF Inv
<1>3. CASE Receive
  BY <1>1, <1>3, ReceiveCases, DecodedStep, WaitingStep DEF Inv
<1>4. CASE Timeout
  <2>1. pc' = "idle" /\ UNCHANGED <<buf, got, taken>> /\ got = <<>>
    BY <1>4 DEF Timeout, Inv, Untrimmed
  <2>2. Untrimmed' /\ ExactlyOneFrameConsumed'
    BY <2>1 DEF Untrimmed, ExactlyOneFrameConsumed
  <2>3. WholeFrameReturned'
    BY <2>1 DEF Inv, WholeFrameReturned
  <2> QED BY <1>1, <2>2, <2>3 DEF Inv
<1>5. CASE DeviceSends \/ Arrive \/ Disturb \/ UNCHANGED vars
  <2>1. UNCHANGED <<pc, buf, got, taken>>
    BY <1>5 DEF DeviceSends, Arrive, Disturb, vars
  <2>2. Untrimmed' /\ WholeFrameReturned' /\ ExactlyOneFrameConsumed'
    BY <2>1 DEF Inv, Untrimmed, WholeFrameReturned, ExactlyOneFrameConsumed
  <2> QED BY <1>1, <2>2 DEF Inv
<1> QED BY <1>2, <1>3, <1>4, <1>5 DEF Next, Finished

LEMMA InvAlways == Spec => []Inv
BY InvInit, InvNext, PTL DEF Spec

\* However the bytes of a frame are cut into chunks, receive_frame() returns as
\* soon as it has read them, if it reads nothing before them: it neither goes on
\* nor gives up while a beginning of what it has read, up to kMaxRecvBufferSize
\* bytes, is a frame.
THEOREM WholeFramesReturned == Spec => []WholeFrameReturned
<1>1. Inv => WholeFrameReturned
  BY DEF Inv
<1> QED BY <1>1, InvAlways, PTL

\* A frame returned leaves the buffer with its preambles and no other byte: what
\* the buffer keeps is an end of what was read, and the frame stood before it,
\* whatever trimming did.
THEOREM OneFrameConsumed == Spec => []ExactlyOneFrameConsumed
<1>1. Inv => ExactlyOneFrameConsumed
  BY DEF Inv
<1> QED BY <1>1, InvAlways, PTL

LEMMA FirstFrameFromInv ==
  ASSUME Inv
  PROVE  FirstFrameReturned
<1> SUFFICES ASSUME NEW i \in DOMAIN mark, Len(sent) > mark[i], Quiet, got = <<>>
             PROVE  FALSE
  BY DEF Inv, Marked, FirstFrameReturned
<1>1. mark[i] \in Nat /\ Opens(mark[i])
  BY DEF Inv, Marked
<1>2. taken # Stream
  BY <1>1, NotYetRead DEF Inv
<1>3. taken \in Seq(Byte)
  BY StreamType DEF Inv
<1>4. Stream = (taken \o <<>>) \o <<>>
  BY DEF Quiet, Stream
<1> QED BY <1>2, <1>3, <1>4

\* What was asked on a quiet line is what is answered: the first frame that
\* comes through is returned, and nothing of an earlier read with it.
THEOREM FirstFramesReturned == Spec => []FirstFrameReturned
<1>1. Inv => FirstFrameReturned
  BY FirstFrameFromInv
<1> QED BY <1>1, InvAlways, PTL

(***************************************************************************)
(* One wrong byte.                                                         *)
(***************************************************************************)
\* What is decoded from a beginning t of bytes b that begin with a frame, one byte
\* of t being wrong at most and that frame staying where it was, is that frame.
LEMMA WrongByteInStream ==
  ASSUME NEW b \in Seq(Byte), decode(b) # <<>>,
         NEW t \in Seq(Byte), Len(t) <= Len(b), decode(t) # <<>>,
         NEW k \in 1..Len(t), \A i \in 1..Len(t) : i # k => t[i] = b[i],
         FrameStays(LeadingPreambles(b), k, t[k])
  PROVE  decode(t)[1].frame = decode(b)[1].frame
<1> DEFINE c == [i \in 1..Len(b) |-> IF i = k THEN t[k] ELSE b[i]]
           p == LeadingPreambles(b)
           l == decode(b)[1].bytes_consumed
<1>2. /\ c \in Seq(Byte) /\ Len(c) = Len(b) /\ k \in 1..Len(b)
      /\ c[k] = t[k] /\ \A i \in 1..Len(b) : i # k => c[i] = b[i]
  <2>1. k \in 1..Len(b) /\ t[k] \in Byte
    OBVIOUS
  <2>2. ASSUME NEW i \in 1..Len(b) PROVE c[i] \in Byte
    BY <2>1
  <2>3. c = [i \in 1..Len(b) |-> c[i]]
    OBVIOUS
  <2> HIDE DEF c
  <2>4. c \in Seq(Byte) /\ Len(c) = Len(b)
    BY <2>2, <2>3
  <2> QED BY <2>1, <2>4 DEF c
<1>3. IsLeading(p, b) /\ p \in Nat
  <2>1. IsLeading(p, b)
    BY LeadingExists
  <2> QED BY <2>1 DEF IsLeading
<1>4. FrameStays(p, k, c[k])
  BY <1>2
<1> HIDE DEF c, p, l
<1>5. decode(c) = decode(t)
  <2>1. decode(t)[1].bytes_consumed \in 12..Len(t)
    BY ConsumedIsThere
  <2>2. Len(t) \in Nat /\ Len(t) <= Len(c)
    BY <1>2
  <2>3. ASSUME NEW i \in 1..Len(t) PROVE t[i] = c[i]
    <3>1. i \in 1..Len(b)
      BY <1>2, <2>2
    <3> QED BY <1>2, <3>1
  <2>4. decode(t)[1].bytes_consumed <= Len(t)
    BY <2>1
  <2> DEFINE n == Len(t)
  <2>5. n \in Nat /\ n <= Len(t) /\ n <= Len(c) /\ decode(t)[1].bytes_consumed <= n
    BY <2>2, <2>4
  <2>6. \A i \in 1..n : t[i] = c[i]
    BY <2>3
  <2>7. c \in Seq(Byte)
    BY <1>2
  <2> HIDE DEF n
  <2> QED BY <2>5, <2>6, <2>7, DecodeAgree
<1>6. decode(b)[1].bytes_consumed = l
  BY DEF l
<1>7. l \in 12..Len(b)
  BY <1>6, ConsumedIsThere
<1>8. CASE c[k] = b[k]
  <2>1. c = b
    BY <1>2, <1>8, SeqEqual
  <2> QED BY <1>5, <1>6, <2>1
<1>9. CASE c[k] # b[k] /\ k \in p + 1..l
  <2>1. k # p + 10 /\ (k = p + 1 => c[k] # PREAMBLE)
    BY <1>4 DEF FrameStays
  <2>2. decode(c) = <<>>
    BY <1>2, <1>6, <1>9, <2>1, WrongByteRefused DEF p
  <2> QED BY <1>5, <2>2
<1>10. CASE k > l
  <2>1. l \in Nat /\ l <= Len(b) /\ l <= Len(c)
    BY <1>2, <1>7
  <2>2. ASSUME NEW i \in 1..l PROVE b[i] = c[i]
    BY <1>2, <1>7, <1>10
  <2>3. decode(b)[1].bytes_consumed <= l
    BY <1>6, <2>1
  <2>4. decode(c) = decode(b)
    BY <1>2, <1>6, <2>1, <2>2, <2>3, DecodeAgree
  <2> QED BY <1>5, <1>6, <2>4
<1>11. CASE c[k] # b[k] /\ k <= p
  <2>1. k \in 1..p
    BY <1>2, <1>3, <1>11
  <2>2. c[k] # PREAMBLE
    BY <1>3, <1>11, <2>1 DEF IsLeading
  <2>3. c[k] # FRAME_START
    BY <1>4, <1>11 DEF FrameStays
  <2>4. k - 1 \in 0..Len(c) /\ (k - 1) + 1 = k
    BY <1>2
  <2>5. ASSUME NEW i \in 1..k - 1 PROVE c[i] = PREAMBLE
    <3>1. i \in 1..p /\ i \in 1..Len(b) /\ i # k
      BY <1>2, <1>3, <2>1
    <3> QED BY <1>2, <1>3, <3>1 DEF IsLeading
  <2>6. IsLeading(k - 1, c)
    BY <2>2, <2>4, <2>5 DEF IsLeading
  <2>7. LeadingPreambles(c) = k - 1
    BY <1>2, <2>6, LeadingUnique
  <2>8. ~Framed(c, k - 1)
    BY <2>3, <2>4 DEF Framed
  <2>9. decode(c) = <<>>
    BY <2>7, <2>8 DEF decode
  <2> QED BY <1>5, <2>9
<1> QED
  <2>1. k \in Nat /\ l \in Nat /\ p \in Nat
    BY <1>2, <1>3, <1>7
  <2>2. k <= p \/ k \in p + 1..l \/ k > l
    BY <2>1
  <2> QED BY <1>8, <1>9, <1>10, <1>11, <2>2

\* The bytes of the devices since a read was begun on a quiet line: they begin
\* with the first frame sent, and there are as many as came or are on their way.
Traced ==
  \A i \in DOMAIN origin :
    /\ origin[i].first <= Len(sent)
    /\ Begins(origin[i].bytes, sent, origin[i].first)
    /\ Len(origin[i].bytes) = Len(taken) + Len(kernel) + Len(wire)

LEMMA TracedStays ==
  ASSUME Traced, UNCHANGED <<sent, origin>>,
         Len(taken') + Len(kernel') + Len(wire') = Len(taken) + Len(kernel) + Len(wire)
  PROVE  Traced'
BY DEF Traced

LEMMA TracedSends ==
  ASSUME TypeOK, Traced, DeviceSends
  PROVE  Traced'
<1>1. PICK f \in Sendable, n \in Wakeups :
        LET z == Preambles(n) \o Bare(f) IN
          /\ z \in Seq(Byte) /\ Len(wire') = Len(wire) + Len(z)
          /\ sent' = Append(sent, f)
          /\ origin' = Longer(z)
  BY OriginLonger
<1> DEFINE z == Preambles(n) \o Bare(f)
<1>2. z \in Seq(Byte) /\ Len(wire') = Len(wire) + Len(z) /\ origin' = Longer(z)
  BY <1>1
<1>3. UNCHANGED <<kernel, taken>> /\ sent \in Seq(Frame)
  BY DEF DeviceSends, TypeOK
<1> SUFFICES ASSUME NEW i \in DOMAIN origin'
             PROVE  /\ origin'[i].first <= Len(sent')
                    /\ Begins(origin'[i].bytes, sent', origin'[i].first)
                    /\ Len(origin'[i].bytes) = Len(taken) + Len(kernel) + Len(wire')
  BY <1>3 DEF Traced
<1> DEFINE b == origin[i].bytes
           m == origin[i].first
<1>4. i \in DOMAIN origin
  BY <1>2, LongerType
<1>5. origin'[i].first = m /\ origin'[i].bytes = b \o z
  <2>1. Longer(z)[i] = [first |-> m, bytes |-> b \o z]
    BY <1>2, <1>4, LongerType
  <2>2. origin'[i] = Longer(z)[i]
    BY <1>2
  <2> HIDE DEF m, b, z
  <2> QED BY <2>1, <2>2
<1>6. m \in Nat /\ b \in Seq(Byte)
  BY <1>4, OriginType
<1>7. /\ m <= Len(sent) /\ Begins(b, sent, m)
      /\ Len(b) = Len(taken) + Len(kernel) + Len(wire)
  BY <1>4 DEF Traced
<1> HIDE DEF b, m
<1>8. Begins(b \o z, sent', m) /\ Len(sent') > m
  BY <1>1, <1>3, <1>6, <1>7, BeginsMore
<1> HIDE DEF z
<1>9. m <= Len(sent')
  <2>1. sent' \in Seq(Frame)
    BY <1>1, <1>3, DataAssumption
  <2> QED BY <1>6, <1>8, <2>1
<1>10. Len(b \o z) = Len(taken) + Len(kernel) + Len(wire')
  <2>1. Len(b \o z) = Len(b) + Len(z)
    BY <1>2, <1>6
  <2>2. Len(taken) \in Nat /\ Len(kernel) \in Nat /\ Len(wire) \in Nat /\ Len(z) \in Nat
    BY <1>2 DEF TypeOK
  <2> QED BY <1>2, <1>7, <2>1, <2>2
<1> QED BY <1>5, <1>8, <1>9, <1>10

LEMMA TracedNext ==
  ASSUME TypeOK, Traced, [Next]_vars
  PROVE  Traced'
<1>0. /\ taken \in Seq(Byte) /\ kernel \in Seq(Byte) /\ wire \in Seq(Byte)
      /\ Len(taken) \in Nat /\ Len(kernel) \in Nat /\ Len(wire) \in Nat
  BY DEF TypeOK
<1>1. CASE SendFrame
  <2>1. CASE origin' = <<>>
    BY <2>1 DEF Traced
  <2>2. CASE Quiet /\ origin' = <<[first |-> Len(sent), bytes |-> <<>>]>>
    <3>1. taken' = <<>> /\ kernel' = <<>> /\ wire' = <<>> /\ sent' = sent
      BY <1>1, <2>2 DEF SendFrame, Request, Quiet, line
    <3>2. Len(sent) \in Nat
      BY DEF TypeOK
    <3>3. Begins(<<>>, sent', Len(sent))
      BY <3>1, <3>2 DEF Begins
    <3>4. DOMAIN origin' = {1} /\ origin'[1].first = Len(sent) /\ origin'[1].bytes = <<>>
      BY <2>2
    <3>5. Len(taken') + Len(kernel') + Len(wire') = 0 /\ Len(origin'[1].bytes) = 0
      BY <3>1, <3>4
    <3>6. origin'[1].first <= Len(sent') /\ Begins(origin'[1].bytes, sent', origin'[1].first)
      BY <3>1, <3>2, <3>3, <3>4
    <3>7. \A i \in DOMAIN origin' : i = 1
      BY <3>4
    <3> QED BY <3>5, <3>6, <3>7 DEF Traced
  <2> QED BY <1>1, <2>1, <2>2 DEF SendFrame, Request
<1>2. CASE Receive
  <2>1. UNCHANGED <<sent, origin, wire>> /\ taken' = taken \o Chunk
        /\ kernel' = SubSeq(kernel, ChunkLen + 1, Len(kernel))
    BY <1>2, ReceiveCases
  <2>2. ChunkLen \in 0..Len(kernel) /\ Len(taken \o Chunk) = Len(taken) + Len(Chunk)
    BY ChunkType DEF TypeOK
  <2>3. Len(Chunk) = ChunkLen /\ Len(kernel') = Len(kernel) - ChunkLen
    BY <1>0, <2>1, <2>2 DEF Chunk
  <2>4. Len(taken') + Len(kernel') + Len(wire') = Len(taken) + Len(kernel) + Len(wire)
    <3>1. Len(taken') = Len(taken) + ChunkLen /\ Len(wire') = Len(wire)
      BY <2>1, <2>2, <2>3
    <3> QED BY <1>0, <2>2, <2>3, <3>1
  <2> QED BY <2>1, <2>4, TracedStays
<1>3. CASE Timeout
  BY <1>3, TracedStays DEF Timeout, line
<1>4. CASE DeviceSends
  BY <1>4, TracedSends
<1>5. CASE Arrive
  <2>1. wire # <<>> /\ UNCHANGED <<taken, sent, origin>>
        /\ wire' = Tail(wire) /\ kernel' = Append(kernel, Head(wire))
    BY <1>5 DEF Arrive
  <2>2. Len(wire') = Len(wire) - 1 /\ Len(kernel') = Len(kernel) + 1
    BY <1>0, <2>1
  <2> QED BY <1>0, <2>1, <2>2, TracedStays
<1>6. CASE Disturb
  <2>1. CASE origin' = <<>>
    BY <2>1 DEF Traced
  <2>2. CASE \E b \in Strays : /\ wire # <<>> /\ wire' = Tail(wire)
                               /\ kernel' = Append(kernel, b) /\ origin' = origin
    <3>1. UNCHANGED <<taken, sent>>
      BY <1>6 DEF Disturb
    <3>2. Len(wire') = Len(wire) - 1 /\ Len(kernel') = Len(kernel) + 1
      BY <1>0, <2>2
    <3> QED BY <1>0, <2>2, <3>1, <3>2, TracedStays
  <2> QED BY <1>6, <2>1, <2>2 DEF Disturb
<1>7. CASE UNCHANGED vars
  BY <1>7, TracedStays DEF vars
<1> QED BY <1>1, <1>2, <1>3, <1>4, <1>5, <1>6, <1>7 DEF Next, Finished

LEMMA TracedAlways == Spec => []Traced
<1>1. Init => Traced
  BY DEF Init, Traced
<1>2. TypeOK /\ Traced /\ [Next]_vars => Traced'
  BY TracedNext
<1> QED BY <1>1, <1>2, TypeCorrect, PTL DEF Spec

LEMMA WrongByteFromInv ==
  ASSUME Inv, Traced
  PROVE  WrongByteNeverData
<1> SUFFICES ASSUME got # <<>>, Len(taken) <= MaxBuffer,
                    NEW o \in DOMAIN origin, NEW k \in DOMAIN taken,
                    \A i \in DOMAIN taken \ {k} : taken[i] = origin[o].bytes[i],
                    FrameStays(LeadingPreambles(origin[o].bytes), k, taken[k])
             PROVE  got[1] = sent[origin[o].first + 1]
  BY DEF WrongByteNeverData
<1> DEFINE b == origin[o].bytes
           m == origin[o].first
           n == Len(taken) - Len(buf)
<1>1. /\ TypeOK /\ taken \in Seq(Byte) /\ buf \in Seq(Byte) /\ sent \in Seq(Frame)
      /\ Len(taken) \in Nat /\ Len(kernel) \in Nat /\ Len(wire) \in Nat
      /\ k \in 1..Len(taken)
  BY DEF Inv, TypeOK
<1>2. /\ m <= Len(sent) /\ Begins(b, sent, m)
      /\ Len(b) = Len(taken) + Len(kernel) + Len(wire)
      /\ m \in Nat /\ b \in Seq(Byte)
  BY <1>1, OriginType DEF Traced
<1>3. Len(taken) <= Len(b) /\ Len(b) > 0
  BY <1>1, <1>2
<1>4. /\ n \in 0..Len(taken)
      /\ decode(SubSeq(taken, 1, n)) = <<[frame |-> got[1], bytes_consumed |-> n]>>
  <2>1. /\ n >= 0
        /\ \E q \in 0..n :
             /\ decode(SubSeq(taken, q + 1, n)) =
                  <<[frame |-> got[1], bytes_consumed |-> n - q]>>
             /\ q = 0
    BY DEF Inv, ExactlyOneFrameConsumed
  <2>2. Len(buf) \in Nat
    BY <1>1
  <2>3. n \in 0..Len(taken) /\ n - 0 = n /\ 0 + 1 = 1
    BY <1>1, <2>1, <2>2
  <2> HIDE DEF n
  <2>4. decode(SubSeq(taken, 0 + 1, n)) = <<[frame |-> got[1], bytes_consumed |-> n - 0]>>
    BY <2>1
  <2> QED BY <2>3, <2>4
<1> HIDE DEF b, m, n
<1>5. decode(taken) # <<>> /\ decode(taken)[1].frame = got[1]
  <2>1. decode(SubSeq(taken, 1, n)) # <<>>
    BY <1>4
  <2>2. decode(taken) = decode(SubSeq(taken, 1, n))
    BY <1>1, <1>4, <2>1, DecodePrefix
  <2> QED BY <1>4, <2>2
<1>6. Len(sent) > m
  <2>1. Len(sent) # m
    BY <1>2, <1>3 DEF Begins
  <2> QED BY <1>1, <1>2, <2>1
<1> DEFINE f == sent[m + 1]
<1>7. PICK w \in Wakeups, r \in Seq(Byte) : b = (Preambles(w) \o Bare(f)) \o r
  BY <1>2, <1>6 DEF Begins
<1>8. f \in Sendable
  BY <1>2, <1>6 DEF Begins
<1> HIDE DEF f
<1>9. f \in Frame /\ Len(f.data) <= 255 /\ w \in Nat
  BY <1>8, DataAssumption
<1>10. /\ \A i \in 1..Len(taken) : i # k => taken[i] = b[i]
       /\ FrameStays(LeadingPreambles(b), k, taken[k])
  <2>1. ASSUME NEW i \in 1..Len(taken), i # k PROVE taken[i] = b[i]
    <3>1. i \in DOMAIN taken \ {k}
      BY <1>1, <2>1
    <3> QED BY <3>1 DEF b
  <2> QED BY <2>1 DEF b
<1>11. decode(b) # <<>> /\ decode(b)[1].frame = f
  <2>1. decode(b) = <<[frame |-> f, bytes_consumed |-> w + 12 + Len(f.data)]>>
    BY <1>7, <1>9, FrameSentIsFrameDecoded
  <2> QED BY <2>1
<1>12. decode(taken)[1].frame = decode(b)[1].frame
  <2> DEFINE t == taken
  <2>1. /\ t \in Seq(Byte) /\ b \in Seq(Byte) /\ Len(t) <= Len(b)
        /\ decode(t) # <<>> /\ decode(b) # <<>> /\ k \in 1..Len(t)
    BY <1>1, <1>2, <1>3, <1>5, <1>11
  <2>2. \A i \in 1..Len(t) : i # k => t[i] = b[i]
    BY <1>10
  <2>3. FrameStays(LeadingPreambles(b), k, t[k])
    BY <1>10
  <2> HIDE DEF t
  <2>4. decode(t)[1].frame = decode(b)[1].frame
    BY <2>1, <2>2, <2>3, WrongByteInStream
  <2> QED BY <2>4 DEF t
<1> QED BY <1>5, <1>11, <1>12 DEF f, m

\* Whatever frames the devices send and however they come in chunks, one wrong
\* byte that leaves the beginning and the length of the first frame as they are
\* is noticed: what is returned is that frame, or nothing.
THEOREM WrongByteIsNeverData == Spec => []WrongByteNeverData
<1>1. Inv /\ Traced => WrongByteNeverData
  BY WrongByteFromInv
<1> QED BY <1>1, InvAlways, TracedAlways, PTL
=============================================================================
