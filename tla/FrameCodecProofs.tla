-------------------------- MODULE FrameCodecProofs --------------------------
(***************************************************************************)
(* What the codec of FrameCodec does to every frame and every buffer.      *)
(***************************************************************************)
EXTENDS FrameCodec, NatRecursion, SequenceTheorems, TLAPS

(***************************************************************************)
(* Arithmetic of single bytes, so that Byte need not be expanded elsewhere.*)
(***************************************************************************)
LEMMA ByteMask ==
  ASSUME NEW x \in Byte
  PROVE  /\ (x + 51) % 256 \in Byte
         /\ (x - 51) % 256 \in Byte
         /\ (((x + 51) % 256) - 51) % 256 = x
BY DEF Byte

LEMMA ByteSum ==
  ASSUME NEW x \in Byte, NEW y \in Byte
  PROVE  (x + y) % 256 \in Byte
BY DEF Byte

LEMMA ByteCancel ==
  ASSUME NEW x \in Byte, NEW y \in Byte, NEW z \in Byte
  PROVE  /\ (x + z) % 256 = (y + z) % 256 => x = y
         /\ (z + x) % 256 = (z + y) % 256 => x = y
BY DEF Byte

LEMMA ZeroIsByte == 0 \in Byte
BY DEF Byte

(***************************************************************************)
(* The data mask.                                                          *)
(***************************************************************************)
\* add33() turns data bytes into bytes, as many of them.
LEMMA Add33Type ==
  ASSUME NEW s \in Seq(Byte)
  PROVE  add33(s) \in Seq(Byte) /\ Len(add33(s)) = Len(s)
<1>1. ASSUME NEW i \in 1..Len(s) PROVE (s[i] + 51) % 256 \in Byte
  <2>1. s[i] \in Byte
    OBVIOUS
  <2> QED BY <2>1, ByteMask
<1>2. add33(s) = [i \in 1..Len(s) |-> (s[i] + 51) % 256]
  BY DEF add33, DATA_MASK
<1> QED BY <1>1, <1>2

LEMMA Sub33Type ==
  ASSUME NEW s \in Seq(Byte)
  PROVE  sub33(s) \in Seq(Byte) /\ Len(sub33(s)) = Len(s)
<1>1. ASSUME NEW i \in 1..Len(s) PROVE (s[i] - 51) % 256 \in Byte
  <2>1. s[i] \in Byte
    OBVIOUS
  <2> QED BY <2>1, ByteMask
<1>2. sub33(s) = [i \in 1..Len(s) |-> (s[i] - 51) % 256]
  BY DEF sub33, DATA_MASK
<1> QED BY <1>1, <1>2

\* sub33() takes back what add33() does, to every byte, wrapped or not.
THEOREM Sub33UndoesAdd33 ==
  ASSUME NEW s \in Seq(Byte)
  PROVE  sub33(add33(s)) = s
<1>1. add33(s) \in Seq(Byte) /\ Len(add33(s)) = Len(s)
  BY Add33Type
<1>2. sub33(add33(s)) \in Seq(Byte) /\ Len(sub33(add33(s))) = Len(s)
  BY <1>1, Sub33Type
<1>3. ASSUME NEW i \in 1..Len(s) PROVE sub33(add33(s))[i] = s[i]
  <2>1. add33(s)[i] = (s[i] + 51) % 256
    BY DEF add33, DATA_MASK
  <2>2. sub33(add33(s))[i] = (add33(s)[i] - 51) % 256
    BY <1>1 DEF sub33, DATA_MASK
  <2>3. s[i] \in Byte
    OBVIOUS
  <2>4. (((s[i] + 51) % 256) - 51) % 256 = s[i]
    BY <2>3, ByteMask
  <2> QED BY <2>1, <2>2, <2>4
<1> QED BY <1>2, <1>3

(***************************************************************************)
(* The checksum.                                                           *)
(***************************************************************************)
IsSum(p, s) ==
  p = [i \in 0..Len(s) |-> IF i = 0 THEN 0 ELSE (p[i - 1] + s[i]) % 256]

\* The running sums up to n.
SumsUpto(p, n, s) ==
  /\ p \in [0..n -> Byte]
  /\ p[0] = 0
  /\ \A i \in 1..n : p[i] = (p[i - 1] + s[i]) % 256

LEMMA SumsExtend ==
  ASSUME NEW s \in Seq(Byte), NEW n \in 1..Len(s), NEW p, SumsUpto(p, n - 1, s)
  PROVE  \E q : SumsUpto(q, n, s)
<1> DEFINE v == (p[n - 1] + s[n]) % 256
           q == [i \in 0..n |-> IF i = n THEN v ELSE p[i]]
<1>1. p \in [0..(n - 1) -> Byte] /\ p[0] = 0
  BY DEF SumsUpto
<1>2. p[n - 1] \in Byte /\ s[n] \in Byte
  BY <1>1
<1>3. v \in Byte
  BY <1>2, ByteSum
<1>4. q \in [0..n -> Byte] /\ q[0] = 0
  <2> HIDE DEF v
  <2> QED BY <1>1, <1>3
<1>5. ASSUME NEW i \in 1..n PROVE q[i] = (q[i - 1] + s[i]) % 256
  <2>1. i # n => p[i] = (p[i - 1] + s[i]) % 256
    BY DEF SumsUpto
  <2>2. q[i - 1] = p[i - 1]
    OBVIOUS
  <2> QED BY <2>1, <2>2
<1> HIDE DEF q
<1> QED BY <1>4, <1>5 DEF SumsUpto

\* Running sums of a byte sequence exist.
LEMMA SumsExist ==
  ASSUME NEW s \in Seq(Byte)
  PROVE  \E p : IsSum(p, s)
<1> DEFINE Bad == {n \in 0..Len(s) : ~\E p : SumsUpto(p, n, s)}
<1>1. Bad = {}
  <2> SUFFICES ASSUME Bad # {} PROVE FALSE
    OBVIOUS
  <2>0. Bad \subseteq Nat
    OBVIOUS
  <2>1. PICK n \in Bad : \A m \in Bad : n <= m
    <3> HIDE DEF Bad
    <3> QED BY <2>0, LeastNumber
  <2>2. n \in 0..Len(s) /\ ~\E p : SumsUpto(p, n, s)
    BY <2>1
  <2>3. CASE n = 0
    <3>1. SumsUpto([i \in 0..0 |-> 0], 0, s)
      BY ZeroIsByte DEF SumsUpto
    <3> QED BY <2>2, <2>3, <3>1
  <2>4. CASE n # 0
    <3>1. n \in 1..Len(s) /\ n - 1 \in 0..Len(s)
      BY <2>2, <2>4
    <3>2. n - 1 \notin Bad
      <4> HIDE DEF Bad
      <4> QED BY <2>0, <2>1, <3>1
    <3>3. \E p : SumsUpto(p, n - 1, s)
      BY <3>1, <3>2
    <3> QED BY <2>2, <3>1, <3>3, SumsExtend
  <2> QED BY <2>3, <2>4
<1>2. PICK p : SumsUpto(p, Len(s), s)
  <2>1. Len(s) \in 0..Len(s)
    OBVIOUS
  <2>2. Len(s) \notin Bad
    <3> HIDE DEF Bad
    <3> QED BY <1>1
  <2> QED BY <2>1, <2>2
<1>3. IsSum(p, s)
  BY <1>2 DEF IsSum, SumsUpto
<1> QED BY <1>3

LEMMA ChecksumIsSum ==
  ASSUME NEW s \in Seq(Byte)
  PROVE  \E p : IsSum(p, s) /\ calc_checksum(s) = p[Len(s)]
<1> DEFINE p == CHOOSE q : q = [i \in 0..Len(s) |->
                                  IF i = 0 THEN 0 ELSE (q[i - 1] + s[i]) % 256]
<1>1. calc_checksum(s) = p[Len(s)]
  BY DEF calc_checksum
<1>2. p = [i \in 0..Len(s) |-> IF i = 0 THEN 0 ELSE (p[i - 1] + s[i]) % 256]
  BY SumsExist DEF IsSum
<1> HIDE DEF p
<1>3. IsSum(p, s)
  BY <1>2 DEF IsSum
<1> QED BY <1>1, <1>3

LEMMA SumType ==
  ASSUME NEW s \in Seq(Byte), NEW p, IsSum(p, s)
  PROVE  p \in [0..Len(s) -> Byte]
<1> DEFINE Bad == {n \in 0..Len(s) : p[n] \notin Byte}
<1>0. Bad \subseteq Nat
  OBVIOUS
<1>1. Bad = {}
  <2> SUFFICES ASSUME Bad # {} PROVE FALSE
    OBVIOUS
  <2>1. PICK n \in Bad : \A m \in Bad : n <= m
    <3> HIDE DEF Bad
    <3> QED BY <1>0, LeastNumber
  <2>2. n \in 0..Len(s) /\ p[n] \notin Byte
    BY <2>1
  <2>3. p[n] = IF n = 0 THEN 0 ELSE (p[n - 1] + s[n]) % 256
    BY <2>2 DEF IsSum
  <2>4. n # 0
    BY <2>2, <2>3, ZeroIsByte
  <2>5. n \in 1..Len(s) /\ n - 1 \in 0..Len(s)
    BY <2>2, <2>4
  <2>6. n - 1 \notin Bad
    <3> HIDE DEF Bad
    <3> QED BY <1>0, <2>1, <2>5
  <2>7. p[n - 1] \in Byte /\ s[n] \in Byte
    BY <2>5, <2>6
  <2> QED BY <2>2, <2>3, <2>4, <2>7, ByteSum
<1>2. p = [i \in 0..Len(s) |-> p[i]]
  BY DEF IsSum
<1> QED BY <1>1, <1>2

LEMMA SumStep ==
  ASSUME NEW s \in Seq(Byte), NEW p, IsSum(p, s), NEW i \in 1..Len(s)
  PROVE  p[i] = (p[i - 1] + s[i]) % 256
BY DEF IsSum

\* The checksum is a byte.
LEMMA ChecksumType ==
  ASSUME NEW s \in Seq(Byte)
  PROVE  calc_checksum(s) \in Byte
BY ChecksumIsSum, SumType

\* Altering one of the bytes it covers changes the checksum.
THEOREM OneWrongByteDetected ==
  ASSUME NEW s \in Seq(Byte), NEW t \in Seq(Byte), Len(s) = Len(t),
         NEW k \in 1..Len(s), s[k] # t[k],
         \A i \in 1..Len(s) : i # k => s[i] = t[i]
  PROVE  calc_checksum(s) # calc_checksum(t)
<1>1. PICK p : IsSum(p, s) /\ calc_checksum(s) = p[Len(s)]
  BY ChecksumIsSum
<1>2. PICK q : IsSum(q, t) /\ calc_checksum(t) = q[Len(t)]
  BY ChecksumIsSum
<1>3. p \in [0..Len(s) -> Byte] /\ q \in [0..Len(s) -> Byte]
  BY <1>1, <1>2, SumType
<1>4. p[0] = q[0]
  BY <1>1, <1>2 DEF IsSum
<1>5. ASSUME NEW i \in 1..Len(s)
      PROVE  /\ p[i] = (p[i - 1] + s[i]) % 256
             /\ q[i] = (q[i - 1] + t[i]) % 256
             /\ i - 1 \in 0..Len(s)
             /\ {p[i], q[i], p[i - 1], q[i - 1], s[i], t[i]} \subseteq Byte
  <2>1. p[i] = (p[i - 1] + s[i]) % 256
    BY <1>1, SumStep
  <2>2. q[i] = (q[i - 1] + t[i]) % 256
    BY <1>2, SumStep
  <2>3. i - 1 \in 0..Len(s) /\ i \in 0..Len(s) /\ s[i] \in Byte /\ t[i] \in Byte
    OBVIOUS
  <2> QED BY <1>3, <2>1, <2>2, <2>3
<1> DEFINE Bad == {n \in 0..Len(s) : (p[n] = q[n]) # (n < k)}
<1>6. Bad \subseteq Nat
  OBVIOUS
<1>7. Bad = {}
  <2> SUFFICES ASSUME Bad # {} PROVE FALSE
    OBVIOUS
  <2>1. PICK n \in Bad : \A m \in Bad : n <= m
    <3> HIDE DEF Bad
    <3> QED BY <1>6, LeastNumber
  <2>2. n \in 0..Len(s) /\ (p[n] = q[n]) # (n < k)
    BY <2>1
  <2>3. n # 0
    BY <1>4, <2>2
  <2>4. n \in 1..Len(s) /\ n - 1 \in 0..Len(s)
    BY <2>2, <2>3
  <2>5. n - 1 \notin Bad
    <3> HIDE DEF Bad
    <3> QED BY <1>6, <2>1, <2>4
  <2>6. (p[n - 1] = q[n - 1]) = (n - 1 < k)
    BY <2>4, <2>5
  <2>7. /\ p[n] = (p[n - 1] + s[n]) % 256
        /\ q[n] = (q[n - 1] + t[n]) % 256
        /\ {p[n], q[n], p[n - 1], q[n - 1], s[n], t[n]} \subseteq Byte
    BY <1>5, <2>4
  <2>8. CASE n < k
    <3>1. p[n - 1] = q[n - 1] /\ s[n] = t[n]
      BY <2>4, <2>6, <2>8
    <3> QED BY <2>2, <2>7, <2>8, <3>1
  <2>9. CASE n = k
    <3>1. p[n - 1] = q[n - 1] /\ s[n] # t[n]
      BY <2>4, <2>6, <2>9
    <3>2. p[n] # q[n]
      BY <2>7, <3>1, ByteCancel
    <3> QED BY <2>2, <2>9, <3>2
  <2>10. CASE n > k
    <3>1. p[n - 1] # q[n - 1] /\ s[n] = t[n]
      BY <2>4, <2>6, <2>10
    <3>2. p[n] # q[n]
      BY <2>7, <3>1, ByteCancel
    <3> QED BY <2>2, <2>10, <3>2
  <2> QED BY <2>2, <2>8, <2>9, <2>10
<1>8. Len(s) \in 0..Len(s) /\ ~(Len(s) < k)
  OBVIOUS
<1>9. Len(s) \notin Bad
  <2> HIDE DEF Bad
  <2> QED BY <1>7
<1> QED BY <1>1, <1>2, <1>8, <1>9

(***************************************************************************)
(* Preambles.                                                              *)
(***************************************************************************)
IsLeading(n, b) ==
  /\ n \in 0..Len(b)
  /\ \A i \in 1..n : b[i] = PREAMBLE
  /\ n < Len(b) => b[n + 1] # PREAMBLE

LEMMA LeadingExists ==
  ASSUME NEW b \in Seq(Byte)
  PROVE  IsLeading(LeadingPreambles(b), b)
<1> DEFINE Stops == {n \in 0..Len(b) : n < Len(b) => b[n + 1] # PREAMBLE}
<1>1. Stops \subseteq Nat /\ Len(b) \in Stops
  OBVIOUS
<1>2. PICK n \in Stops : \A m \in Stops : n <= m
  <2> HIDE DEF Stops
  <2> QED BY <1>1, LeastNumber
<1>3. ASSUME NEW i \in 1..n PROVE b[i] = PREAMBLE
  <2>1. i - 1 \notin Stops
    <3> HIDE DEF Stops
    <3> QED BY <1>1, <1>2
  <2> QED BY <1>2, <2>1
<1>4. IsLeading(n, b)
  BY <1>2, <1>3 DEF IsLeading
<1> QED BY <1>4 DEF IsLeading, LeadingPreambles

LEMMA LeadingUnique ==
  ASSUME NEW b \in Seq(Byte), NEW n, IsLeading(n, b)
  PROVE  LeadingPreambles(b) = n
<1> DEFINE m == LeadingPreambles(b)
<1>1. IsLeading(m, b)
  BY LeadingExists
<1> HIDE DEF m
<1>2. ~(m < n)
  <2> SUFFICES ASSUME m < n PROVE FALSE
    OBVIOUS
  <2>1. m + 1 \in 1..n /\ m < Len(b)
    BY <1>1 DEF IsLeading
  <2> QED BY <1>1, <2>1 DEF IsLeading
<1>3. ~(n < m)
  <2> SUFFICES ASSUME n < m PROVE FALSE
    OBVIOUS
  <2>1. n + 1 \in 1..m /\ n < Len(b)
    BY <1>1 DEF IsLeading
  <2> QED BY <1>1, <2>1 DEF IsLeading
<1>4. m \in Int /\ n \in Int
  BY <1>1 DEF IsLeading
<1>5. m = n
  BY <1>2, <1>3, <1>4
<1> QED BY <1>5 DEF m

(***************************************************************************)
(* Decoding.                                                               *)
(***************************************************************************)
LEMMA LengthIsNat == \A x \in Byte : x \in Nat /\ x <= 255
BY DEF Byte

\* A buffer that decodes is framed behind its preambles.
LEMMA DecodeSucceeds ==
  ASSUME NEW b \in Seq(Byte), decode(b) # <<>>, NEW p, p = LeadingPreambles(b)
  PROVE  /\ IsLeading(p, b)
         /\ p + 12 <= Len(b)
         /\ Framed(b, p)
         /\ b[p + 10] \in Byte /\ p + 10 \in 1..Len(b)
         /\ decode(b) = <<[frame |-> FrameAt(b, p),
                           bytes_consumed |-> p + 12 + b[p + 10]]>>
<1>1. IsLeading(p, b)
  BY LeadingExists
<1>2. p + 12 <= Len(b) /\ Framed(b, p)
  BY DEF decode
<1>3. decode(b) = <<[frame |-> FrameAt(b, p), bytes_consumed |-> p + 12 + b[p + 10]]>>
  BY <1>2 DEF decode
<1>4. p + 10 \in 1..Len(b)
  BY <1>1, <1>2 DEF IsLeading
<1>5. b[p + 10] \in Byte
  BY <1>4
<1> QED BY <1>1, <1>2, <1>3, <1>4, <1>5

\* decode() never takes more than there is: the branch of receive_frame() that
\* clears the buffer then is dead.
THEOREM ConsumedIsThere ==
  ASSUME NEW b \in Seq(Byte), decode(b) # <<>>
  PROVE  decode(b)[1].bytes_consumed \in 12..Len(b)
<1> DEFINE p == LeadingPreambles(b)
<1>1. /\ IsLeading(p, b) /\ Framed(b, p)
      /\ b[p + 10] \in Byte
      /\ decode(b)[1].bytes_consumed = p + 12 + b[p + 10]
  BY DecodeSucceeds
<1>2. p \in Nat /\ b[p + 10] \in Nat
  BY <1>1, LengthIsNat DEF IsLeading
<1>3. p + 12 + b[p + 10] <= Len(b)
  BY <1>1 DEF Framed
<1> QED BY <1>1, <1>2, <1>3

LEMMA SubSeqAgree ==
  ASSUME NEW a \in Seq(Byte), NEW b \in Seq(Byte),
         NEW i \in Nat \ {0}, NEW j \in Nat, j <= Len(a), j <= Len(b),
         \A k \in i..j : a[k] = b[k]
  PROVE  SubSeq(a, i, j) = SubSeq(b, i, j)
<1> DEFINE m == IF i <= j THEN j - i + 1 ELSE 0
<1>1. /\ SubSeq(a, i, j) \in Seq(Byte) /\ Len(SubSeq(a, i, j)) = m
      /\ \A k \in 1..m : SubSeq(a, i, j)[k] = a[i + k - 1]
  OBVIOUS
<1>2. /\ SubSeq(b, i, j) \in Seq(Byte) /\ Len(SubSeq(b, i, j)) = m
      /\ \A k \in 1..m : SubSeq(b, i, j)[k] = b[i + k - 1]
  OBVIOUS
<1>3. \A k \in 1..m : i + k - 1 \in i..j
  OBVIOUS
<1> HIDE DEF m
<1>4. \A k \in 1..m : SubSeq(a, i, j)[k] = SubSeq(b, i, j)[k]
  BY <1>1, <1>2, <1>3
<1> QED BY <1>1, <1>2, <1>4, SeqEqual

\* What decode() returns depends on the bytes it consumes and on no others.
LEMMA DecodeAgree ==
  ASSUME NEW a \in Seq(Byte), NEW b \in Seq(Byte), NEW n \in Nat,
         n <= Len(a), n <= Len(b), \A i \in 1..n : a[i] = b[i],
         decode(a) # <<>>, decode(a)[1].bytes_consumed <= n
  PROVE  decode(b) = decode(a)
<1> DEFINE p == LeadingPreambles(a)
           l == a[p + 10]
<1>1. /\ IsLeading(p, a)
      /\ Framed(a, p)
      /\ l \in Byte
      /\ decode(a) = <<[frame |-> FrameAt(a, p), bytes_consumed |-> p + 12 + l]>>
  BY DecodeSucceeds
<1>2. p \in Nat /\ l \in Nat /\ p + 12 + l <= n
  BY <1>1, LengthIsNat DEF IsLeading
<1>0. l = a[p + 10]
  OBVIOUS
<1> HIDE DEF p, l
<1>3. \A i \in 1..(p + 12 + l) : i \in 1..n /\ i \in 1..Len(a) /\ i \in 1..Len(b) /\ a[i] = b[i]
  BY <1>2
<1>4. IsLeading(p, b)
  <2>1. p \in 0..Len(b) /\ p + 1 \in 1..(p + 12 + l) /\ p < Len(a)
    BY <1>2
  <2>2. a[p + 1] # PREAMBLE
    BY <1>1, <2>1 DEF IsLeading
  <2>3. b[p + 1] # PREAMBLE
    BY <1>3, <2>1, <2>2
  <2>4. ASSUME NEW i \in 1..p PROVE b[i] = PREAMBLE
    <3>1. a[i] = PREAMBLE
      BY <1>1 DEF IsLeading
    <3>2. i \in 1..(p + 12 + l)
      BY <1>2
    <3> QED BY <1>3, <3>1, <3>2
  <2> QED BY <2>1, <2>3, <2>4 DEF IsLeading
<1>5. LeadingPreambles(b) = p
  BY <1>4, LeadingUnique
<1>6. b[p + 10] = l
  BY <1>0, <1>2, <1>3
<1>7. ASSUME NEW i \in 1..(p + 12 + l), NEW j \in 1..(p + 12 + l)
      PROVE  SubSeq(a, i, j) = SubSeq(b, i, j)
  <2>1. i \in Nat \ {0} /\ j \in Nat /\ j <= Len(a) /\ j <= Len(b)
    BY <1>2
  <2>2. \A k \in i..j : a[k] = b[k]
    BY <1>2, <1>3
  <2> QED BY <2>1, <2>2, SubSeqAgree
<1>8. Framed(b, p)
  <2>1. SubSeq(a, p + 1, p + 10 + l) = SubSeq(b, p + 1, p + 10 + l)
    BY <1>2, <1>7
  <2>2. /\ b[p + 1] = a[p + 1] /\ b[p + 8] = a[p + 8]
        /\ b[p + 11 + l] = a[p + 11 + l] /\ b[p + 12 + l] = a[p + 12 + l]
    BY <1>2, <1>3
  <2>3. /\ a[p + 1] = FRAME_START /\ a[p + 8] = FRAME_START
        /\ a[p + 11 + l] = calc_checksum(SubSeq(a, p + 1, p + 10 + l))
        /\ a[p + 12 + l] = FRAME_END
    BY <1>0, <1>1 DEF Framed
  <2>4. p + 12 + l <= Len(b)
    BY <1>2
  <2>5. /\ b[p + 1] = FRAME_START /\ b[p + 8] = FRAME_START
        /\ b[p + 11 + l] = calc_checksum(SubSeq(b, p + 1, p + 10 + l))
        /\ b[p + 12 + l] = FRAME_END
    BY <2>1, <2>2, <2>3
  <2> QED BY <1>6, <2>4, <2>5 DEF Framed
<1>9. FrameAt(b, p) = FrameAt(a, p)
  <2>1. SubSeq(a, p + 2, p + 7) = SubSeq(b, p + 2, p + 7) /\ b[p + 9] = a[p + 9]
    <3>1. p + 2 \in 1..(p + 12 + l) /\ p + 7 \in 1..(p + 12 + l) /\ p + 9 \in 1..(p + 12 + l)
      BY <1>2
    <3> QED BY <1>3, <1>7, <3>1
  <2>2. SubSeq(a, p + 11, p + 10 + l) = SubSeq(b, p + 11, p + 10 + l)
    <3>1. p + 11 \in 1..(p + 12 + l) /\ p + 10 + l \in 1..(p + 12 + l)
      BY <1>2
    <3> QED BY <1>7, <3>1
  <2> QED BY <1>0, <1>6, <2>1, <2>2 DEF FrameAt
<1>10. p + 12 <= Len(b)
  BY <1>2
<1> QED BY <1>1, <1>5, <1>6, <1>8, <1>9, <1>10 DEF decode

\* A frame at the beginning of a buffer is found whatever has arrived behind
\* it: the result does not depend on how the bytes were cut into chunks.
THEOREM DecodePrefix ==
  ASSUME NEW b \in Seq(Byte), NEW n \in 0..Len(b), decode(SubSeq(b, 1, n)) # <<>>
  PROVE  decode(b) = decode(SubSeq(b, 1, n))
<1> DEFINE a == SubSeq(b, 1, n)
<1>1. a \in Seq(Byte) /\ Len(a) = n /\ \A i \in 1..n : a[i] = b[i]
  OBVIOUS
<1>0. decode(a) # <<>>
  OBVIOUS
<1> HIDE DEF a
<1>2. decode(a) # <<>> /\ decode(a)[1].bytes_consumed <= n
  BY <1>0, <1>1, ConsumedIsThere
<1>3. decode(b) = decode(a)
  BY <1>1, <1>2, DecodeAgree
<1> QED BY <1>3 DEF a

\* bytes_consumed is exact: the bytes it counts are the frame.
THEOREM DecodeExact ==
  ASSUME NEW b \in Seq(Byte), decode(b) # <<>>,
         NEW n, n = decode(b)[1].bytes_consumed
  PROVE  n \in 12..Len(b) /\ decode(SubSeq(b, 1, n)) = decode(b)
<1>1. n \in 12..Len(b)
  BY ConsumedIsThere
<1> DEFINE a == SubSeq(b, 1, n)
<1>2. a \in Seq(Byte) /\ Len(a) = n /\ \A i \in 1..n : b[i] = a[i]
  BY <1>1
<1> HIDE DEF a
<1>3. decode(a) = decode(b)
  BY <1>1, <1>2, DecodeAgree
<1> QED BY <1>1, <1>3 DEF a

(***************************************************************************)
(* A frame sent is the frame received.                                     *)
(***************************************************************************)
LEMMA Constants ==
  /\ FRAME_START \in Byte /\ FRAME_END \in Byte /\ PREAMBLE \in Byte
  /\ FRAME_START # PREAMBLE
BY DEF FRAME_START, FRAME_END, PREAMBLE, Byte

\* A stretch of a buffer, by its own positions.
LEMMA Shifted ==
  ASSUME NEW b \in Seq(Byte), NEW p \in Nat, NEW j \in Nat, p + 1 <= j + 1, j <= Len(b)
  PROVE  /\ SubSeq(b, p + 1, j) \in Seq(Byte)
         /\ Len(SubSeq(b, p + 1, j)) = j - p
         /\ \A i \in 1..j - p : SubSeq(b, p + 1, j)[i] = b[p + i]
<1> DEFINE i0 == p + 1   s == SubSeq(b, i0, j)
<1>1. i0 \in Nat \ {0} /\ (IF i0 <= j THEN j - i0 + 1 ELSE 0) = j - p
  OBVIOUS
<1> HIDE DEF i0
<1>2. /\ s \in Seq(Byte) /\ Len(s) = IF i0 <= j THEN j - i0 + 1 ELSE 0
      /\ \A i \in 1..(IF i0 <= j THEN j - i0 + 1 ELSE 0) : s[i] = b[i0 + i - 1]
  BY <1>1
<1> HIDE DEF s
<1>3. ASSUME NEW i \in 1..j - p PROVE s[i] = b[p + i]
  <2>1. i0 + i - 1 = p + i
    BY DEF i0
  <2> QED BY <1>1, <1>2, <2>1
<1>4. s \in Seq(Byte) /\ Len(s) = j - p
  BY <1>1, <1>2
<1> QED BY <1>3, <1>4 DEF s, i0

\* One wrong byte behind the preambles, the length aside, breaks a frame.
LEMMA WrongByteUnframed ==
  ASSUME NEW a \in Seq(Byte), NEW b \in Seq(Byte), Len(b) = Len(a),
         NEW p \in Nat, NEW l \in Nat, a[p + 10] = l, b[p + 10] = l,
         p + 12 + l <= Len(a), Framed(a, p),
         NEW k \in 1..(12 + l), b[p + k] # a[p + k],
         \A i \in 1..(12 + l) : i # k => b[p + i] = a[p + i]
  PROVE  ~Framed(b, p)
<1> SUFFICES ASSUME Framed(b, p) PROVE FALSE
  OBVIOUS
<1> DEFINE n == 10 + l
           s == SubSeq(a, p + 1, p + n)
           t == SubSeq(b, p + 1, p + n)
<1>1. n \in Nat /\ p + n \in Nat /\ p + 1 <= p + n + 1 /\ p + n <= Len(a) /\ p + n <= Len(b)
      /\ p + n = p + 10 + l /\ (p + n) - p = n
  OBVIOUS
<1>2. /\ s \in Seq(Byte) /\ Len(s) = n
      /\ \A i \in 1..n : s[i] = a[p + i]
  BY <1>1, Shifted
<1>3. /\ t \in Seq(Byte) /\ Len(t) = n
      /\ \A i \in 1..n : t[i] = b[p + i]
  BY <1>1, Shifted
<1>4. p + 11 + l = p + (11 + l) /\ p + 12 + l = p + (12 + l)
  OBVIOUS
<1>5. /\ a[p + 1] = FRAME_START /\ a[p + 8] = FRAME_START
      /\ a[p + (11 + l)] = calc_checksum(s) /\ a[p + (12 + l)] = FRAME_END
  BY <1>1, <1>4 DEF Framed
<1>6. /\ b[p + 1] = FRAME_START /\ b[p + 8] = FRAME_START
      /\ b[p + (11 + l)] = calc_checksum(t) /\ b[p + (12 + l)] = FRAME_END
  BY <1>1, <1>4 DEF Framed
<1> HIDE DEF s, t
<1>7. k # 12 + l
  BY <1>5, <1>6
<1>8. CASE k = 11 + l
  <2>1. \A i \in 1..n : s[i] = t[i]
    <3>1. \A i \in 1..n : i \in 1..(12 + l) /\ i # k
      BY <1>8
    <3> HIDE DEF n
    <3> QED BY <1>2, <1>3, <3>1
  <2>2. s = t
    BY <1>2, <1>3, <2>1, SeqEqual
  <2> QED BY <1>5, <1>6, <1>8, <2>2
<1>9. CASE k # 11 + l
  <2>1. k \in 1..n /\ \A i \in 1..n : i \in 1..(12 + l)
    BY <1>7, <1>9
  <2>2. s[k] # t[k]
    BY <1>2, <1>3, <2>1
  <2>3. \A i \in 1..n : i # k => s[i] = t[i]
    BY <1>2, <1>3, <2>1
  <2>4. b[p + (11 + l)] = a[p + (11 + l)]
    <3>1. 11 + l \in 1..(12 + l)
      OBVIOUS
    <3> QED BY <1>9, <3>1
  <2>5. calc_checksum(s) = calc_checksum(t)
    BY <1>5, <1>6, <2>4
  <2> HIDE DEF n
  <2> QED BY <1>2, <1>3, <2>1, <2>2, <2>3, <2>5, OneWrongByteDetected
<1> QED BY <1>8, <1>9

\* A frame with one wrong byte is refused, wherever the byte is, with two
\* exceptions the format has: the length, which moves the checksum elsewhere,
\* and a first start byte that turns into one more preamble.
THEOREM WrongByteRefused ==
  ASSUME NEW a \in Seq(Byte), decode(a) # <<>>,
         NEW p, p = LeadingPreambles(a),
         NEW k \in p + 1..decode(a)[1].bytes_consumed, k # p + 10,
         NEW b \in Seq(Byte), Len(b) = Len(a), b[k] # a[k],
         k = p + 1 => b[k] # PREAMBLE,
         \A i \in 1..Len(a) : i # k => b[i] = a[i]
  PROVE  decode(b) = <<>>
<1> DEFINE l == a[p + 10]
           m == k - p
<1>1. /\ IsLeading(p, a) /\ Framed(a, p) /\ l \in Byte
      /\ decode(a)[1].bytes_consumed = p + 12 + l
  BY DecodeSucceeds
<1>2. p \in Nat /\ l \in Nat /\ p + 12 + l <= Len(a) /\ k \in p + 1..p + 12 + l
  <2>1. p \in Nat /\ l \in Nat
    BY <1>1, LengthIsNat DEF IsLeading
  <2> QED BY <1>1, <2>1 DEF Framed
<1>3. l = a[p + 10] /\ a[p + 1] = FRAME_START
  BY <1>1 DEF Framed
<1> HIDE DEF l
<1>4. m \in 1..(12 + l) /\ p + m = k
  BY <1>2
<1>5. ASSUME NEW i \in 1..(12 + l), i # m
      PROVE  b[p + i] = a[p + i]
  <2> DEFINE n == Len(a)
  <2>1. n \in Nat /\ p \in Nat /\ l \in Nat /\ p + 12 + l <= n
    BY <1>2
  <2>2. i \in Nat /\ 1 <= i /\ i <= 12 + l
    BY <2>1
  <2>3. m \in Int
    BY <1>4
  <2> HIDE DEF n, m
  <2>4. p + i \in 1..n
    BY <2>1, <2>2
  <2>5. p + i # k
    BY <1>4, <1>5, <2>1, <2>2, <2>3
  <2> QED BY <2>4, <2>5 DEF n
<1>6. b[p + 10] = l
  <2> DEFINE n == Len(a)
             q == p + 10
  <2>1. n \in Nat /\ p \in Nat /\ l \in Nat /\ p + 12 + l <= n
    BY <1>2
  <2> HIDE DEF n
  <2>2. q \in 1..n
    BY <2>1
  <2>3. q # k
    OBVIOUS
  <2>4. b[q] = a[q]
    BY <2>2, <2>3 DEF n
  <2> QED BY <1>3, <2>4
<1>7. LeadingPreambles(b) = p
  <2>1. b[p + 1] # PREAMBLE
    <3>1. CASE k = p + 1
      BY <3>1
    <3>2. CASE k # p + 1
      <4>1. b[p + 1] = a[p + 1]
        BY <1>2, <3>2
      <4> QED BY <1>3, <4>1, Constants
    <3> QED BY <3>1, <3>2
  <2>2. \A i \in 1..p : b[i] = PREAMBLE
    BY <1>1, <1>2 DEF IsLeading
  <2>3. IsLeading(p, b)
    BY <1>2, <2>1, <2>2 DEF IsLeading
  <2> QED BY <2>3, LeadingUnique
<1> HIDE DEF m
<1>8. ~Framed(b, p)
  BY <1>1, <1>2, <1>3, <1>4, <1>5, <1>6, WrongByteUnframed
<1> QED BY <1>7, <1>8 DEF decode

\* Byte sequences by their length, and concatenation as an operator of its own.
Bytes(n) == [1..n -> Byte]
Cat(a, b) == a \o b

LEMMA BytesSeq ==
  ASSUME NEW n \in Nat, NEW a \in Bytes(n)
  PROVE  a \in Seq(Byte) /\ Len(a) = n
<1>1. a = [i \in 1..n |-> a[i]] /\ \A i \in 1..n : a[i] \in Byte
  BY DEF Bytes
<1>2. Len([i \in 1..n |-> a[i]]) = n /\ [i \in 1..n |-> a[i]] \in Seq(Byte)
  BY <1>1
<1> QED BY <1>1, <1>2

LEMMA SeqBytes ==
  ASSUME NEW a \in Seq(Byte), NEW n, n = Len(a)
  PROVE  a \in Bytes(n) /\ n \in Nat
BY DEF Bytes

LEMMA CatBytes ==
  ASSUME NEW m \in Nat, NEW n \in Nat, NEW a \in Bytes(m), NEW b \in Bytes(n)
  PROVE  /\ Cat(a, b) \in Bytes(m + n)
         /\ \A i \in 1..m : Cat(a, b)[i] = a[i]
         /\ \A i \in (m + 1)..(m + n) : Cat(a, b)[i] = b[i - m]
<1>1. a \in Seq(Byte) /\ b \in Seq(Byte)
  BY BytesSeq
<1>2. m = Len(a) /\ n = Len(b)
  BY BytesSeq
<1>3. /\ a \o b \in Seq(Byte) /\ Len(a \o b) = Len(a) + Len(b)
      /\ \A i \in 1..(Len(a) + Len(b)) :
           (a \o b)[i] = IF i <= Len(a) THEN a[i] ELSE b[i - Len(a)]
  BY <1>1, ConcatProperties
<1>4. a \o b \in Bytes(m + n)
  BY <1>2, <1>3, SeqBytes
<1> QED BY <1>2, <1>3, <1>4 DEF Cat

\* q bytes of a buffer, behind the first p.
LEMMA SliceBytes ==
  ASSUME NEW b \in Seq(Byte), NEW p \in Nat, NEW q \in Nat, p + q <= Len(b)
  PROVE  /\ SubSeq(b, p + 1, p + q) \in Bytes(q)
         /\ \A i \in 1..q : SubSeq(b, p + 1, p + q)[i] = b[p + i]
<1>1. /\ SubSeq(b, p + 1, p + q) \in Seq(Byte)
      /\ Len(SubSeq(b, p + 1, p + q)) = q
      /\ \A i \in 1..q : SubSeq(b, p + 1, p + q)[i] = b[p + i]
  OBVIOUS
<1> QED BY <1>1, SeqBytes

LEMMA SameBytes ==
  ASSUME NEW n, NEW a \in Bytes(n), NEW b \in Bytes(n), \A i \in 1..n : a[i] = b[i]
  PROVE  a = b
<1>1. a = [i \in 1..n |-> a[i]] /\ b = [i \in 1..n |-> b[i]]
  BY DEF Bytes
<1> QED BY <1>1

LEMMA FrameParts ==
  ASSUME NEW f \in Frame
  PROVE  f.address \in Bytes(6) /\ f.control \in Byte /\ f.data \in Seq(Byte)
BY DEF Frame, Address, Bytes

LEMMA ShortLength ==
  ASSUME NEW n \in Nat, n <= 255
  PROVE  n \in Byte /\ n % 256 = n
BY DEF Byte

LEMMA BodyBytes ==
  ASSUME NEW a \in Bytes(6), NEW c \in Byte, NEW n \in Byte, NEW d \in Bytes(n),
         NEW u \in Bytes(1), NEW v \in Bytes(3)
  PROVE  LET y == Cat(Cat(Cat(u, a), v), d) IN
         /\ y \in Bytes(10 + n)
         /\ y[1] = u[1] /\ y[8] = v[1] /\ y[9] = v[2] /\ y[10] = v[3]
         /\ \A i \in 2..7 : y[i] = a[i - 1]
         /\ \A i \in 11..(10 + n) : y[i] = d[i - 10]
<1> DEFINE x == Cat(u, a)
           h == Cat(x, v)
           y == Cat(h, d)
<1>1. n \in Nat
  BY LengthIsNat
<1>2. /\ x \in Bytes(1 + 6)
      /\ \A i \in 1..1 : x[i] = u[i]
      /\ \A i \in (1 + 1)..(1 + 6) : x[i] = a[i - 1]
  BY CatBytes
<1>3. x \in Bytes(7) /\ x[1] = u[1] /\ \A i \in 2..7 : x[i] = a[i - 1]
  BY <1>2
<1>4. /\ h \in Bytes(7 + 3)
      /\ \A i \in 1..7 : h[i] = x[i]
      /\ \A i \in (7 + 1)..(7 + 3) : h[i] = v[i - 7]
  BY <1>3, CatBytes
<1> HIDE DEF x, h
<1>6. h[8] = v[8 - 7] /\ h[9] = v[9 - 7] /\ h[10] = v[10 - 7]
  BY <1>4
<1>7. h \in Bytes(10) /\ h[1] = u[1] /\ \A i \in 2..7 : h[i] = a[i - 1]
  BY <1>3, <1>4
<1>8. /\ y \in Bytes(10 + n)
      /\ \A i \in 1..10 : y[i] = h[i]
      /\ \A i \in (10 + 1)..(10 + n) : y[i] = d[i - 10]
  <2>1. 10 \in Nat
    OBVIOUS
  <2> QED BY <2>1, <1>1, <1>7, CatBytes
<1> HIDE DEF y
<1>9. /\ y[1] = u[1] /\ y[8] = v[1] /\ y[9] = v[2] /\ y[10] = v[3]
      /\ \A i \in 2..7 : y[i] = a[i - 1]
  BY <1>6, <1>7, <1>8
<1> QED BY <1>8, <1>9 DEF x, h, y

LEMMA BodyType ==
  ASSUME NEW f \in Frame, NEW n, n = Len(f.data), n <= 255
  PROVE  /\ n \in Byte /\ n \in Nat
         /\ Body(f) \in Bytes(10 + n)
         /\ Body(f)[1] = FRAME_START /\ Body(f)[8] = FRAME_START
         /\ Body(f)[9] = f.control /\ Body(f)[10] = n
         /\ \A i \in 2..7 : Body(f)[i] = f.address[i - 1]
         /\ \A i \in 11..(10 + n) : Body(f)[i] = add33(f.data)[i - 10]
<1>1. n \in Nat
  BY FrameParts, LenProperties
<1>2. n \in Byte /\ n % 256 = n
  BY <1>1, ShortLength
<1> DEFINE d == add33(f.data)
           u == <<FRAME_START>>
           v == <<FRAME_START, f.control, n>>
<1>3. Body(f) = Cat(Cat(Cat(u, f.address), v), d)
  BY <1>2 DEF Body, Cat
<1>4. d \in Bytes(n)
  BY FrameParts, Add33Type, SeqBytes
<1>5. u \in Bytes(1) /\ u[1] = FRAME_START
  BY Constants DEF Bytes
<1>6. v \in Bytes(3) /\ v[1] = FRAME_START /\ v[2] = f.control /\ v[3] = n
  BY <1>2, FrameParts, Constants DEF Bytes
<1> HIDE DEF d, u, v
<1> DEFINE y == Body(f)
<1>7. y = Cat(Cat(Cat(u, f.address), v), d)
  BY <1>3
<1> HIDE DEF y
<1>8. /\ y \in Bytes(10 + n)
      /\ y[1] = u[1] /\ y[8] = v[1] /\ y[9] = v[2] /\ y[10] = v[3]
      /\ \A i \in 2..7 : y[i] = f.address[i - 1]
      /\ \A i \in 11..(10 + n) : y[i] = d[i - 10]
  BY <1>2, <1>4, <1>5, <1>6, <1>7, FrameParts, BodyBytes
<1> QED BY <1>1, <1>2, <1>5, <1>6, <1>8 DEF d, y

\* A frame behind m preambles, n its data bytes.
LEMMA BareBytes ==
  ASSUME NEW f \in Frame, NEW n, n = Len(f.data), n <= 255
  PROVE  /\ n \in Nat /\ n \in Byte
         /\ Bare(f) \in Bytes(12 + n)
         /\ \A i \in 1..(10 + n) : Bare(f)[i] = Body(f)[i]
         /\ Bare(f)[11 + n] = calc_checksum(Body(f))
         /\ Bare(f)[12 + n] = FRAME_END
<1> DEFINE t == <<calc_checksum(Body(f)), FRAME_END>>
           y == Cat(Body(f), t)
<1>1. n \in Nat /\ n \in Byte /\ Body(f) \in Bytes(10 + n)
  BY BodyType
<1>2. Body(f) \in Seq(Byte)
  BY <1>1, BytesSeq
<1>3. calc_checksum(Body(f)) \in Byte
  BY <1>2, ChecksumType
<1>4. t \in Bytes(2) /\ t[1] = calc_checksum(Body(f)) /\ t[2] = FRAME_END
  BY <1>3, Constants DEF Bytes
<1> HIDE DEF t
<1>5. /\ y \in Bytes((10 + n) + 2)
      /\ \A i \in 1..(10 + n) : y[i] = Body(f)[i]
      /\ \A i \in ((10 + n) + 1)..((10 + n) + 2) : y[i] = t[i - (10 + n)]
  <2> DEFINE k == 10 + n
  <2>1. k \in Nat /\ 2 \in Nat /\ Body(f) \in Bytes(k)
    BY <1>1
  <2> HIDE DEF k
  <2>2. /\ y \in Bytes(k + 2)
        /\ \A i \in 1..k : y[i] = Body(f)[i]
        /\ \A i \in (k + 1)..(k + 2) : y[i] = t[i - k]
    BY <1>4, <2>1, CatBytes
  <2> QED BY <2>2 DEF k
<1>6. Bare(f) = y
  BY DEF Bare, Cat, t
<1> HIDE DEF y
<1>7. y[11 + n] = t[1] /\ y[12 + n] = t[2]
  <2>1. /\ 11 + n \in ((10 + n) + 1)..((10 + n) + 2) /\ (11 + n) - (10 + n) = 1
        /\ 12 + n \in ((10 + n) + 1)..((10 + n) + 2) /\ (12 + n) - (10 + n) = 2
    BY <1>1
  <2> QED BY <1>5, <2>1
<1>8. (10 + n) + 2 = 12 + n
  BY <1>1
<1> QED BY <1>1, <1>4, <1>5, <1>6, <1>7, <1>8

LEMMA PreambleBytes ==
  ASSUME NEW m \in Nat
  PROVE  Preambles(m) \in Bytes(m) /\ \A i \in 1..m : Preambles(m)[i] = PREAMBLE
BY Constants DEF Preambles, Bytes

LEMMA FrameEqual ==
  ASSUME NEW f \in Frame, NEW a, NEW c, NEW d,
         a = f.address, c = f.control, d = f.data
  PROVE  [address |-> a, control |-> c, data |-> d] = f
BY DEF Frame

LEMMA BareDecodes ==
  ASSUME NEW f \in Frame, Len(f.data) <= 255, NEW m \in Nat
  PROVE  decode(Cat(Preambles(m), Bare(f))) =
           <<[frame |-> f, bytes_consumed |-> m + 12 + Len(f.data)]>>
<1> DEFINE n == Len(f.data)
           w == Cat(Preambles(m), Bare(f))
<1>1. /\ n \in Nat /\ n \in Byte
      /\ Bare(f) \in Bytes(12 + n)
      /\ \A i \in 1..(10 + n) : Bare(f)[i] = Body(f)[i]
      /\ Bare(f)[11 + n] = calc_checksum(Body(f))
      /\ Bare(f)[12 + n] = FRAME_END
  BY BareBytes
<1>2. /\ Body(f) \in Bytes(10 + n)
      /\ Body(f)[1] = FRAME_START /\ Body(f)[8] = FRAME_START
      /\ Body(f)[9] = f.control /\ Body(f)[10] = n
      /\ \A i \in 2..7 : Body(f)[i] = f.address[i - 1]
      /\ \A i \in 11..(10 + n) : Body(f)[i] = add33(f.data)[i - 10]
  BY BodyType
<1> HIDE DEF n
<1>3. /\ w \in Bytes(m + (12 + n))
      /\ \A i \in 1..m : w[i] = PREAMBLE
      /\ \A i \in (m + 1)..(m + (12 + n)) : w[i] = Bare(f)[i - m]
  <2> DEFINE k == 12 + n
  <2>1. k \in Nat /\ Bare(f) \in Bytes(k)
    BY <1>1
  <2> HIDE DEF k
  <2>2. /\ w \in Bytes(m + k)
        /\ \A i \in 1..m : w[i] = Preambles(m)[i]
        /\ \A i \in (m + 1)..(m + k) : w[i] = Bare(f)[i - m]
    BY <2>1, PreambleBytes, CatBytes
  <2>3. \A i \in 1..m : w[i] = PREAMBLE
    BY <2>2, PreambleBytes
  <2> QED BY <2>2, <2>3 DEF k
<1>4. w \in Seq(Byte) /\ Len(w) = m + (12 + n)
  <2>1. m + (12 + n) \in Nat
    BY <1>1
  <2> QED BY <1>3, <2>1, BytesSeq
<1> HIDE DEF w
<1>5. ASSUME NEW i \in 1..(12 + n) PROVE w[m + i] = Bare(f)[i]
  <2>1. m + i \in (m + 1)..(m + (12 + n)) /\ (m + i) - m = i
    BY <1>1
  <2> QED BY <1>3, <2>1
<1>6. ASSUME NEW i \in 1..(10 + n) PROVE w[m + i] = Body(f)[i]
  BY <1>1, <1>5
<1>7. /\ w[m + 1] = FRAME_START /\ w[m + 8] = FRAME_START
      /\ w[m + 9] = f.control /\ w[m + 10] = n
  <2>1. 1 \in 1..(10 + n) /\ 8 \in 1..(10 + n) /\ 9 \in 1..(10 + n) /\ 10 \in 1..(10 + n)
    BY <1>1
  <2> QED BY <1>2, <1>6, <2>1
<1>8. w[m + (11 + n)] = calc_checksum(Body(f)) /\ w[m + (12 + n)] = FRAME_END
  <2>1. 11 + n \in 1..(12 + n) /\ 12 + n \in 1..(12 + n)
    BY <1>1
  <2> QED BY <1>1, <1>5, <2>1
<1>9. LeadingPreambles(w) = m
  <2>1. IsLeading(m, w)
    BY <1>1, <1>3, <1>4, <1>7, Constants DEF IsLeading
  <2> QED BY <1>4, <2>1, LeadingUnique
<1>10. SubSeq(w, m + 1, m + (10 + n)) = Body(f)
  <2> DEFINE x == SubSeq(w, m + 1, m + (10 + n))
  <2>1. x \in Bytes(10 + n) /\ \A i \in 1..(10 + n) : x[i] = w[m + i]
    <3>1. 10 + n \in Nat /\ m + (10 + n) <= Len(w)
      BY <1>1, <1>4
    <3> QED BY <1>4, <3>1, SliceBytes
  <2> HIDE DEF x
  <2>2. \A i \in 1..(10 + n) : x[i] = Body(f)[i]
    BY <1>6, <2>1
  <2>3. x = Body(f)
    BY <1>2, <2>1, <2>2, SameBytes
  <2> QED BY <2>3 DEF x
<1>11. SubSeq(w, m + 2, m + 7) = f.address
  <2> DEFINE x == SubSeq(w, (m + 1) + 1, (m + 1) + 6)
  <2>1. x \in Bytes(6) /\ \A i \in 1..6 : x[i] = w[(m + 1) + i]
    <3>1. m + 1 \in Nat /\ 6 \in Nat /\ (m + 1) + 6 <= Len(w)
      BY <1>1, <1>4
    <3> QED BY <1>4, <3>1, SliceBytes
  <2> HIDE DEF x
  <2>2. ASSUME NEW i \in 1..6 PROVE x[i] = f.address[i]
    <3>1. (m + 1) + i = m + (1 + i) /\ 1 + i \in 1..(10 + n) /\ 1 + i \in 2..7 /\ (1 + i) - 1 = i
      BY <1>1
    <3> QED BY <1>2, <1>6, <2>1, <3>1
  <2>3. x = f.address
    BY <2>1, <2>2, FrameParts, SameBytes
  <2>4. (m + 1) + 1 = m + 2 /\ (m + 1) + 6 = m + 7
    OBVIOUS
  <2> QED BY <2>3, <2>4 DEF x
<1>12. SubSeq(w, m + 11, m + (10 + n)) = add33(f.data)
  <2> DEFINE x == SubSeq(w, (m + 10) + 1, (m + 10) + n)
  <2>1. x \in Bytes(n) /\ \A i \in 1..n : x[i] = w[(m + 10) + i]
    <3>1. m + 10 \in Nat /\ (m + 10) + n <= Len(w)
      BY <1>1, <1>4
    <3> QED BY <1>1, <1>4, <3>1, SliceBytes
  <2> HIDE DEF x
  <2>2. ASSUME NEW i \in 1..n PROVE x[i] = add33(f.data)[i]
    <3>1. /\ (m + 10) + i = m + (10 + i) /\ 10 + i \in 1..(10 + n)
          /\ 10 + i \in 11..(10 + n) /\ (10 + i) - 10 = i
      BY <1>1
    <3> QED BY <1>2, <1>6, <2>1, <3>1
  <2>3. add33(f.data) \in Bytes(n)
    BY FrameParts, Add33Type, SeqBytes DEF n
  <2>4. x = add33(f.data)
    BY <2>1, <2>2, <2>3, SameBytes
  <2>5. (m + 10) + 1 = m + 11 /\ (m + 10) + n = m + (10 + n)
    BY <1>1
  <2> QED BY <2>4, <2>5 DEF x
<1>13. /\ m + 10 + n = m + (10 + n) /\ m + 11 + n = m + (11 + n)
       /\ m + 12 + n = m + (12 + n)
  BY <1>1
<1>14. Framed(w, m)
  <2>1. m + (12 + n) <= Len(w)
    BY <1>1, <1>4
  <2> QED BY <1>7, <1>8, <1>10, <1>13, <2>1 DEF Framed
<1>15. FrameAt(w, m) = f
  <2>1. sub33(SubSeq(w, m + 11, m + 10 + n)) = f.data
    BY <1>12, <1>13, FrameParts, Sub33UndoesAdd33
  <2>2. FrameAt(w, m) = [address |-> f.address, control |-> f.control, data |-> f.data]
    BY <1>7, <1>11, <2>1 DEF FrameAt
  <2> QED BY <2>2, FrameEqual
<1>16. m + 12 <= Len(w)
  BY <1>1, <1>4
<1>17. decode(w) = <<[frame |-> f, bytes_consumed |-> m + 12 + n]>>
  BY <1>7, <1>9, <1>14, <1>15, <1>16 DEF decode
<1> QED BY <1>17 DEF w, n

\* What a device sends is what decode() returns, behind any number of preambles
\* and whatever follows, up to the 255 data bytes a length field can state.
THEOREM FrameSentIsFrameDecoded ==
  ASSUME NEW f \in Frame, Len(f.data) <= 255, NEW m \in Nat, NEW rest \in Seq(Byte)
  PROVE  decode((Preambles(m) \o Bare(f)) \o rest) =
           <<[frame |-> f, bytes_consumed |-> m + 12 + Len(f.data)]>>
<1> DEFINE w == Cat(Preambles(m), Bare(f))
           n == Len(f.data)
           r == [frame |-> f, bytes_consumed |-> m + 12 + n]
<1>1. decode(w) = <<r>>
  BY BareDecodes
<1> DEFINE k == 12 + n
<1>2. k \in Nat /\ Bare(f) \in Bytes(k)
  <2>1. n \in Nat /\ Bare(f) \in Bytes(12 + n)
    BY BareBytes
  <2> HIDE DEF n
  <2> QED BY <2>1
<1> HIDE DEF k
<1>3. w \in Bytes(m + k) /\ m + k \in Nat
  BY <1>2, PreambleBytes, CatBytes
<1>4. w \in Seq(Byte)
  BY <1>3, BytesSeq
<1>5. Preambles(m) \o Bare(f) = w
  BY DEF Cat
<1> HIDE DEF w, r
<1>6. /\ w \o rest \in Seq(Byte)
      /\ Len(w) \in 0..Len(w \o rest)
      /\ SubSeq(w \o rest, 1, Len(w)) = w
  BY <1>4
<1> DEFINE b == w \o rest
           l == Len(w)
<1>7. b \in Seq(Byte) /\ l \in 0..Len(b) /\ SubSeq(b, 1, l) = w
  BY <1>6
<1> HIDE DEF b, l
<1>8. decode(w) # <<>>
  BY <1>1
<1>9. decode(b) = decode(w)
  BY <1>7, <1>8, DecodePrefix
<1> QED BY <1>1, <1>5, <1>9 DEF r, b

\* encode() and decode() are inverse.
THEOREM EncodeDecode ==
  ASSUME NEW f \in Frame, Len(f.data) <= 255
  PROVE  decode(encode(f)) = <<[frame |-> f, bytes_consumed |-> 16 + Len(f.data)]>>
<1>1. Len(f.data) \in Nat
  BY FrameParts, LenProperties
<1>2. 4 + 12 + Len(f.data) = 16 + Len(f.data)
  BY <1>1
<1> QED BY <1>2, BareDecodes DEF encode, Cat

(***************************************************************************)
(* A frame received is a frame sent: decode() takes nothing but encodings. *)
(***************************************************************************)
\* add33() takes back what sub33() does.
LEMMA Add33UndoesSub33 ==
  ASSUME NEW s \in Seq(Byte)
  PROVE  add33(sub33(s)) = s
<1> DEFINE u == sub33(s)
           v == add33(u)
<1>1. u \in Seq(Byte) /\ Len(u) = Len(s)
  BY Sub33Type
<1>2. v \in Seq(Byte) /\ Len(v) = Len(s)
  BY <1>1, Add33Type
<1>3. ASSUME NEW i \in 1..Len(s) PROVE v[i] = s[i]
  <2>1. s[i] \in Byte
    OBVIOUS
  <2>2. u[i] = (s[i] - 51) % 256
    BY DEF sub33, DATA_MASK
  <2>3. i \in DOMAIN u
    BY <1>1
  <2>4. v[i] = (u[i] + 51) % 256
    BY <2>3 DEF add33, DATA_MASK
  <2>5. ASSUME NEW x \in Byte PROVE (((x - 51) % 256) + 51) % 256 = x
    BY DEF Byte
  <2> QED BY <2>1, <2>2, <2>4, <2>5
<1> HIDE DEF v
<1>4. v = s
  BY <1>2, <1>3, SeqEqual
<1> QED BY <1>4 DEF v

LEMMA DecodedFrame ==
  ASSUME NEW b \in Seq(Byte), decode(b) # <<>>
  PROVE  /\ decode(b)[1].frame \in Frame
         /\ decode(b) = <<[frame |-> decode(b)[1].frame,
                           bytes_consumed |-> decode(b)[1].bytes_consumed]>>
<1> DEFINE p == LeadingPreambles(b)
           l == b[p + 10]
<1>1. /\ IsLeading(p, b) /\ Framed(b, p) /\ p + 12 <= Len(b) /\ l \in Byte
      /\ decode(b) = <<[frame |-> FrameAt(b, p), bytes_consumed |-> p + 12 + l]>>
  BY DecodeSucceeds
<1>2. p + 12 + l <= Len(b)
  BY <1>1 DEF Framed
<1>3. p \in Nat /\ l \in Nat /\ p + 1 \in Nat /\ p + 10 \in Nat
  <2>1. p \in 0..Len(b) /\ l \in Byte
    BY <1>1 DEF IsLeading
  <2> HIDE DEF p, l
  <2>2. l \in Nat
    BY <2>1, LengthIsNat
  <2> QED BY <2>1, <2>2
<1>4. b[p + 9] \in Byte
  <2>1. p + 9 \in 1..Len(b)
    BY <1>1, <1>3
  <2> QED BY <2>1
<1>5. l = b[p + 10]
  OBVIOUS
<1> HIDE DEF p, l
<1>6. SubSeq(b, p + 2, p + 7) \in Address
  <2>1. (p + 1) + 1 = p + 2 /\ (p + 1) + 6 = p + 7 /\ (p + 1) + 6 <= Len(b)
    BY <1>1, <1>3
  <2>2. SubSeq(b, (p + 1) + 1, (p + 1) + 6) \in Bytes(6)
    BY <1>3, <2>1, SliceBytes
  <2> QED BY <2>1, <2>2 DEF Bytes, Address
<1>7. sub33(SubSeq(b, p + 11, p + 10 + l)) \in Seq(Byte)
  <2>1. (p + 10) + 1 = p + 11 /\ (p + 10) + l <= Len(b)
    BY <1>2, <1>3
  <2>2. SubSeq(b, (p + 10) + 1, (p + 10) + l) \in Bytes(l)
    BY <1>3, <2>1, SliceBytes
  <2>3. SubSeq(b, p + 11, p + 10 + l) \in Seq(Byte)
    BY <1>3, <2>1, <2>2, BytesSeq
  <2> QED BY <2>3, Sub33Type
<1>8. FrameAt(b, p) \in Frame
  BY <1>4, <1>5, <1>6, <1>7 DEF FrameAt, Frame
<1> QED BY <1>1, <1>8


\* What the bytes of b after the p preambles are to the frame found there.
ReadBack(b, p, l, f) ==
    /\ l \in Nat /\ l <= 255 /\ Len(f.data) = l /\ (p + 12) + l <= Len(b)
    /\ f.control = b[p + 9]
    /\ \A i \in 1..6 : f.address[i] = b[(p + 1) + i]
    /\ \A i \in 1..l : add33(f.data)[i] = b[(p + 10) + i]
    /\ b[p + 1] = FRAME_START /\ b[p + 8] = FRAME_START
    /\ b[(p + 11) + l] = calc_checksum(SubSeq(b, p + 1, p + (10 + l)))
    /\ b[(p + 12) + l] = FRAME_END

\* The bytes decode() found a frame in, and the frame.
LEMMA FramedBytes ==
  ASSUME NEW b \in Seq(Byte), NEW p \in Nat, NEW l \in Byte, l = b[p + 10],
         p + 12 <= Len(b), Framed(b, p), NEW f \in Frame, f = FrameAt(b, p)
  PROVE  ReadBack(b, p, l, f)
<1> DEFINE a == SubSeq(b, (p + 1) + 1, (p + 1) + 6)
           d == SubSeq(b, (p + 10) + 1, (p + 10) + l)
<1>1. l \in Nat /\ l <= 255
  BY LengthIsNat
<1>2. /\ (p + 1) + 1 = p + 2 /\ (p + 1) + 6 = p + 7
      /\ (p + 10) + 1 = p + 11 /\ (p + 10) + l = p + (10 + l)
      /\ p + 10 + l = p + (10 + l) /\ (p + 10) + l = p + 10 + l
      /\ p + 11 + l = (p + 11) + l /\ p + 12 + l = (p + 12) + l
  BY <1>1
<1>3. /\ (p + 12) + l <= Len(b)
      /\ b[p + 1] = FRAME_START /\ b[p + 8] = FRAME_START
      /\ b[(p + 11) + l] = calc_checksum(SubSeq(b, p + 1, p + (10 + l)))
      /\ b[(p + 12) + l] = FRAME_END
  BY <1>2 DEF Framed
<1>4. a \in Bytes(6) /\ \A i \in 1..6 : a[i] = b[(p + 1) + i]
  <2>1. (p + 1) + 6 <= Len(b) /\ p + 1 \in Nat
    OBVIOUS
  <2>2. 6 \in Nat
    OBVIOUS
  <2> QED BY <2>1, <2>2, SliceBytes
<1>5. d \in Bytes(l) /\ \A i \in 1..l : d[i] = b[(p + 10) + i]
  <2>1. (p + 10) + l <= Len(b) /\ p + 10 \in Nat
    BY <1>1, <1>3
  <2> QED BY <1>1, <2>1, SliceBytes
<1>6. f.address = a /\ f.control = b[p + 9] /\ f.data = sub33(d)
  BY <1>2 DEF FrameAt
<1> HIDE DEF a, d
<1>7. d \in Seq(Byte) /\ Len(d) = l
  BY <1>1, <1>5, BytesSeq
<1>8. Len(f.data) = l /\ add33(f.data) = d
  BY <1>6, <1>7, Sub33Type, Add33UndoesSub33
<1> QED BY <1>1, <1>3, <1>4, <1>5, <1>6, <1>8 DEF ReadBack

LEMMA FramedIsBare ==
  ASSUME NEW b \in Seq(Byte), NEW p \in Nat, NEW l \in Byte, l = b[p + 10],
         p + 12 <= Len(b), Framed(b, p), NEW f \in Frame, f = FrameAt(b, p)
  PROVE  \A i \in 1..(12 + l) : Bare(f)[i] = b[p + i]
<1>1. /\ l \in Nat /\ l <= 255 /\ Len(f.data) = l /\ (p + 12) + l <= Len(b)
      /\ f.control = b[p + 9]
      /\ \A i \in 1..6 : f.address[i] = b[(p + 1) + i]
      /\ \A i \in 1..l : add33(f.data)[i] = b[(p + 10) + i]
      /\ b[p + 1] = FRAME_START /\ b[p + 8] = FRAME_START
      /\ b[(p + 11) + l] = calc_checksum(SubSeq(b, p + 1, p + (10 + l)))
      /\ b[(p + 12) + l] = FRAME_END
  <2>1. b \in Seq(Byte) /\ p \in Nat /\ l \in Byte /\ f \in Frame
    OBVIOUS
  <2>2. l = b[p + 10] /\ p + 12 <= Len(b) /\ Framed(b, p) /\ f = FrameAt(b, p)
    OBVIOUS
  <2>3. ReadBack(b, p, l, f)
    BY <2>1, <2>2, FramedBytes
  <2> QED BY <2>3 DEF ReadBack
<1>2. f \in Frame
  OBVIOUS
<1>0. l \in Nat /\ (p + 12) + l <= Len(b) /\ Len(b) \in Nat
  BY <1>1
<1>3. /\ Body(f) \in Bytes(10 + l)
      /\ Body(f)[1] = FRAME_START /\ Body(f)[8] = FRAME_START
      /\ Body(f)[9] = f.control /\ Body(f)[10] = l
      /\ \A i \in 2..7 : Body(f)[i] = f.address[i - 1]
      /\ \A i \in 11..(10 + l) : Body(f)[i] = add33(f.data)[i - 10]
  BY <1>1, <1>2, BodyType
<1>4. ASSUME NEW i \in 1..(10 + l) PROVE Body(f)[i] = b[p + i]
  <2>1. CASE i \in {1, 8, 9, 10}
    BY <1>1, <1>3, <2>1
  <2>2. CASE i \in 2..7
    <3>1. i - 1 \in 1..6 /\ (p + 1) + (i - 1) = p + i
      BY <2>2
    <3> QED BY <1>1, <1>3, <2>2, <3>1
  <2>3. CASE i \in 11..(10 + l)
    <3>1. i - 10 \in 1..l /\ (p + 10) + (i - 10) = p + i
      BY <1>0, <2>3
    <3> QED BY <1>1, <1>3, <2>3, <3>1
  <2>4. i \in {1, 8, 9, 10} \/ i \in 2..7 \/ i \in 11..(10 + l)
    BY <1>0
  <2> QED BY <2>1, <2>2, <2>3, <2>4
<1>5. SubSeq(b, p + 1, p + (10 + l)) = Body(f)
  <2> DEFINE x == SubSeq(b, p + 1, p + (10 + l))
  <2>1. 10 + l \in Nat /\ p + (10 + l) <= Len(b)
    BY <1>0
  <2>2. x \in Bytes(10 + l) /\ \A i \in 1..(10 + l) : x[i] = b[p + i]
    BY <2>1, SliceBytes
  <2> HIDE DEF x
  <2>3. x = Body(f)
    BY <1>3, <1>4, <2>2, SameBytes
  <2> QED BY <2>3 DEF x
<1>6. /\ \A i \in 1..(10 + l) : Bare(f)[i] = Body(f)[i]
      /\ Bare(f)[11 + l] = calc_checksum(Body(f))
      /\ Bare(f)[12 + l] = FRAME_END
  BY <1>1, <1>2, BareBytes
<1>7. ASSUME NEW i \in 1..(12 + l) PROVE Bare(f)[i] = b[p + i]
  <2>1. i \in 1..(10 + l) \/ i = 11 + l \/ i = 12 + l
    BY <1>0
  <2>2. (p + 11) + l = p + (11 + l) /\ (p + 12) + l = p + (12 + l)
    BY <1>0
  <2> QED BY <1>1, <1>4, <1>5, <1>6, <2>1, <2>2
<1> QED BY <1>7

\* What decode() takes for a frame is, byte for byte, some preambles and the
\* encoding of the frame it returns: the lengths, the masked data and the
\* checksum agree, and no byte of it is ignored.
THEOREM DecodedIsEncoded ==
  ASSUME NEW b \in Seq(Byte), decode(b) # <<>>,
         NEW f, f = decode(b)[1].frame, NEW n, n = decode(b)[1].bytes_consumed
  PROVE  /\ f \in Frame /\ Len(f.data) <= 255
         /\ \E p \in Nat : /\ n = p + 12 + Len(f.data)
                           /\ SubSeq(b, 1, n) = Preambles(p) \o Bare(f)
<1> DEFINE p == LeadingPreambles(b)
           l == b[p + 10]
<1>1. /\ IsLeading(p, b) /\ Framed(b, p) /\ p + 12 <= Len(b) /\ l \in Byte
      /\ f = FrameAt(b, p) /\ n = p + 12 + l
  BY DecodeSucceeds
<1>2. p \in Nat /\ \A i \in 1..p : b[i] = PREAMBLE
  BY <1>1 DEF IsLeading
<1>3. f \in Frame
  BY DecodedFrame
<1>4. l = b[p + 10]
  OBVIOUS
<1> HIDE DEF p, l
<1>5. l \in Nat /\ l <= 255 /\ Len(f.data) = l /\ (p + 12) + l <= Len(b)
  <2>1. Framed(b, p) /\ p + 12 <= Len(b) /\ f = FrameAt(b, p)
    BY <1>1
  <2>2. p \in Nat
    BY <1>2
  <2>3. l \in Byte
    BY <1>1
  <2>4. ReadBack(b, p, l, f)
    BY <1>3, <1>4, <2>1, <2>2, <2>3, FramedBytes
  <2> QED BY <2>4 DEF ReadBack
<1>6. \A i \in 1..(12 + l) : Bare(f)[i] = b[p + i]
  BY <1>1, <1>2, <1>3, <1>4, FramedIsBare
<1> DEFINE k == 12 + l
           w == Cat(Preambles(p), Bare(f))
           x == SubSeq(b, 0 + 1, 0 + (p + k))
<1>7. k \in Nat /\ Bare(f) \in Bytes(k)
  BY <1>3, <1>5, BareBytes
<1>8. n = p + k /\ p + k \in Nat /\ p + k <= Len(b) /\ 0 + (p + k) = n /\ 0 + 1 = 1
  BY <1>1, <1>2, <1>5
<1>9. /\ w \in Bytes(p + k)
      /\ \A i \in 1..p : w[i] = PREAMBLE
      /\ \A i \in (p + 1)..(p + k) : w[i] = Bare(f)[i - p]
  <2> HIDE DEF k
  <2>1. Preambles(p) \in Bytes(p) /\ \A i \in 1..p : Preambles(p)[i] = PREAMBLE
    BY <1>2, PreambleBytes
  <2>2. /\ w \in Bytes(p + k)
        /\ \A i \in 1..p : w[i] = Preambles(p)[i]
        /\ \A i \in (p + 1)..(p + k) : w[i] = Bare(f)[i - p]
    BY <1>2, <1>7, <2>1, CatBytes
  <2> QED BY <2>1, <2>2
<1>10. x \in Bytes(p + k) /\ \A i \in 1..(p + k) : x[i] = b[0 + i]
  <2> DEFINE m == p + k
  <2>1. m \in Nat /\ 0 \in Nat /\ 0 + m <= Len(b)
    BY <1>8
  <2> HIDE DEF m
  <2>2. SubSeq(b, 0 + 1, 0 + m) \in Bytes(m) /\ \A i \in 1..m : SubSeq(b, 0 + 1, 0 + m)[i] = b[0 + i]
    BY <2>1, SliceBytes
  <2> QED BY <2>2 DEF m
<1> HIDE DEF w, x, k
<1>11. ASSUME NEW i \in 1..(p + k) PROVE x[i] = w[i]
  <2>1. 0 + i = i
    OBVIOUS
  <2>2. CASE i \in 1..p
    BY <1>2, <1>9, <1>10, <2>1, <2>2
  <2>3. CASE i \in (p + 1)..(p + k)
    <3>1. i - p \in 1..(12 + l) /\ p + (i - p) = i
      BY <1>2, <1>7, <2>3 DEF k
    <3> QED BY <1>6, <1>9, <1>10, <2>1, <2>3, <3>1
  <2>4. i \in 1..p \/ i \in (p + 1)..(p + k)
    BY <1>2, <1>7
  <2> QED BY <2>2, <2>3, <2>4
<1>12. x = w
  BY <1>9, <1>10, <1>11, SameBytes
<1>13. SubSeq(b, 1, n) = Preambles(p) \o Bare(f)
  BY <1>8, <1>12 DEF x, w, Cat
<1>14. n = p + 12 + Len(f.data)
  BY <1>1, <1>5
<1> QED BY <1>2, <1>3, <1>5, <1>13, <1>14
=============================================================================
