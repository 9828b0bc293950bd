--------------------------- MODULE BcdCodecProofs ---------------------------
(***************************************************************************)
(* What the packed decimal codec, addresses and data identifiers do to     *)
(* every input, whatever the width of the codec's integer.                 *)
(***************************************************************************)
EXTENDS BcdCodec, Identifiers, NatRecursion, SequenceTheorems, TLAPS

Byte  == 0..255
Value == 0..MaxValue \cup {Refused}

LEMMA ByteDigits ==
  ASSUME NEW b \in Byte
  PROVE  /\ bcd_byte_to_value(b) \in Nat
         /\ is_valid_bcd_byte(b) => bcd_byte_to_value(b) \in 0..99
BY DEF Byte, bcd_byte_to_value, is_valid_bcd_byte

\* The two digits of a number below 100 make a byte that stands for it.
LEMMA DigitsByte ==
  ASSUME NEW n \in 0..99
  PROVE  /\ bcd_byte(n) \in Byte
         /\ is_valid_bcd_byte(bcd_byte(n))
         /\ bcd_byte_to_value(bcd_byte(n)) = n
<1> DEFINE d == n \div 10
           e == n % 10
<1>1. d \in 0..9
  OBVIOUS
<1>2. e \in 0..9
  OBVIOUS
<1>3. n = 10 * d + e
  OBVIOUS
<1>4. bcd_byte(n) = 16 * d + e
  BY DEF bcd_byte
<1> HIDE DEF d, e
<1>5. (16 * d + e) \div 16 = d
  BY <1>1, <1>2
<1>6. (16 * d + e) % 16 = e
  BY <1>1, <1>2
<1>7. 16 * d + e \in Byte
  BY <1>1, <1>2 DEF Byte
<1> QED BY <1>1, <1>2, <1>3, <1>4, <1>5, <1>6, <1>7
        DEF is_valid_bcd_byte, bcd_byte_to_value

(***************************************************************************)
(* The loop of decode().                                                   *)
(***************************************************************************)
LEMMA AccumulateType ==
  ASSUME NEW v \in Value, NEW b \in Byte
  PROVE  Accumulate(v, b) \in Value
<1>1. CASE v = Refused \/ ~is_valid_bcd_byte(b) \/ v > MaxValue \div 100
  BY <1>1 DEF Accumulate, Value
<1>2. CASE ~(v = Refused \/ ~is_valid_bcd_byte(b) \/ v > MaxValue \div 100)
  <2> DEFINE x == v * 100 + bcd_byte_to_value(b)
  <2>1. x \in Nat
    BY <1>2, ByteDigits, MaxValueAssumption DEF Value
  <2>2. Accumulate(v, b) = x % (MaxValue + 1)
    BY <1>2 DEF Accumulate
  <2> HIDE DEF x
  <2>3. x % (MaxValue + 1) \in 0..MaxValue
    BY <2>1, MaxValueAssumption
  <2> QED BY <2>2, <2>3 DEF Value
<1> QED BY <1>1, <1>2

\* While the number fits, a turn adds two digits and nothing wraps.
LEMMA AccumulateExact ==
  ASSUME NEW v \in Nat, NEW b \in Byte, is_valid_bcd_byte(b),
         v * 100 + bcd_byte_to_value(b) <= MaxValue
  PROVE  Accumulate(v, b) = v * 100 + bcd_byte_to_value(b)
<1>1. bcd_byte_to_value(b) \in 0..99 /\ MaxValue \in Nat
  BY ByteDigits, MaxValueAssumption
<1>2. ~(v > MaxValue \div 100) /\ v # Refused
  BY <1>1 DEF Refused
<1>3. Accumulate(v, b) = (v * 100 + bcd_byte_to_value(b)) % (MaxValue + 1)
  BY <1>2 DEF Accumulate
<1> DEFINE x == v * 100 + bcd_byte_to_value(b)
<1>4. x \in 0..MaxValue
  BY <1>1
<1> HIDE DEF x
<1>5. x % (MaxValue + 1) = x
  BY <1>1, <1>4
<1> QED BY <1>3, <1>5 DEF x

\* The values of the loop of decode(), one per byte taken.
IsDecoding(p, s) ==
  /\ p \in [0..Len(s) -> Value]
  /\ p[0] = 0
  /\ \A k \in 1..Len(s) : p[k] = Accumulate(p[k - 1], s[k])

LEMMA DecodeLoop ==
  ASSUME NEW s \in Seq(Byte)
  PROVE  \E p : IsDecoding(p, s) /\ decode(s) = IF p[Len(s)] = Refused THEN 0 ELSE p[Len(s)]
<1> DEFINE step == [k \in 1..Len(s) |-> [x \in Value |-> Accumulate(x, s[k])]]
<1>1. 0 \in Value /\ Len(s) \in Nat
  BY MaxValueAssumption DEF Value
<1>2. step \in [1..Len(s) -> [Value -> Value]]
  BY AccumulateType
<1>3. PICK q : IsIterate(q, Value, 0, step, Len(s))
  <2> HIDE DEF step
  <2> QED BY <1>1, <1>2, IterateExists
<1> DEFINE R(r) == [k \in 0..Len(s) |-> IF k = 0 THEN 0 ELSE Accumulate(r[k - 1], s[k])]
           p == CHOOSE r : r = R(r)
<1>4. q = R(q)
  <2>1. q \in [0..Len(s) -> Value] /\ q[0] = 0
    BY <1>3 DEF IsIterate
  <2>2. ASSUME NEW k \in 1..Len(s) PROVE q[k] = Accumulate(q[k - 1], s[k])
    <3>1. q[k - 1] \in Value
      BY <1>1, <2>1
    <3>2. q[k] = step[k][q[k - 1]]
      <4> HIDE DEF step
      <4> QED BY <1>3 DEF IsIterate
    <3> QED BY <3>1, <3>2
  <2> QED BY <1>1, <2>1, <2>2
<1>5. p = R(p)
  <2> HIDE DEF R
  <2> QED BY <1>4
<1>6. decode(s) = IF p[Len(s)] = Refused THEN 0 ELSE p[Len(s)]
  BY DEF decode
<1> HIDE DEF p
<1>7. /\ R(p)[0] = 0
      /\ \A k \in 1..Len(s) : R(p)[k] = Accumulate(p[k - 1], s[k])
      /\ DOMAIN R(p) = 0..Len(s) /\ R(p) = [k \in DOMAIN R(p) |-> R(p)[k]]
  BY <1>1
<1> HIDE DEF R
<1>8. p[0] = 0 /\ \A k \in 1..Len(s) : p[k] = Accumulate(p[k - 1], s[k])
  BY <1>5, <1>7
<1> DEFINE G == {k \in 0..Len(s) : p[k] \in Value}
<1>9. 0 \in G /\ \A k \in 1..Len(s) : k - 1 \in G => k \in G
  <2>1. 0 \in G
    BY <1>1, <1>8
  <2>2. ASSUME NEW k \in 1..Len(s), p[k - 1] \in Value PROVE p[k] \in Value
    <3>1. step[k] \in [Value -> Value] /\ step[k][p[k - 1]] = Accumulate(p[k - 1], s[k])
      BY <1>2, <2>2
    <3> HIDE DEF step
    <3> QED BY <1>8, <2>2, <3>1
  <2> QED BY <1>1, <2>1, <2>2
<1>10. 0..Len(s) \subseteq G
  <2> HIDE DEF G
  <2> QED BY <1>1, <1>9, UpTo
<1>11. p \in [0..Len(s) -> Value]
  BY <1>5, <1>7, <1>10
<1> QED BY <1>6, <1>8, <1>11 DEF IsDecoding

\* The numbers the first digits stand for.
IsNumbering(p, s) ==
  /\ p \in [0..Len(s) -> Nat]
  /\ p[0] = 0
  /\ \A k \in 1..Len(s) : p[k] = p[k - 1] * 100 + bcd_byte_to_value(s[k])

LEMMA NumberLoop ==
  ASSUME NEW s \in Seq(Byte)
  PROVE  \E p : IsNumbering(p, s) /\ Number(s) = p[Len(s)]
<1> DEFINE step == [k \in 1..Len(s) |-> [x \in Nat |-> x * 100 + bcd_byte_to_value(s[k])]]
<1>1. 0 \in Nat /\ Len(s) \in Nat
  OBVIOUS
<1>2. step \in [1..Len(s) -> [Nat -> Nat]]
  BY ByteDigits
<1>3. PICK q : IsIterate(q, Nat, 0, step, Len(s))
  <2> HIDE DEF step
  <2> QED BY <1>1, <1>2, IterateExists
<1> DEFINE R(r) == [k \in 0..Len(s) |-> IF k = 0 THEN 0 ELSE r[k - 1] * 100 + bcd_byte_to_value(s[k])]
           p == CHOOSE r : r = R(r)
<1>4. q = R(q)
  <2>1. q \in [0..Len(s) -> Nat] /\ q[0] = 0
    BY <1>3 DEF IsIterate
  <2>2. ASSUME NEW k \in 1..Len(s) PROVE q[k] = q[k - 1] * 100 + bcd_byte_to_value(s[k])
    <3>1. q[k - 1] \in Nat
      BY <1>1, <2>1
    <3>2. q[k] = step[k][q[k - 1]]
      <4> HIDE DEF step
      <4> QED BY <1>3 DEF IsIterate
    <3> QED BY <3>1, <3>2
  <2> QED BY <1>1, <2>1, <2>2
<1>5. p = R(p)
  <2> HIDE DEF R
  <2> QED BY <1>4
<1>6. Number(s) = p[Len(s)]
  BY DEF Number
<1> HIDE DEF p
<1>7. /\ R(p)[0] = 0
      /\ \A k \in 1..Len(s) : R(p)[k] = p[k - 1] * 100 + bcd_byte_to_value(s[k])
      /\ DOMAIN R(p) = 0..Len(s) /\ R(p) = [k \in DOMAIN R(p) |-> R(p)[k]]
  BY <1>1
<1> HIDE DEF R
<1>8. p[0] = 0 /\ \A k \in 1..Len(s) : p[k] = p[k - 1] * 100 + bcd_byte_to_value(s[k])
  BY <1>5, <1>7
<1> DEFINE G == {k \in 0..Len(s) : p[k] \in Nat}
<1>9. 0 \in G /\ \A k \in 1..Len(s) : k - 1 \in G => k \in G
  <2>1. 0 \in G
    BY <1>1, <1>8
  <2>2. ASSUME NEW k \in 1..Len(s), p[k - 1] \in Nat PROVE p[k] \in Nat
    <3>1. step[k] \in [Nat -> Nat] /\ step[k][p[k - 1]] = p[k - 1] * 100 + bcd_byte_to_value(s[k])
      BY <1>2, <2>2
    <3> HIDE DEF step
    <3> QED BY <1>8, <2>2, <3>1
  <2> QED BY <1>1, <2>1, <2>2
<1>10. 0..Len(s) \subseteq G
  <2> HIDE DEF G
  <2> QED BY <1>1, <1>9, UpTo
<1>11. p \in [0..Len(s) -> Nat]
  BY <1>5, <1>7, <1>10
<1> QED BY <1>6, <1>8, <1>11 DEF IsNumbering

\* What is left of the number when k bytes have been written.
IsSplitting(p, v, len) ==
  /\ p \in [0..len -> Nat]
  /\ p[0] = v
  /\ \A k \in 1..len : p[k] = p[k - 1] \div 100

LEMMA EncodeLoop ==
  ASSUME NEW v \in Nat, NEW len \in Nat
  PROVE  \E p : IsSplitting(p, v, len) /\ encode(v, len) = [i \in 1..len |-> bcd_byte(p[len - i] % 100)]
<1> DEFINE step == [k \in 1..len |-> [x \in Nat |-> x \div 100]]
<1>1. v \in Nat /\ len \in Nat
  OBVIOUS
<1>2. step \in [1..len -> [Nat -> Nat]]
  OBVIOUS
<1>3. PICK q : IsIterate(q, Nat, v, step, len)
  <2> HIDE DEF step
  <2> QED BY <1>1, <1>2, IterateExists
<1> DEFINE R(r) == [k \in 0..len |-> IF k = 0 THEN v ELSE r[k - 1] \div 100]
           p == CHOOSE r : r = R(r)
<1>4. q = R(q)
  <2>1. q \in [0..len -> Nat] /\ q[0] = v
    BY <1>3 DEF IsIterate
  <2>2. ASSUME NEW k \in 1..len PROVE q[k] = q[k - 1] \div 100
    <3>1. q[k - 1] \in Nat
      BY <1>1, <2>1
    <3>2. q[k] = step[k][q[k - 1]]
      <4> HIDE DEF step
      <4> QED BY <1>3 DEF IsIterate
    <3> QED BY <3>1, <3>2
  <2> QED BY <1>1, <2>1, <2>2
<1>5. p = R(p)
  <2> HIDE DEF R
  <2> QED BY <1>4
<1>6. encode(v, len) = [i \in 1..len |-> bcd_byte(p[len - i] % 100)]
  BY DEF encode
<1> HIDE DEF p
<1>7. /\ R(p)[0] = v
      /\ \A k \in 1..len : R(p)[k] = p[k - 1] \div 100
      /\ DOMAIN R(p) = 0..len /\ R(p) = [k \in DOMAIN R(p) |-> R(p)[k]]
  BY <1>1
<1> HIDE DEF R
<1>8. p[0] = v /\ \A k \in 1..len : p[k] = p[k - 1] \div 100
  BY <1>5, <1>7
<1> DEFINE G == {k \in 0..len : p[k] \in Nat}
<1>9. 0 \in G /\ \A k \in 1..len : k - 1 \in G => k \in G
  <2>1. 0 \in G
    BY <1>1, <1>8
  <2>2. ASSUME NEW k \in 1..len, p[k - 1] \in Nat PROVE p[k] \in Nat
    <3>1. step[k] \in [Nat -> Nat] /\ step[k][p[k - 1]] = p[k - 1] \div 100
      BY <1>2, <2>2
    <3> HIDE DEF step
    <3> QED BY <1>8, <2>2, <3>1
  <2> QED BY <1>1, <2>1, <2>2
<1>10. 0..len \subseteq G
  <2> HIDE DEF G
  <2> QED BY <1>1, <1>9, UpTo
<1>11. p \in [0..len -> Nat]
  BY <1>5, <1>7, <1>10
<1> QED BY <1>6, <1>8, <1>11 DEF IsSplitting

(***************************************************************************)
(* What decode() returns.                                                  *)
(***************************************************************************)
\* decode() never returns more than its integer holds.
THEOREM DecodeInRange ==
  ASSUME NEW s \in Seq(Byte)
  PROVE  decode(s) \in 0..MaxValue
<1>1. PICK p : IsDecoding(p, s) /\ decode(s) = IF p[Len(s)] = Refused THEN 0 ELSE p[Len(s)]
  BY DecodeLoop
<1>2. p[Len(s)] \in Value
  BY <1>1 DEF IsDecoding
<1> QED BY <1>1, <1>2, MaxValueAssumption DEF Value

\* A number that fits is decoded exactly: on the way there neither the test
\* against max / 100 refuses it nor the sum wraps.  (A number that does not fit
\* may wrap: max / 100 passes the test whatever digits follow.)
THEOREM DecodeExactly ==
  ASSUME NEW s \in Seq(Byte), AllBcd(s), Number(s) <= MaxValue
  PROVE  decode(s) = Number(s)
<1> DEFINE n == Len(s)
<1>0. n \in Nat /\ MaxValue \in Nat /\ \A k \in 1..n : s[k] \in Byte /\ is_valid_bcd_byte(s[k])
  BY MaxValueAssumption DEF AllBcd
<1>1. PICK p : IsDecoding(p, s) /\ decode(s) = IF p[n] = Refused THEN 0 ELSE p[n]
  BY DecodeLoop
<1>2. PICK q : IsNumbering(q, s) /\ Number(s) = q[n]
  BY NumberLoop
<1> HIDE DEF n
<1> DEFINE Small == {k \in 0..n : q[n - k] <= MaxValue}
<1>3. 0..n \subseteq Small
  <2>1. 0 \in Small
    BY <1>0, <1>2
  <2>2. ASSUME NEW k \in 1..n, q[n - (k - 1)] <= MaxValue
        PROVE  q[n - k] <= MaxValue
    <3>1. n - k + 1 \in 1..n /\ n - (k - 1) = n - k + 1 /\ n - k + 1 - 1 = n - k
          /\ n - k \in 0..n
      BY <1>0
    <3>2. q[n - k + 1] = q[n - k] * 100 + bcd_byte_to_value(s[n - k + 1])
      BY <1>2, <3>1 DEF IsNumbering, n
    <3>3. q[n - k] \in Nat
      BY <1>2, <3>1 DEF IsNumbering, n
    <3>4. bcd_byte_to_value(s[n - k + 1]) \in 0..99
      BY <1>0, <3>1, ByteDigits
    <3>5. q[n - k + 1] <= MaxValue
      BY <2>2, <3>1
    <3>6. q[n - k] * 100 + bcd_byte_to_value(s[n - k + 1]) <= MaxValue
      BY <3>2, <3>5
    <3> DEFINE x == q[n - k]
               y == bcd_byte_to_value(s[n - k + 1])
    <3>7. x \in Nat
      BY <3>3
    <3>8. y \in 0..99
      BY <3>4
    <3>9. x * 100 + y <= MaxValue
      BY <3>6, Zenon
    <3> HIDE DEF x, y
    <3>10. x <= MaxValue
      BY <1>0, <3>7, <3>8, <3>9
    <3> QED BY <3>10 DEF x
  <2>3. \A k \in 1..n : k - 1 \in Small => k \in Small
    BY <1>0, <2>2
  <2> HIDE DEF Small
  <2> QED BY <1>0, <2>1, <2>3, UpTo
<1>4. ASSUME NEW k \in 0..n PROVE q[k] <= MaxValue /\ q[k] \in Nat
  <2>1. n - k \in 0..n /\ n - (n - k) = k
    BY <1>0
  <2>2. q[n - (n - k)] <= MaxValue
    BY <1>3, <2>1
  <2> QED BY <1>2, <2>1, <2>2 DEF IsNumbering, n
<1> DEFINE Same == {k \in 0..n : p[k] = q[k]}
<1>5. 0..n \subseteq Same
  <2>1. 0 \in Same
    BY <1>0, <1>1, <1>2 DEF IsDecoding, IsNumbering
  <2>2. ASSUME NEW k \in 1..n, p[k - 1] = q[k - 1]
        PROVE  p[k] = q[k]
    <3>1. k - 1 \in 0..n /\ k \in 0..n
      BY <1>0
    <3>2. p[k] = Accumulate(q[k - 1], s[k])
      BY <1>1, <2>2 DEF IsDecoding, n
    <3>3. q[k] = q[k - 1] * 100 + bcd_byte_to_value(s[k])
      BY <1>2 DEF IsNumbering, n
    <3>4. q[k - 1] * 100 + bcd_byte_to_value(s[k]) <= MaxValue
      BY <1>4, <3>1, <3>3
    <3>5. q[k - 1] \in Nat
      BY <1>4, <3>1
    <3> QED BY <1>0, <3>2, <3>3, <3>4, <3>5, AccumulateExact
  <2>3. \A k \in 1..n : k - 1 \in Same => k \in Same
    BY <1>0, <2>2
  <2> HIDE DEF Same
  <2> QED BY <1>0, <2>1, <2>3, UpTo
<1>6. p[n] = q[n] /\ q[n] # Refused
  BY <1>0, <1>4, <1>5 DEF Refused
<1> QED BY <1>1, <1>2, <1>6

\* One byte that is not BCD, wherever it stands, and the result is zero: the
\* caller cannot tell it from a reading of zero.
THEOREM NotBcdIsZero ==
  ASSUME NEW s \in Seq(Byte), ~AllBcd(s)
  PROVE  decode(s) = 0
<1> DEFINE n == Len(s)
<1>1. PICK p : IsDecoding(p, s) /\ decode(s) = IF p[n] = Refused THEN 0 ELSE p[n]
  BY DecodeLoop
<1>2. PICK b \in 1..n : ~is_valid_bcd_byte(s[b])
  BY DEF AllBcd
<1>3. n \in Nat /\ \A k \in 1..n : p[k] = Accumulate(p[k - 1], s[k])
  BY <1>1 DEF IsDecoding
<1> HIDE DEF n
<1> DEFINE G == {k \in 0..n : k >= b => p[k] = Refused}
<1>4. 0 \in G
  BY <1>3
<1>5. ASSUME NEW k \in 1..n, k - 1 \in G PROVE k \in G
  <2>1. CASE k = b
    BY <1>2, <1>3, <2>1 DEF Accumulate
  <2>2. CASE k > b
    <3>1. p[k - 1] = Refused
      BY <1>5, <2>2
    <3> QED BY <1>3, <3>1 DEF Accumulate
  <2>3. CASE k < b
    BY <2>3
  <2> QED BY <2>1, <2>2, <2>3
<1>6. 0..n \subseteq G
  <2> HIDE DEF G
  <2> QED BY <1>3, <1>4, <1>5, UpTo
<1>7. p[n] = Refused
  BY <1>3, <1>6
<1> QED BY <1>1, <1>7

\* Values of a meter, least significant byte first.
LEMMA ReversedBytes ==
  ASSUME NEW s \in Seq(Byte)
  PROVE  /\ Reversed(s) \in Seq(Byte)
         /\ AllBcd(s) <=> AllBcd(Reversed(s))
<1> DEFINE n == Len(s)
<1>1. n \in Nat /\ DOMAIN s = 1..n /\ \A k \in 1..n : s[k] \in Byte
  OBVIOUS
<1>2. Reversed(s) = [k \in 1..n |-> s[n + 1 - k]]
  BY DEF Reversed
<1> HIDE DEF n
<1>3. Reversed(s) \in Seq(Byte) /\ DOMAIN Reversed(s) = 1..n
  <2>1. \A k \in 1..n : n + 1 - k \in 1..n
    BY <1>1
  <2>2. \A k \in 1..n : s[n + 1 - k] \in Byte
    BY <1>1, <2>1
  <2>3. [k \in 1..n |-> s[n + 1 - k]] \in Seq(Byte)
    BY <1>1, <2>2
  <2> QED BY <1>2, <2>3
<1>4. AllBcd(s) => AllBcd(Reversed(s))
  BY <1>1, <1>2, <1>3 DEF AllBcd
<1>5. ASSUME AllBcd(Reversed(s)), NEW k \in 1..n PROVE is_valid_bcd_byte(s[k])
  <2>1. n + 1 - k \in 1..n /\ n + 1 - (n + 1 - k) = k
    BY <1>1
  <2>2. is_valid_bcd_byte(Reversed(s)[n + 1 - k])
    BY <1>3, <1>5, <2>1 DEF AllBcd
  <2>3. Reversed(s)[n + 1 - k] = s[k]
    BY <1>2, <2>1
  <2> QED BY <2>2, <2>3
<1> QED BY <1>1, <1>3, <1>4, <1>5 DEF AllBcd

\* The value of an answer is the number its bytes stand for, the lowest byte
\* first, whenever they are digits and the number fits.
THEOREM ValueExact ==
  ASSUME NEW raw \in Seq(Byte), raw # <<>>, AllBcd(raw),
         Number(Reversed(raw)) <= MaxValue
  PROVE  decode_value(raw) = Number(Reversed(raw))
BY ReversedBytes, DecodeExactly DEF decode_value, decode_float

(***************************************************************************)
(* encode().                                                               *)
(***************************************************************************)
\* v has at most 2 * len digits: dividing it by 100 len times leaves nothing.
Fits(v, len) == \E p : IsSplitting(p, v, len) /\ p[len] = 0

LEMMA SplittingUnique ==
  ASSUME NEW v \in Nat, NEW len \in Nat, NEW p, IsSplitting(p, v, len),
         NEW q, IsSplitting(q, v, len)
  PROVE  \A k \in 0..len : p[k] = q[k]
<1> DEFINE G == {k \in 0..len : p[k] = q[k]}
<1>1. 0 \in G /\ \A k \in 1..len : k - 1 \in G => k \in G
  BY DEF IsSplitting
<1>2. 0..len \subseteq G
  <2> HIDE DEF G
  <2> QED BY <1>1, UpTo
<1> QED BY <1>2

\* decode() takes back what encode() does to a number that fits.
THEOREM EncodeThenDecode ==
  ASSUME NEW v \in 0..MaxValue, NEW len \in Nat, Fits(v, len)
  PROVE  decode(encode(v, len)) = v
<1>0. MaxValue \in Nat /\ v \in Nat
  BY MaxValueAssumption
<1>1. PICK p : /\ IsSplitting(p, v, len)
              /\ encode(v, len) = [i \in 1..len |-> bcd_byte(p[len - i] % 100)]
  BY <1>0, EncodeLoop
<1>2. p[len] = 0
  BY <1>0, <1>1, SplittingUnique DEF Fits
<1>3. p \in [0..len -> Nat] /\ p[0] = v /\ \A k \in 1..len : p[k] = p[k - 1] \div 100
  BY <1>1 DEF IsSplitting
<1> DEFINE s == encode(v, len)
<1>4. ASSUME NEW k \in 1..len
      PROVE  /\ len - k \in 0..len
             /\ s[k] \in Byte /\ is_valid_bcd_byte(s[k])
             /\ bcd_byte_to_value(s[k]) = p[len - k] % 100
  <2>1. len - k \in 0..len /\ s[k] = bcd_byte(p[len - k] % 100)
    BY <1>1
  <2>2. p[len - k] \in Nat
    BY <1>3, <2>1
  <2>3. p[len - k] % 100 \in 0..99
    BY <2>2
  <2> QED BY <2>1, <2>3, DigitsByte
<1>5. s \in Seq(Byte) /\ Len(s) = len
  <2>1. \A k \in 1..len : bcd_byte(p[len - k] % 100) \in Byte
    BY <1>1, <1>4
  <2>2. [i \in 1..len |-> bcd_byte(p[len - i] % 100)] \in Seq(Byte)
    BY <2>1
  <2> QED BY <1>1, <2>2
<1>6. PICK d : IsDecoding(d, s) /\ decode(s) = IF d[Len(s)] = Refused THEN 0 ELSE d[Len(s)]
  BY <1>5, DecodeLoop
<1>7. d[0] = 0 /\ \A k \in 1..len : d[k] = Accumulate(d[k - 1], s[k])
  BY <1>5, <1>6 DEF IsDecoding
<1> HIDE DEF s
<1> DEFINE Low == {k \in 0..len : p[k] <= MaxValue}
<1>8. 0..len \subseteq Low
  <2>1. 0 \in Low
    BY <1>0, <1>3
  <2>2. ASSUME NEW k \in 1..len, p[k - 1] <= MaxValue PROVE p[k] <= MaxValue
    <3>1. p[k - 1] \in Nat /\ p[k] = p[k - 1] \div 100
      BY <1>3
    <3> QED BY <1>0, <2>2, <3>1
  <2>3. \A k \in 1..len : k - 1 \in Low => k \in Low
    BY <2>2
  <2> HIDE DEF Low
  <2> QED BY <2>1, <2>3, UpTo
<1> DEFINE G == {k \in 0..len : d[k] = p[len - k]}
<1>9. 0..len \subseteq G
  <2>1. 0 \in G
    BY <1>2, <1>7
  <2>2. ASSUME NEW k \in 1..len, d[k - 1] = p[len - (k - 1)]
        PROVE  d[k] = p[len - k]
    <3> DEFINE x == p[len - k]
    <3>1. len - (k - 1) \in 1..len /\ len - (k - 1) - 1 = len - k /\ len - k \in 0..len
      OBVIOUS
    <3>2. p[len - (k - 1)] = x \div 100
      BY <1>3, <3>1
    <3>3. x \in Nat /\ x <= MaxValue
      BY <1>3, <1>8, <3>1
    <3>4. d[k] = Accumulate(x \div 100, s[k])
      BY <1>7, <2>2, <3>2
    <3>5. bcd_byte_to_value(s[k]) = x % 100 /\ s[k] \in Byte /\ is_valid_bcd_byte(s[k])
      BY <1>4
    <3> HIDE DEF x
    <3>6. x \div 100 \in Nat /\ (x \div 100) * 100 + (x % 100) = x
      BY <3>3
    <3>7. Accumulate(x \div 100, s[k]) = x
      BY <3>3, <3>5, <3>6, AccumulateExact
    <3> QED BY <3>4, <3>7 DEF x
  <2>3. \A k \in 1..len : k - 1 \in G => k \in G
    BY <2>2
  <2> HIDE DEF G
  <2> QED BY <2>1, <2>3, UpTo
<1>10. d[len] = p[0]
  BY <1>9
<1>11. d[len] # Refused
  BY <1>0, <1>3, <1>10 DEF Refused
<1> QED BY <1>3, <1>5, <1>6, <1>10, <1>11 DEF s

(***************************************************************************)
(* Addresses and data identifiers.                                         *)
(***************************************************************************)
LEMMA Halves ==
  ASSUME NEW x \in 0..15, NEW y \in 0..15
  PROVE  (x * 16 + y) \div 16 = x /\ (x * 16 + y) % 16 = y
OBVIOUS

\* An address that is accepted is printed, in the log and in topics, just as it
\* was configured, although its bytes are kept in the opposite order.
THEOREM AddressReadBack ==
  ASSUME NEW str \in Seq(Character), NEW address, from_string(str) = <<address>>
  PROVE  to_string(address) = str
<1>1. /\ Len(str) = 12 /\ \A k \in 1..12 : str[k] # NotHex
      /\ address = BytesOf(str)
  BY DEF from_string
<1>2. ASSUME NEW k \in 1..12 PROVE str[k] \in 0..15
  <2>1. str[k] \in Character
    <3>1. \A n \in 1..Len(str) : str[n] \in Character
      OBVIOUS
    <3>2. k \in 1..Len(str)
      BY <1>1, Zenon
    <3> QED BY <3>1, <3>2, Zenon
  <2>2. str[k] # NotHex
    BY <1>1
  <2> QED BY <2>1, <2>2 DEF Character, NotHex
<1>3. \A i \in 1..6 : address[i] = str[13 - 2 * i] * 16 + str[14 - 2 * i]
  BY <1>1 DEF BytesOf
<1>4. ASSUME NEW k \in 1..12 PROVE to_string(address)[k] = str[k]
  <2> DEFINE i == 6 - ((k - 1) \div 2)
  <2>1. i \in 1..6 /\ 13 - 2 * i \in 1..12 /\ 14 - 2 * i \in 1..12
    OBVIOUS
  <2>2. to_string(address)[k] = IF k % 2 = 1 THEN address[i] \div 16 ELSE address[i] % 16
    BY DEF to_string
  <2>3. (k % 2 = 1 /\ 13 - 2 * i = k) \/ (k % 2 # 1 /\ 14 - 2 * i = k)
    OBVIOUS
  <2> HIDE DEF i
  <2>4. /\ address[i] \div 16 = str[13 - 2 * i]
        /\ address[i] % 16 = str[14 - 2 * i]
    <3>1. address[i] = str[13 - 2 * i] * 16 + str[14 - 2 * i]
      BY <1>3, <2>1
    <3>2. str[13 - 2 * i] \in 0..15 /\ str[14 - 2 * i] \in 0..15
      BY <1>2, <2>1
    <3> QED BY <3>1, <3>2, Halves
  <2>5. CASE k % 2 = 1 /\ 13 - 2 * i = k
    BY <2>2, <2>4, <2>5
  <2>6. CASE k % 2 # 1 /\ 14 - 2 * i = k
    BY <2>2, <2>4, <2>6
  <2> QED BY <2>3, <2>5, <2>6
<1>5. DOMAIN to_string(address) = 1..12 /\ DOMAIN str = 1..12
      /\ to_string(address) = [k \in 1..12 |-> to_string(address)[k]]
  BY <1>1 DEF to_string
<1> QED BY <1>4, <1>5

\* The identifiers of 32 bits.
Di32 == {x \in Nat : Above(Above(Above(x))) \in 0..255}

LEMMA Digit256 ==
  ASSUME NEW x \in Nat, NEW y \in Nat, x % 256 = y % 256, Above(x) = Above(y)
  PROVE  x = y
BY DEF Above

\* Two items are never taken for one another by the comparison of the four
\* identifier bytes.
THEOREM DiBytesDistinct ==
  ASSUME NEW x \in Di32, NEW y \in Di32, encode_di(x) = encode_di(y)
  PROVE  x = y
<1> DEFINE x1 == Above(x)   x2 == Above(x1)   x3 == Above(x2)
           y1 == Above(y)   y2 == Above(y1)   y3 == Above(y2)
<1>1. x % 256 = y % 256 /\ x1 % 256 = y1 % 256 /\ x2 % 256 = y2 % 256 /\ x3 % 256 = y3 % 256
  BY DEF encode_di
<1>2. /\ x \in Nat /\ x1 \in Nat /\ x2 \in Nat /\ x3 \in 0..255
      /\ y \in Nat /\ y1 \in Nat /\ y2 \in Nat /\ y3 \in 0..255
  BY DEF Di32, Above
<1> HIDE DEF x1, x2, x3, y1, y2, y3
<1>3. x3 = y3
  <2>1. \A d \in 0..255 : d % 256 = d
    OBVIOUS
  <2> QED BY <1>1, <1>2, <2>1
<1>4. x2 = y2
  BY <1>1, <1>2, <1>3, Digit256 DEF x3, y3
<1>5. x1 = y1
  BY <1>1, <1>2, <1>4, Digit256 DEF x2, y2
<1> QED BY <1>1, <1>2, <1>5, Digit256 DEF x1, y1
=============================================================================
