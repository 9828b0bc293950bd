------------------------------ MODULE BcdCodec ------------------------------
(***************************************************************************)
(* Numbers in packed decimal, src/src/protocol/bcd_codec.cpp: two digits   *)
(* per byte, the high one in the high half.  decode() and encode() have    *)
(* the most significant byte first, the values of a meter the least        *)
(* significant one.  The scaling of decode_float(), a division by a power  *)
(* of ten in floating point, is left out: a value is its digits.           *)
(***************************************************************************)
EXTENDS Integers, Sequences

CONSTANT MaxValue      \* numeric_limits<uint64_t>::max()

ASSUME MaxValueAssumption == MaxValue \in Nat

Refused == -1          \* the loop returns early, with zero

is_valid_bcd_byte(b) == b \div 16 <= 9 /\ b % 16 <= 9
bcd_byte_to_value(b) == (b \div 16) * 10 + (b % 16)

AllBcd(s) == \A k \in DOMAIN s : is_valid_bcd_byte(s[k])

\* One turn of the loop; the sum is one of uint64_t.
Accumulate(value, b) ==
  IF value = Refused \/ ~is_valid_bcd_byte(b) \/ value > MaxValue \div 100
  THEN Refused
  ELSE (value * 100 + bcd_byte_to_value(b)) % (MaxValue + 1)

decode(s) ==
  LET value[n \in 0..Len(s)] == IF n = 0 THEN 0 ELSE Accumulate(value[n - 1], s[n])
  IN IF value[Len(s)] = Refused THEN 0 ELSE value[Len(s)]

Reversed(s) == [k \in 1..Len(s) |-> s[Len(s) + 1 - k]]

\* Mutant of decode_float: the most significant byte first.
decode_floatHighFirst(data) == decode(data)

decode_float(data) == decode(Reversed(data))

\* DataItem::decode_value().
decode_value(raw) == IF raw = <<>> THEN 0 ELSE decode_float(raw)

\* encode(): the last two decimal digits of what is left, from the last byte on.
bcd_byte(n) == (n \div 10) * 16 + (n % 10)

encode(v, len) ==
  LET left[k \in 0..len] == IF k = 0 THEN v ELSE left[k - 1] \div 100
  IN [i \in 1..len |-> bcd_byte(left[len - i] % 100)]

(***************************************************************************)
(* What the digits stand for: the number in base 100, of any size.         *)
(***************************************************************************)
Number(s) ==
  LET exact[n \in 0..Len(s)] ==
        IF n = 0 THEN 0 ELSE exact[n - 1] * 100 + bcd_byte_to_value(s[n])
  IN exact[Len(s)]
=============================================================================
