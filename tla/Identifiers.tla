---------------------------- MODULE Identifiers ----------------------------
(***************************************************************************)
(* How meters and items are named: addresses (src/src/protocol/address.cpp)*)
(* and data identifiers (src/src/protocol/data_item.cpp).  A character of  *)
(* an address string is the value of a hexadecimal digit, or NotHex.       *)
(***************************************************************************)
EXTENDS Integers, Sequences

NotHex    == 16
Character == 0..NotHex

is_valid_bcd(b) == b \div 16 <= 9 /\ b % 16 <= 9

\* The string has the most significant digits first, the frame the least
\* significant byte.
BytesOf(str) == [i \in 1..6 |-> str[13 - 2 * i] * 16 + str[14 - 2 * i]]

\* No value, or the address.
from_string(str) ==
  IF /\ Len(str) = 12
     /\ \A k \in 1..12 : str[k] # NotHex
     /\ \A i \in 1..6 : is_valid_bcd(BytesOf(str)[i])
  THEN <<BytesOf(str)>>
  ELSE <<>>

to_string(address) ==
  [k \in 1..12 |-> LET b == address[6 - (k - 1) \div 2] IN
                   IF k % 2 = 1 THEN b \div 16 ELSE b % 16]

is_broadcast(address) == \A i \in 1..6 : address[i] = 153    \* 0x99

\* DataItem::encode_di(): DI0 first.
Above(n) == n \div 256        \* n >> 8

encode_di(di) ==
  <<di % 256, Above(di) % 256, Above(Above(di)) % 256, Above(Above(Above(di))) % 256>>
=============================================================================
