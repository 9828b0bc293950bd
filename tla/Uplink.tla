------------------------------- MODULE Uplink -------------------------------
(***************************************************************************)
(* What the MQTT reporter promises: a first-in first-out channel that may  *)
(* refuse a report when it is offered and may lose the oldest ones it      *)
(* carries, that never duplicates, reorders or invents one, and that does  *)
(* not hold a report for ever.                                             *)
(***************************************************************************)
EXTENDS Naturals, Sequences

VARIABLES last,      \* number of the newest report offered
          transit,   \* reports accepted, neither arrived nor lost
          arrived    \* reports received by the broker

vars == <<last, transit, arrived>>

Init == last = 0 /\ transit = <<>> /\ arrived = <<>>

Offer ==
  /\ last' = last + 1
  /\ \/ transit' = Append(transit, last')
     \/ UNCHANGED transit
  /\ UNCHANGED arrived

Arrive ==
  /\ transit # <<>>
  /\ arrived' = Append(arrived, Head(transit))
  /\ transit' = Tail(transit)
  /\ UNCHANGED last

\* Losing a connection loses a prefix of what is carried.
Lose ==
  /\ \E n \in 1..Len(transit) : transit' = SubSeq(transit, n + 1, Len(transit))
  /\ UNCHANGED <<last, arrived>>

Next == Offer \/ Arrive \/ Lose

Spec == Init /\ [][Next]_vars /\ WF_vars(Arrive \/ Lose)
=============================================================================
