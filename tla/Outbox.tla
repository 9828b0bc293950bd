------------------------------- MODULE Outbox -------------------------------
(***************************************************************************)
(* What the MQTT reporter is to the rest of the program: a bounded queue   *)
(* and one sender that takes a message at a time.  Once the outbox is      *)
(* closed nothing comes in any more, and the sender finishes only when     *)
(* nothing is left.  MqttReporter implements it with its queue, worker and *)
(* destructor, and Collector uses no more of the reporter than this.       *)
(***************************************************************************)
EXTENDS Naturals

VARIABLES limit,      \* how many messages may wait
          backlog,    \* messages that wait
          inHand,     \* the sender has taken one and not dealt with it yet
          closed,     \* no more messages come
          finished    \* the sender has left

vars == <<limit, backlog, inHand, closed, finished>>

Init ==
  /\ limit \in Nat
  /\ backlog = 0
  /\ inHand = FALSE
  /\ closed = FALSE
  /\ finished = FALSE

Accept ==
  /\ ~closed
  /\ backlog < limit
  /\ backlog' = backlog + 1
  /\ UNCHANGED <<limit, inHand, closed, finished>>

Take ==
  /\ ~inHand /\ ~finished
  /\ backlog > 0
  /\ backlog' = backlog - 1
  /\ inHand' = TRUE
  /\ UNCHANGED <<limit, closed, finished>>

\* Published, or lost with a connection.
Settle ==
  /\ inHand
  /\ inHand' = FALSE
  /\ UNCHANGED <<limit, backlog, closed, finished>>

Close ==
  /\ ~closed
  /\ closed' = TRUE
  /\ UNCHANGED <<limit, backlog, inHand, finished>>

Finish ==
  /\ closed
  /\ backlog = 0 /\ ~inHand
  /\ finished' = TRUE
  /\ UNCHANGED <<limit, backlog, inHand, closed>>

Next == Accept \/ Take \/ Settle \/ Close \/ Finish

Spec == Init /\ [][Next]_vars
=============================================================================
