--------------------------- MODULE MCMqttReporter ---------------------------
(***************************************************************************)
(* Finite instances of MqttReporter.                                       *)
(***************************************************************************)
EXTENDS MqttReporter, TLC

CONSTANTS d1, d2

\* The items of a meter are interchangeable (sound for the safety runs).
ItemSymmetry == Permutations({d1, d2})
=============================================================================
