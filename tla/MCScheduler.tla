---------------------------- MODULE MCScheduler ----------------------------
(***************************************************************************)
(* Finite instances of Scheduler: every choice of enabled meters and items *)
(* up to MaxMeters and MaxItems, and readers that may be missing or fewer  *)
(* than the meters.                                                        *)
(***************************************************************************)
EXTENDS Scheduler, SequencesExt

CONSTANTS MaxMeters, MaxItems, MaxInterval

AnyConfig ==
  [meters   : BoundedSeq(BOOLEAN, MaxMeters),
   readers  : BoundedSeq(BOOLEAN, MaxMeters),
   items    : BoundedSeq(BOOLEAN, MaxItems),
   interval : 0..MaxInterval]
=============================================================================
