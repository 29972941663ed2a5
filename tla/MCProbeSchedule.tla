-------------------------- MODULE MCProbeSchedule --------------------------
(***************************************************************************)
(* Small instances of ProbeSchedule for TLC.                                *)
(***************************************************************************)
EXTENDS ProbeSchedule, TLC

\* The message slots are interchangeable (not used with liveness properties)
TaskSymmetry == Permutations(Task)
=============================================================================
