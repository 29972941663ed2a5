----------------------------- MODULE ProbeRate -----------------------------
(***************************************************************************)
(* What the schedule of one probe promises: a probe with an interval runs   *)
(* no more often than once in that interval                                 *)
(* (tasks/network_probe_tasks.py, schedule_single_probe).  The clock of a   *)
(* run is read up to Slack ticks before the run is sent off.                *)
(***************************************************************************)
EXTENDS Naturals

CONSTANTS Interval, Slack, Horizon

VARIABLE since      \* ticks since the time stamped on the last run

Init == since = Horizon

Pass == since' = IF since < Horizon THEN since + 1 ELSE Horizon

Run == \E stamp \in 0..Slack :
            /\ since >= stamp + Interval
            /\ since' = stamp

Spec == Init /\ [][Pass \/ Run]_since
=============================================================================
