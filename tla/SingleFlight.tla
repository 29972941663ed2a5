---------------------------- MODULE SingleFlight ----------------------------
(***************************************************************************)
(* What the refresh of an access token promises the calls that are refused  *)
(* (isRefreshing, failedQueue and processQueue of services/api.ts): one at  *)
(* a time, calls refused meanwhile wait for it, none of them goes before it *)
(* has ended, and its end lets all of them go.                              *)
(***************************************************************************)
CONSTANT Call
VARIABLES flying,   \* the call whose refresh is under way, if any
          waiting   \* the calls that wait for it

Init == flying = {} /\ waiting = {}

Begin(c) == flying = {} /\ flying' = {c} /\ waiting' = waiting

Wait(c) == flying \notin {{}, {c}} /\ waiting' = waiting \cup {c} /\ flying' = flying

End == flying # {} /\ flying' = {} /\ waiting' = {}

Next == End \/ \E c \in Call : Begin(c) \/ Wait(c)

Spec == Init /\ [][Next]_<<flying, waiting>>
=============================================================================
