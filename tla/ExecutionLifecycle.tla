------------------------- MODULE ExecutionLifecycle -------------------------
(***************************************************************************)
(* What can be relied on of a PlaybookExecution (models/ansible.py): its     *)
(* status together with the phase of the thread that carries it out.  A      *)
(* status becomes "running" once, by a thread that had not run before, and   *)
(* "success" only as what a thread reports that has run.  What others write  *)
(* ends an execution: they cancel it at any time, give up on it once it has  *)
(* been started, or delete it, and a deleted one does not come back.         *)
(***************************************************************************)
CONSTANT Exec
VARIABLES
    status,  \* of the record: none before it is created
    phase    \* of the thread: waiting, running, closing, over

vars == <<status, phase>>

Ends == {"success", "failed", "cancelled"}
There(e) == status[e] \notin {"none", "deleted"}

Goes(e, from, to) == phase[e] = from /\ phase' = [phase EXCEPT ![e] = to]
Sets(e, new) == There(e) /\ status' = [status EXCEPT ![e] = new]
All(S, new) == status' = [e \in Exec |-> IF e \in S THEN new ELSE status[e]]

Init ==
    /\ status = [e \in Exec |-> "none"]
    /\ phase = [e \in Exec |-> "waiting"]

Ask(e) ==
    /\ phase[e] = "waiting" /\ status[e] = "none"
    /\ status' = [status EXCEPT ![e] = "pending"]
    /\ UNCHANGED phase

\* A cancelled execution may still start
Start(e) ==
    /\ Goes(e, "waiting", "running")
    /\ status[e] \in {"pending", "cancelled"}
    /\ Sets(e, "running")

\* The result is reported; an end that the thread had loaded may stay
Report(e) ==
    /\ Goes(e, "running", "closing")
    /\ \E new \in {"success", "failed"} \cup ({status[e]} \cap Ends) : Sets(e, new)

Break(e) == \E p \in {"waiting", "running"} : Goes(e, p, "closing") /\ UNCHANGED status

\* A thread that ends without a result, or after it, leaves the status or a failure
Leave(e) ==
    /\ \E p \in {"waiting", "closing"} : Goes(e, p, "over")
    /\ UNCHANGED status \/ Sets(e, "failed")

Cancel == \E S \in SUBSET {e \in Exec : There(e)} : All(S, "cancelled") /\ UNCHANGED phase

Sweep ==
    \E S \in SUBSET {e \in Exec : There(e) /\ phase[e] # "waiting"} :
        All(S, "failed") /\ UNCHANGED phase

Delete ==
    \E S \in SUBSET {e \in Exec : status[e] # "none"} : All(S, "deleted") /\ UNCHANGED phase

\* Any number of threads are lost at once
Lose ==
    \E S \in SUBSET Exec :
        /\ phase' = [e \in Exec |-> IF e \in S THEN "over" ELSE phase[e]]
        /\ UNCHANGED status

Next ==
    \/ \E e \in Exec : Ask(e) \/ Start(e) \/ Report(e) \/ Break(e) \/ Leave(e)
    \/ Cancel \/ Sweep \/ Delete \/ Lose

Spec == Init /\ [][Next]_vars
=============================================================================
