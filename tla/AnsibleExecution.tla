--------------------------- MODULE AnsibleExecution ---------------------------
(***************************************************************************)
(* The executions of one Ansible playbook: the request thread that runs one *)
(* (api/ansible.py execute_playbook, AnsibleService.execute_by_id) and the   *)
(* requests and the Celery task that change its record meanwhile.            *)
(*                                                                          *)
(* Threads meet in the database only.  One step of a thread is one          *)
(* transaction; between two of them it keeps what SQLAlchemy has loaded:    *)
(* a commit writes a column only when its value differs from the one loaded, *)
(* and fails as a whole when a record it writes has been deleted.           *)
(***************************************************************************)
EXTENDS Naturals, FiniteSets

CONSTANTS
    Exec,        \* the executions that are ever asked for
    Request,     \* the threads of the other requests
    Sweeper,     \* the Celery worker of cleanup_stale_executions
    StaleAfter,  \* ticks after which a running execution is stale
    MaxFaults,   \* bound: database errors and crashes of the web process
    MaxWork      \* bound: executions asked for and such faults together

ASSUME SweeperAssumption == Sweeper \notin Request
ASSUME BoundsAssumption == StaleAfter \in Nat /\ MaxFaults \in Nat /\ MaxWork \in Nat

VARIABLES
    row,        \* status in playbook_executions; "none" before, "deleted" after
    age,        \* ticks since started_at, while running
    run,        \* the thread inside execute_playbook
    executors,  \* _running_executors
    process,    \* the ansible-playbook processes
    playbook,   \* the row of ansible_playbooks
    req,        \* what the other threads are at
    faults,     \* errors and crashes so far
    ended       \* history: the executions whose results were committed

vars == <<row, age, run, executors, process, playbook, req, faults, ended>>

Other == Request \cup {Sweeper}

Final  == {"success", "failed", "cancelled"}
Open   == {"pending", "running"}
Status == {"none", "deleted"} \cup Open \cup Final

Exists(e) == row[e] \notin {"none", "deleted"}

\* Where a thread is, the status it has loaded, how its playbook has done, and
\* the counter it has loaded
Thread(pc, seen, ok, read) == [pc |-> pc, seen |-> seen, ok |-> ok, read |-> read]

Idle == [op |-> "idle", seen |-> [e \in Exec |-> "none"]]

Init ==
    /\ row = [e \in Exec |-> "none"]
    /\ age = [e \in Exec |-> 0]
    /\ run = [e \in Exec |-> Thread("idle", "none", FALSE, 0)]
    /\ executors = {}
    /\ process = {}
    /\ playbook = [exists |-> TRUE, count |-> 0]
    /\ req = [r \in Other |-> Idle]
    /\ faults = 0
    /\ ended = {}

\* The column after a commit that set it to `new` on a record loaded as `seen`
Written(e, seen, new) == IF seen = new THEN row[e] ELSE new

(***************************************************************************)
(* execute_playbook and execute_by_id.                                      *)
(***************************************************************************)
At(e, pc) == run[e].pc = pc
\* What was loaded for one transaction is not used in the next
Goto(e, pc) == run' = [run EXCEPT ![e] = Thread(pc, "none", @.ok, 0)]
WithinBounds == Cardinality({e \in Exec : ~At(e, "idle")}) + faults < MaxWork
Fault == faults < MaxFaults /\ WithinBounds /\ faults' = faults + 1

\* The request checks the playbook and the hosts and commits a pending record
Create(e) ==
    /\ At(e, "idle") /\ WithinBounds
    /\ playbook.exists
    /\ row' = [row EXCEPT ![e] = "pending"]
    /\ Goto(e, "load")
    /\ UNCHANGED <<age, executors, process, playbook, req, faults, ended>>

\* The record is loaded, whatever its status is by now; the hosts may be gone
Load(e) ==
    /\ At(e, "load")
    /\ \E pc \in IF Exists(e) THEN {"start", "reject"} ELSE {"done"} :
          run' = [run EXCEPT ![e] = Thread(pc, row[e], @.ok, 0)]
    /\ UNCHANGED <<row, age, executors, process, playbook, req, faults, ended>>

\* A commit or a load of thread e that fails sends it to the except clause
Broken(e) ==
    /\ \/ ~Exists(e) /\ UNCHANGED faults
       \/ Fault
    /\ Goto(e, "rescue")
    /\ UNCHANGED <<row, age, executors, process, playbook, req, ended>>

Reject(e) ==
    /\ At(e, "reject")
    /\ \/ Broken(e)
       \/ /\ Exists(e)
          /\ row' = [row EXCEPT ![e] = Written(e, run[e].seen, "failed")]
          /\ Goto(e, "done")
          /\ UNCHANGED <<age, executors, process, playbook, req, faults, ended>>

\* start_execution is committed
Start(e) ==
    /\ At(e, "start")
    /\ \/ Broken(e)
       \/ /\ Exists(e)
          /\ row' = [row EXCEPT ![e] = Written(e, run[e].seen, "running")]
          /\ age' = [age EXCEPT ![e] = 0]
          /\ Goto(e, "register")
          /\ UNCHANGED <<executors, process, playbook, req, faults, ended>>

\* The commit has expired the record: its id is read anew, and the executor is
\* registered under it
Register(e) ==
    /\ At(e, "register")
    /\ \/ Broken(e)
       \/ /\ Exists(e)
          /\ executors' = executors \cup {e}
          /\ Goto(e, "prepare")
          /\ UNCHANGED <<row, age, process, playbook, req, faults, ended>>

\* The files are written and total_tasks committed, then ansible-playbook is
\* started; when it cannot be, the run is reported as failed.  A total that has
\* not changed is not written, and a deleted record then not noticed
Prepare(e) ==
    /\ At(e, "prepare")
    /\ \/ Broken(e)
       \/ /\ \/ process' = process \cup {e} /\ Goto(e, "play")
             \/ process' = process /\ Goto(e, "report")
          /\ UNCHANGED <<row, age, executors, playbook, req, faults, ended>>

\* Mutant of Exit: the end of the output is taken for the end of the process
ExitUnpolled(e) ==
    /\ e \in process
    /\ run[e].pc = "play"
    /\ \E ok \in BOOLEAN : run' = [run EXCEPT ![e] = Thread("report", "none", ok, 0)]
    /\ UNCHANGED <<row, age, executors, process, playbook, req, faults, ended>>

\* ansible-playbook exits.  Nothing sets is_cancelled, so success is its exit
\* code and its recap alone
Exit(e) ==
    /\ e \in process
    /\ process' = process \ {e}
    /\ \E ok \in BOOLEAN :
          run' = [run EXCEPT ![e] = IF @.pc = "play" THEN Thread("report", "none", ok, 0)
                                    ELSE @]
    /\ UNCHANGED <<row, age, executors, playbook, req, faults, ended>>

\* Every few lines the output is saved, for which the record's id is read anew:
\* when the record or the database is gone the run is reported as failed, and
\* ansible-playbook goes on
LoseSight(e) ==
    /\ At(e, "play")
    /\ \/ ~Exists(e) /\ UNCHANGED faults
       \/ Fault
    /\ Goto(e, "report")
    /\ UNCHANGED <<row, age, executors, process, playbook, req, ended>>

\* The output was committed last, so the record and the playbook are loaded anew
Report(e) ==
    /\ At(e, "report")
    /\ run' = [run EXCEPT ![e] = Thread("finish", row[e], @.ok, playbook.count)]
    /\ UNCHANGED <<row, age, executors, process, playbook, req, faults, ended>>

\* Mutant of Outcome: the exit code is not looked at
OutcomeOptimistic(e) == IF row[e] = "none" THEN "failed" ELSE "success"

Outcome(e) == IF run[e].ok THEN "success" ELSE "failed"

\* The result and the playbook's counter are committed
Finish(e) ==
    /\ At(e, "finish")
    /\ \/ Broken(e)
       \/ /\ Exists(e)
          /\ row' = [row EXCEPT ![e] = Written(e, run[e].seen, Outcome(e))]
          /\ playbook' = [playbook EXCEPT !.count = run[e].read + 1]
          /\ ended' = ended \cup {e}
          /\ Goto(e, "pop")
          /\ UNCHANGED <<age, executors, process, req, faults>>

\* Mutant of Pop: the executor stays registered
PopNothing(e) ==
    /\ At(e, "pop")
    /\ Goto(e, "done")
    /\ UNCHANGED <<row, age, executors, process, playbook, req, faults, ended>>

\* The executor leaves under the record's id, which is read anew: an error here
\* sends a thread that has committed its result to the except clause
Pop(e) ==
    /\ At(e, "pop")
    /\ \/ Broken(e)
       \/ /\ Exists(e)
          /\ executors' = executors \ {e}
          /\ Goto(e, "done")
          /\ UNCHANGED <<row, age, process, playbook, req, faults, ended>>

\* Mutant of Rescue: the error is logged and nothing is written
RescueLogged(e) ==
    /\ At(e, "rescue")
    /\ executors' = executors \ {e}
    /\ Goto(e, "done")
    /\ UNCHANGED <<row, age, process, playbook, req, faults, ended>>

\* The except clause: a record that is still there fails, whatever has been
\* committed of it, and its executor leaves; an error here is passed over and the
\* thread returns "botched"
Rescue(e) ==
    /\ At(e, "rescue")
    /\ \/ /\ ~Exists(e)
          /\ Goto(e, "done")
          /\ UNCHANGED <<row, executors, faults>>
       \/ /\ Exists(e)
          /\ row' = [row EXCEPT ![e] = "failed"]
          /\ executors' = executors \ {e}
          /\ Goto(e, "done")
          /\ UNCHANGED faults
       \/ /\ Fault
          /\ Goto(e, "botched")
          /\ UNCHANGED <<row, executors>>
    /\ UNCHANGED <<age, process, playbook, req, ended>>

(***************************************************************************)
(* The other threads: a transaction reads the records it is about, another   *)
(* writes them.                                                             *)
(***************************************************************************)
Begin(r, op, S) ==
    /\ req[r] = Idle
    /\ S # {}
    /\ req' = [req EXCEPT ![r] = [op |-> op,
                 seen |-> [e \in Exec |-> IF e \in S THEN row[e] ELSE "none"]]]
    /\ UNCHANGED <<row, age, run, executors, process, playbook, faults, ended>>

Loaded(r) == {e \in Exec : req[r].seen[e] # "none"}

\* The handler asks for no particular status
BeginCancel(r) == \E e \in Exec : Exists(e) /\ Begin(r, "cancel", {e})

BeginStopAll(r) == Begin(r, "stop_all", {e \in Exec : row[e] \in Open})

\* delete_execution and batch_delete_executions
BeginDelete(r) == \E S \in SUBSET {e \in Exec : Exists(e)} : Begin(r, "delete", S)

\* Mutant of BeginSweep: what has not started is swept, what runs is not
BeginSweepPending == Begin(Sweeper, "sweep", {e \in Exec : row[e] = "pending"})

\* cleanup_stale_executions, every hour
BeginSweep ==
    Begin(Sweeper, "sweep", {e \in Exec : row[e] = "running" /\ age[e] > StaleAfter})

\* delete_playbook refuses while an execution is open
BeginDrop(r) ==
    /\ playbook.exists
    /\ \A e \in Exec : row[e] \notin Open
    /\ req[r] = Idle
    /\ req' = [req EXCEPT ![r].op = "drop"]
    /\ UNCHANGED <<row, age, run, executors, process, playbook, faults, ended>>

\* Mutant of Target: the name of the operation is written
TargetRaw(op) == op

Target(op) == IF op = "sweep" THEN "failed" ELSE "cancelled"

\* All records are written, or none when one of them has been deleted
CommitStatus(r) ==
    /\ req[r].op \in {"cancel", "stop_all", "sweep"}
    /\ row' = IF \A e \in Loaded(r) : Exists(e)
              THEN [e \in Exec |-> IF e \in Loaded(r)
                                   THEN Written(e, req[r].seen[e], Target(req[r].op))
                                   ELSE row[e]]
              ELSE row
    /\ req' = [req EXCEPT ![r] = Idle]
    /\ UNCHANGED <<age, run, executors, process, playbook, faults, ended>>

CommitDelete(r) ==
    /\ req[r].op = "delete"
    /\ row' = [e \in Exec |-> IF e \in Loaded(r) THEN "deleted" ELSE row[e]]
    /\ req' = [req EXCEPT ![r] = Idle]
    /\ UNCHANGED <<age, run, executors, process, playbook, faults, ended>>

\* The playbook goes, and by cascade every record it has by now
CommitDrop(r) ==
    /\ req[r].op = "drop"
    /\ row' = [e \in Exec |-> IF row[e] = "none" THEN "none" ELSE "deleted"]
    /\ playbook' = [playbook EXCEPT !.exists = FALSE]
    /\ req' = [req EXCEPT ![r] = Idle]
    /\ UNCHANGED <<age, run, executors, process, faults, ended>>

(***************************************************************************)
(* The web process dies with its threads and its dictionary; a playbook it   *)
(* had started goes on.  The sweep runs in a Celery worker.                 *)
(***************************************************************************)
Crash ==
    /\ Fault
    /\ run' = [e \in Exec |-> IF run[e].pc \in {"idle", "done", "botched"} THEN run[e]
                              ELSE Thread("lost", "none", run[e].ok, 0)]
    /\ executors' = {}
    /\ req' = [r \in Other |-> IF r = Sweeper THEN req[r] ELSE Idle]
    /\ UNCHANGED <<row, age, process, playbook, ended>>

Tick ==
    /\ age' = [e \in Exec |-> IF row[e] = "running" /\ age[e] <= StaleAfter
                              THEN age[e] + 1 ELSE age[e]]
    /\ UNCHANGED <<row, run, executors, process, playbook, req, faults, ended>>
----------------------------------------------------------------------------
Execute(e) ==
    \/ Load(e) \/ Reject(e) \/ Start(e) \/ Register(e) \/ Prepare(e) \/ Exit(e)
    \/ LoseSight(e) \/ Report(e) \/ Finish(e) \/ Pop(e) \/ Rescue(e)

Next ==
    \/ \E e \in Exec : Create(e) \/ Execute(e)
    \/ \E r \in Request : \/ BeginCancel(r) \/ BeginStopAll(r) \/ BeginDelete(r) \/ BeginDrop(r)
                        \/ CommitDelete(r) \/ CommitDrop(r)
    \/ BeginSweep
    \/ \E r \in Other : CommitStatus(r)
    \/ Crash \/ Tick

Spec == Init /\ [][Next]_vars

\* Time passes and the sweep comes every hour; neither the threads of requests
\* nor ansible-playbook are relied on.
FairSpec == Spec /\ WF_vars(Tick) /\ WF_vars(BeginSweep) /\ WF_vars(CommitStatus(Sweeper))
----------------------------------------------------------------------------
Threads ==
    [pc : {"idle", "load", "start", "reject", "register", "prepare", "play", "report",
           "finish", "pop", "rescue", "done", "botched", "lost"},
     seen : Status, ok : BOOLEAN, read : Nat]

\* Type invariant: statuses, threads and requests keep their shapes; only the
\* sweeper sweeps.
TypeOK ==
    /\ row \in [Exec -> Status]
    /\ age \in [Exec -> 0..StaleAfter + 1]
    /\ run \in [Exec -> Threads]
    /\ executors \subseteq Exec /\ process \subseteq Exec /\ ended \subseteq Exec
    /\ playbook \in [exists : BOOLEAN, count : Nat]
    /\ req \in [Other -> [op : {"idle", "cancel", "stop_all", "delete", "sweep", "drop"},
                         seen : [Exec -> Status]]]
    /\ faults \in 0..MaxFaults

\* When execute_by_id returns, and its except clause has not failed too, the
\* record has reached an end or is gone: a caller never gets back an execution
\* that is still pending or running, whoever cancels, sweeps or deletes it.
ReturnMeansFinal == \A e \in Exec : At(e, "done") => row[e] \in Final \cup {"deleted"}

\* The dictionary of running executors holds nobody whose thread has returned,
\* but for an execution deleted under its thread and one whose except clause
\* failed: these two leak until the process restarts.
ExecutorsTracked ==
    \A e \in executors :
        \/ run[e].pc \in {"prepare", "play", "report", "finish", "pop", "rescue", "botched"}
        \/ row[e] = "deleted"

\* A record says success only of a playbook that ran to its end and did well,
\* in whatever order the thread and the other requests commit.
SuccessMeansRan == \A e \in Exec : row[e] = "success" => run[e].ok /\ e \in ended

\* A reader of a status can rely on ExecutionLifecycle, in whatever order the
\* thread and the others commit: what says success has been started and run by
\* its thread, nothing runs twice, returns to pending or from deletion, and
\* nothing fails before it has run unless its own thread says so.
Phase(e) ==
    IF run[e].pc \in {"idle", "load", "start", "reject"} THEN "waiting"
    ELSE IF run[e].pc \in {"register", "prepare", "play", "report", "finish"} THEN "running"
    ELSE IF run[e].pc \in {"pop", "rescue"} THEN "closing" ELSE "over"

Contract == INSTANCE ExecutionLifecycle WITH
    status <- row, phase <- [e \in Exec |-> Phase(e)]
KeepsLifecycle == Contract!Spec

\* execution_count may lose an execution when two end together, but it never
\* counts one that was not carried out, nor one twice.
CountBounded == playbook.count <= Cardinality(ended)

\* No playbook runs behind the back of its thread: whatever is committed or
\* refused meanwhile, the thread that started ansible-playbook waits for its end,
\* unless the record is deleted under it or the database or the web process
\* fails (ansible_service.py:372-413).
PlaysAreWatched ==
    \A e \in Exec : /\ At(e, "play") => e \in process
                    /\ e \in process => At(e, "play") \/ row[e] = "deleted" \/ faults > 0

\* No execution stays running for ever: the sweep ends one whose process has
\* died, even when records deleted under it make it fail as a whole.
RunningEnds == \A e \in Exec : row[e] = "running" ~> row[e] # "running"

\* What has been cancelled stays so.
CancelledStays ==
    [][\A e \in Exec : row[e] = "cancelled" => row'[e] \in {"cancelled", "deleted"}]_vars
=============================================================================
