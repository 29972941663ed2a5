------------------------ MODULE AnsibleExecutionProofs ------------------------
(***************************************************************************)
(* Proofs about AnsibleExecution, for any number of executions and of        *)
(* concurrent requests.  The invariant is a property of one execution at a   *)
(* time: a step of its own thread must restore it, and what the others do to *)
(* its record only ever ends it or deletes it.                              *)
(***************************************************************************)
EXTENDS AnsibleExecution, FiniteSetTheorems, TLAPS

Live == {"prepare", "play", "report", "finish", "pop", "rescue", "botched"}
Closed(e) == row[e] \in Final \cup {"deleted"}

\* What makes the three invariants inductive: a thread that has begun has a
\* record, one that has not has no executor, a result is committed last, and
\* what a thread has loaded as closed is closed.
Carried(e) ==
    /\ At(e, "idle") \/ row[e] # "none"
    /\ At(e, "idle") => e \notin executors
    /\ e \in ended => run[e].pc \in {"pop", "rescue", "done", "botched", "lost"}
    /\ At(e, "pop") => Closed(e)
    /\ run[e].pc \in {"reject", "finish"} /\ run[e].seen \in Final => Closed(e)

Kept(e) ==
    /\ Carried(e)
    /\ At(e, "done") => Closed(e)
    /\ e \in executors => run[e].pc \in Live \/ row[e] = "deleted"
    /\ row[e] = "success" => run[e].ok /\ e \in ended

Inv == TypeOK /\ \A e \in Exec : Kept(e)

Same(e) ==
    /\ run'[e] = run[e] /\ row'[e] = row[e]
    /\ (e \in executors' <=> e \in executors) /\ (e \in ended' <=> e \in ended)

\* An execution that a step does not touch is kept.
LEMMA Untouched == ASSUME NEW e \in Exec, Kept(e), Same(e) PROVE Kept(e)'
BY DEF Kept, Same, Carried, Closed, At

\* A step that leaves the threads alone keeps an execution when the record it
\* had is left alone, cancelled, failed or deleted.
LEMMA Ended ==
    ASSUME NEW e \in Exec, Kept(e), run' = run, executors' = executors, ended' = ended,
           \/ row'[e] = row[e]
           \/ row[e] \notin {"none", "deleted"} /\ row'[e] \in {"cancelled", "failed"}
           \/ row'[e] = "deleted"
    PROVE  Kept(e)'
BY DEF Kept, Carried, Closed, At, Final, Live

\* A step of one thread keeps its own execution.
LEMMA OwnStep ==
    ASSUME TypeOK, NEW e \in Exec, Kept(e), Create(e) \/ Execute(e)
    PROVE  Kept(e)'
<1>1. CASE Create(e)
  BY <1>1 DEF TypeOK, Create, Goto, Thread, Kept, Carried, Closed, At, Final, Live
<1>2. CASE Load(e)
  BY <1>2 DEF TypeOK, Load, Thread, Kept, Carried, Closed, At, Final, Live, Exists, Status, Open
<1>3. ASSUME Broken(e), run[e].pc \in {"reject", "start", "register", "prepare", "finish", "pop"} PROVE Kept(e)'
  BY <1>3 DEF TypeOK, Broken, Goto, Thread, Kept, Carried, Closed, At, Final, Live
<1>4. CASE Reject(e)
  BY <1>3, <1>4
  DEF TypeOK, Reject, Written, Goto, Thread, Kept, Carried, Closed, At, Final, Live, Exists
<1>5. CASE Start(e)
  BY <1>3, <1>5
  DEF TypeOK, Start, Written, Goto, Thread, Kept, Carried, Closed, At, Final, Live, Exists
<1>12. CASE Register(e)
  BY <1>3, <1>12
  DEF TypeOK, Register, Goto, Thread, Kept, Carried, Closed, At, Final, Live, Exists
<1>6. CASE Prepare(e)
  BY <1>3, <1>6
  DEF TypeOK, Prepare, Goto, Thread, Kept, Carried, Closed, At, Final, Live, Exists
<1>7. CASE Exit(e)
  BY <1>7 DEF TypeOK, Exit, Thread, Kept, Carried, Closed, At, Final, Live
<1>8. CASE Report(e)
  BY <1>8 DEF TypeOK, Report, Thread, Kept, Carried, Closed, At, Final, Live
<1>11. CASE LoseSight(e)
  BY <1>11 DEF TypeOK, LoseSight, Fault, Goto, Thread, Kept, Carried, Closed, At, Final, Live
<1>9. CASE Finish(e)
  BY <1>3, <1>9
  DEF TypeOK, Finish, Written, Outcome, Goto, Thread, Kept, Carried, Closed, At, Final, Live,
      Exists
<1>13. CASE Pop(e)
  BY <1>3, <1>13
  DEF TypeOK, Pop, Goto, Thread, Kept, Carried, Closed, At, Final, Live, Exists
<1>10. CASE Rescue(e)
  BY <1>10
  DEF TypeOK, Rescue, Fault, Goto, Thread, Kept, Carried, Closed, At, Final, Live, Exists
<1> QED BY <1>1, <1>2, <1>4, <1>5, <1>6, <1>7, <1>8, <1>9, <1>10, <1>11, <1>12, <1>13 DEF Execute

\* And it leaves every other execution as it is.
LEMMA OthersStep ==
    ASSUME TypeOK, NEW e \in Exec, NEW d \in Exec \ {e}, Create(e) \/ Execute(e)
    PROVE  Same(d)
BY DEF TypeOK, Same, Create, Execute, Load, Reject, Start, Register, Prepare, Exit, LoseSight,
       Report, Finish, Pop, Rescue, Broken, Goto, Thread

\* What the other threads commit ends a record or deletes it, and leaves alone
\* an execution without one.
LEMMA ContentionKeeps ==
    ASSUME TypeOK, NEW r \in Other, CommitStatus(r) \/ CommitDelete(r) \/ CommitDrop(r),
           NEW e \in Exec, Kept(e)
    PROVE  Kept(e)'
<1>0. run' = run /\ executors' = executors /\ ended' = ended
  BY DEF CommitStatus, CommitDelete, CommitDrop
<1>1. CASE CommitStatus(r)
  <2>1. \/ row'[e] = row[e]
        \/ row[e] \notin {"none", "deleted"} /\ row'[e] \in {"cancelled", "failed"}
    BY <1>1 DEF TypeOK, CommitStatus, Written, Target, Exists
  <2> QED BY <1>0, <2>1, Ended
<1>2. CASE CommitDelete(r)
  BY <1>0, <1>2, Ended DEF TypeOK, CommitDelete
<1>3. CASE CommitDrop(r)
  BY <1>0, <1>3, Ended DEF TypeOK, CommitDrop
<1> QED BY <1>1, <1>2, <1>3

\* A crash loses the threads and the dictionary, not what has been committed.
LEMMA CrashKeeps == ASSUME TypeOK, Crash, NEW e \in Exec, Kept(e) PROVE Kept(e)'
BY DEF TypeOK, Crash, Thread, Kept, Carried, Closed, At, Final, Live

\* A step that reads, or lets time pass, keeps every execution.
LEMMA ReadingKeeps ==
    ASSUME NEW e \in Exec, Kept(e), UNCHANGED <<row, run, executors, ended>>
    PROVE  Kept(e)'
BY Untouched DEF Same

Reads ==
    \/ \E r \in Request : BeginCancel(r) \/ BeginStopAll(r) \/ BeginDelete(r) \/ BeginDrop(r)
    \/ BeginSweep

LEMMA ReadsRead == ASSUME Reads PROVE UNCHANGED <<row, age, run, executors, process, playbook, faults, ended>>
BY DEF Reads, BeginCancel, BeginStopAll, BeginDelete, BeginDrop, BeginSweep, Begin

LEMMA KeptStep == ASSUME Inv, [Next]_vars PROVE \A e \in Exec : Kept(e)'
<1> TAKE e \in Exec
<1> USE DEF Inv
<1>1. ASSUME NEW d \in Exec, Create(d) \/ Execute(d) PROVE Kept(e)'
  <2>1. CASE d = e
    BY <1>1, <2>1, OwnStep
  <2>2. CASE d # e
    BY <1>1, <2>2, OthersStep, Untouched
  <2> QED BY <2>1, <2>2
<1>2. ASSUME NEW r \in Other, CommitStatus(r) \/ CommitDelete(r) \/ CommitDrop(r) PROVE Kept(e)'
  BY <1>2, ContentionKeeps
<1>3. CASE Crash
  BY <1>3, CrashKeeps
<1>4. CASE Reads
  BY <1>4, ReadsRead, ReadingKeeps
<1>5. CASE Tick \/ UNCHANGED vars
  BY <1>5, ReadingKeeps DEF Tick, vars
<1> QED BY <1>1, <1>2, <1>3, <1>4, <1>5 DEF Next, Reads, Other

----------------------------------------------------------------------------
(***************************************************************************)
(* Types.                                                                   *)
(***************************************************************************)
LEMMA OwnStepTypes ==
    ASSUME TypeOK, NEW e \in Exec, Create(e) \/ Execute(e)
    PROVE  TypeOK'
<1> USE BoundsAssumption
<1>1. ASSUME NEW pc \in {"load", "reject", "register", "prepare", "play", "report", "pop",
                         "rescue", "done", "botched"},
             Goto(e, pc)
      PROVE  run' \in [Exec -> Threads]
  BY <1>1 DEF TypeOK, Goto, Thread, Threads, Status
<1>2. ASSUME NEW seen, NEW new \in Status, row' = [row EXCEPT ![e] = Written(e, seen, new)]
      PROVE  row' \in [Exec -> Status]
  BY <1>2 DEF TypeOK, Written
<1>3. {"pending", "running", "failed", "success"} \subseteq Status
  BY DEF Status, Final, Open
<1>4. ASSUME Broken(e) PROVE TypeOK'
  <2>1. run' \in [Exec -> Threads]
    BY <1>1, <1>4 DEF Broken
  <2> QED BY <1>4, <2>1 DEF TypeOK, Broken, Fault
<1>5. CASE Create(e)
  <2>1. run' \in [Exec -> Threads]
    BY <1>1, <1>5 DEF Create
  <2> QED BY <1>3, <1>5, <2>1 DEF TypeOK, Create
<1>6. CASE Load(e)
  <2>1. run' \in [Exec -> Threads]
    BY <1>6 DEF TypeOK, Load, Thread, Threads
  <2> QED BY <1>6, <2>1 DEF TypeOK, Load
<1>7. CASE Reject(e) /\ ~Broken(e)
  <2>1. run' \in [Exec -> Threads]
    BY <1>1, <1>7 DEF Reject
  <2>2. row' \in [Exec -> Status]
    BY <1>2, <1>3, <1>7 DEF Reject
  <2> QED BY <1>7, <2>1, <2>2 DEF TypeOK, Reject
<1>8. CASE Start(e) /\ ~Broken(e)
  <2>1. run' \in [Exec -> Threads]
    BY <1>1, <1>8 DEF Start
  <2>2. row' \in [Exec -> Status]
    BY <1>2, <1>3, <1>8 DEF Start
  <2> QED BY <1>8, <2>1, <2>2 DEF TypeOK, Start
<1>9. CASE Prepare(e) /\ ~Broken(e)
  <2>1. run' \in [Exec -> Threads]
    BY <1>1, <1>9 DEF Prepare
  <2> QED BY <1>9, <2>1 DEF TypeOK, Prepare
<1>15. CASE (Register(e) \/ Pop(e)) /\ ~Broken(e)
  <2>1. run' \in [Exec -> Threads]
    BY <1>1, <1>15 DEF Register, Pop
  <2> QED BY <1>15, <2>1 DEF TypeOK, Register, Pop
<1>10. CASE Exit(e)
  <2>1. run' \in [Exec -> Threads]
    BY <1>10 DEF TypeOK, Exit, Thread, Threads, Status
  <2> QED BY <1>10, <2>1 DEF TypeOK, Exit
<1>14. CASE LoseSight(e)
  <2>1. run' \in [Exec -> Threads]
    BY <1>1, <1>14 DEF LoseSight
  <2> QED BY <1>14, <2>1 DEF TypeOK, LoseSight, Fault
<1>11. CASE Report(e)
  <2>1. run' \in [Exec -> Threads]
    BY <1>11 DEF TypeOK, Report, Thread, Threads
  <2> QED BY <1>11, <2>1 DEF TypeOK, Report
<1>12. CASE Finish(e) /\ ~Broken(e)
  <2>1. run' \in [Exec -> Threads]
    BY <1>1, <1>12 DEF Finish
  <2>2. row' \in [Exec -> Status]
    BY <1>2, <1>3, <1>12 DEF Finish, Outcome
  <2>3. playbook' \in [exists : BOOLEAN, count : Nat]
    BY <1>12 DEF TypeOK, Finish, Threads
  <2> QED BY <1>12, <2>1, <2>2, <2>3 DEF TypeOK, Finish
<1>13. CASE Rescue(e)
  <2>1. run' \in [Exec -> Threads]
    BY <1>1, <1>13 DEF Rescue
  <2>2. row' \in [Exec -> Status]
    BY <1>3, <1>13 DEF TypeOK, Rescue
  <2> QED BY <1>13, <2>1, <2>2 DEF TypeOK, Rescue, Fault
<1> QED BY <1>4, <1>5, <1>6, <1>7, <1>8, <1>9, <1>10, <1>11, <1>12, <1>13, <1>14,
        <1>15
        DEF Execute, Reject, Start, Register, Prepare, Finish, Pop

LEMMA OtherTypes ==
    ASSUME TypeOK, Reads \/ Crash \/ Tick
                   \/ \E r \in Other : CommitStatus(r) \/ CommitDelete(r) \/ CommitDrop(r)
    PROVE  TypeOK'
<1> USE BoundsAssumption DEF Status, Final, Open
<1>1. ASSUME NEW r \in Other, NEW op \in {"cancel", "stop_all", "delete", "sweep"},
             NEW S \in SUBSET Exec, Begin(r, op, S)
      PROVE  TypeOK'
  BY <1>1 DEF TypeOK, Begin
<1>2. ASSUME NEW r \in Request, BeginDrop(r) PROVE TypeOK'
  BY <1>2 DEF TypeOK, BeginDrop, Other
<1>3. CASE Reads
  <2>1. ASSUME NEW r \in Request, BeginCancel(r) PROVE TypeOK'
    BY <1>1, <2>1 DEF BeginCancel, Other
  <2>2. ASSUME NEW r \in Request, BeginStopAll(r) PROVE TypeOK'
    BY <1>1, <2>2 DEF BeginStopAll, Other
  <2>3. ASSUME NEW r \in Request, BeginDelete(r) PROVE TypeOK'
    BY <1>1, <2>3 DEF BeginDelete, Other
  <2>4. CASE BeginSweep
    BY <1>1, <2>4 DEF BeginSweep, Other
  <2> QED BY <1>2, <1>3, <2>1, <2>2, <2>3, <2>4 DEF Reads
<1>4. Idle \in [op : {"idle", "cancel", "stop_all", "delete", "sweep", "drop"},
                seen : [Exec -> Status]]
  BY DEF Idle
<1>5. ASSUME NEW r \in Other, CommitStatus(r) PROVE TypeOK'
  BY <1>4, <1>5 DEF TypeOK, CommitStatus, Written, Target
<1>6. ASSUME NEW r \in Other, CommitDelete(r) PROVE TypeOK'
  BY <1>4, <1>6 DEF TypeOK, CommitDelete
<1>7. ASSUME NEW r \in Other, CommitDrop(r) PROVE TypeOK'
  BY <1>4, <1>7 DEF TypeOK, CommitDrop
<1>8. CASE Crash
  BY <1>4, <1>8 DEF TypeOK, Crash, Fault, Thread, Threads
<1>9. CASE Tick
  BY <1>9 DEF TypeOK, Tick
<1> QED BY <1>3, <1>5, <1>6, <1>7, <1>8, <1>9

LEMMA InvHolds == Spec => []Inv
<1>1. Init => Inv
  BY BoundsAssumption
  DEF Init, Inv, TypeOK, Kept, Carried, Closed, At, Thread, Threads, Idle, Status, Final, Open
<1>2. Inv /\ [Next]_vars => Inv'
  <2> SUFFICES ASSUME Inv, [Next]_vars PROVE Inv'
    OBVIOUS
  <2>1. \A e \in Exec : Kept(e)'
    BY KeptStep
  <2>2. TypeOK'
    <3>1. ASSUME NEW e \in Exec, Create(e) \/ Execute(e) PROVE TypeOK'
      BY <3>1, OwnStepTypes DEF Inv
    <3>2. CASE \/ Reads \/ Crash \/ Tick
               \/ \E r \in Other : CommitStatus(r) \/ CommitDelete(r) \/ CommitDrop(r)
      BY <3>2, OtherTypes DEF Inv
    <3>3. CASE UNCHANGED vars
      BY <3>3 DEF Inv, TypeOK, vars
    <3> QED BY <3>1, <3>2, <3>3 DEF Next, Reads, Other
  <2> QED BY <2>1, <2>2 DEF Inv
<1> QED BY <1>1, <1>2, PTL DEF Spec

\* Statuses, threads and requests keep their shapes for any number of
\* executions and requests, whatever fails.
THEOREM ExecutionTypes == Spec => []TypeOK
<1>1. Inv => TypeOK
  BY DEF Inv
<1> QED BY <1>1, InvHolds, PTL

\* An execution whose thread has returned has ended or is gone, however many
\* requests cancel, sweep and delete it meanwhile.
THEOREM ReturnIsFinal == Spec => []ReturnMeansFinal
<1>1. Inv => ReturnMeansFinal
  BY DEF Inv, Kept, Closed, ReturnMeansFinal
<1> QED BY <1>1, InvHolds, PTL

\* The dictionary of executors leaks in two cases only: a record deleted under
\* its thread, and an except clause that fails.
THEOREM ExecutorsAreTracked == Spec => []ExecutorsTracked
<1>1. Inv => ExecutorsTracked
  BY DEF Inv, TypeOK, Kept, Live, ExecutorsTracked
<1> QED BY <1>1, InvHolds, PTL

\* A record that says success is one whose playbook did well.
THEOREM SuccessIsTrue == Spec => []SuccessMeansRan
<1>1. Inv => SuccessMeansRan
  BY DEF Inv, Kept, SuccessMeansRan
<1> QED BY <1>1, InvHolds, PTL

----------------------------------------------------------------------------
(***************************************************************************)
(* The contract of a status.  A record is pending until its thread starts   *)
(* it or somebody ends it, and the sweep loads only what has been started.  *)
(***************************************************************************)
Begun(e) == run[e].pc \notin {"idle", "load", "reject", "start"}

Placed(e) ==
    /\ At(e, "idle") => row[e] = "none"
    /\ row[e] \in {"running", "failed"} => Begun(e)
    /\ At(e, "start") => run[e].seen # "running"
    /\ run[e].pc \in {"register", "prepare", "play", "report", "finish"} => row[e] # "pending"
    /\ \A r \in Other : req[r].seen[e] # "none" =>
          row[e] # "none" /\ (req[r].op = "sweep" => Begun(e))

\* A thread's step keeps its own record in place.
LEMMA OwnPlace ==
    ASSUME TypeOK, NEW e \in Exec, Kept(e), Placed(e), Create(e) \/ Execute(e)
    PROVE  Placed(e)'
<1>0. req' = req
  BY DEF Create, Execute, Load, Reject, Start, Register, Prepare, Exit,
      LoseSight, Report, Finish, Pop, Rescue, Broken
<1>1. CASE Create(e)
  BY <1>0, <1>1 DEF TypeOK, Create, Goto, Thread, Placed, Begun, At
<1>2. CASE Load(e)
  BY <1>0, <1>2 DEF TypeOK, Load, Thread, Placed, Begun, At
<1>3. ASSUME Broken(e), run[e].pc \in {"reject", "start", "register", "prepare", "finish", "pop"} PROVE Placed(e)'
  BY <1>0, <1>3 DEF TypeOK, Broken, Goto, Thread, Placed, Begun, At
<1>4. CASE Reject(e)
  BY <1>0, <1>3, <1>4 DEF TypeOK, Reject, Written, Goto, Thread, Placed, Begun, At
<1>5. CASE Start(e)
  BY <1>0, <1>3, <1>5 DEF TypeOK, Start, Written, Goto, Thread, Placed, Begun, At
<1>6. CASE Prepare(e)
  BY <1>0, <1>3, <1>6 DEF TypeOK, Prepare, Goto, Thread, Placed, Begun, At
<1>7. CASE Exit(e)
  BY <1>0, <1>7 DEF TypeOK, Exit, Thread, Placed, Begun, At
<1>11. CASE LoseSight(e)
  BY <1>0, <1>11 DEF TypeOK, LoseSight, Goto, Thread, Placed, Begun, At
<1>8. CASE Report(e)
  BY <1>0, <1>8 DEF TypeOK, Report, Thread, Placed, Begun, At
<1>9. CASE Finish(e)
  BY <1>0, <1>3, <1>9 DEF TypeOK, Finish, Written, Outcome, Goto, Thread, Placed, Begun, At
<1>12. CASE Register(e)
  BY <1>0, <1>3, <1>12 DEF TypeOK, Register, Goto, Thread, Placed, Begun, At
<1>13. CASE Pop(e)
  BY <1>0, <1>3, <1>13 DEF TypeOK, Pop, Goto, Thread, Placed, Begun, At
<1>10. CASE Rescue(e)
  BY <1>0, <1>10 DEF TypeOK, Rescue, Fault, Goto, Thread, Placed, Begun, At, Exists
<1> QED BY <1>1, <1>2, <1>4, <1>5, <1>6, <1>7, <1>8, <1>9, <1>10, <1>11, <1>12, <1>13 DEF Execute

\* What the other threads load, commit or lose keeps every record in place.
LEMMA OthersPlace ==
    ASSUME Inv, NEW e \in Exec, Placed(e),
           Reads \/ Crash \/ Tick
           \/ \E r \in Other : CommitStatus(r) \/ CommitDelete(r) \/ CommitDrop(r)
    PROVE  Placed(e)'
<1>0. TypeOK /\ Kept(e)
  BY DEF Inv
<1> DEFINE Harmless(r) ==
             \/ req'[r] = req[r]
             \/ req'[r].seen[e] = "none"
             \/ row[e] # "none" /\ (req'[r].op = "sweep" => row[e] = "running")
<1>1. ASSUME run' = run, row' = row, \A r \in Other : Harmless(r) PROVE Placed(e)'
  BY <1>1 DEF Placed, Begun, At
<1>2. ASSUME NEW r \in Other, NEW op, NEW S \in SUBSET Exec, Begin(r, op, S),
             e \in S => row[e] # "none" /\ (op = "sweep" => row[e] = "running")
      PROVE  Placed(e)'
  <2>1. req' = [req EXCEPT ![r] = [op |-> op,
                  seen |-> [d \in Exec |-> IF d \in S THEN row[d] ELSE "none"]]]
    BY <1>2 DEF Begin
  <2>2. run' = run /\ row' = row
    BY <1>2 DEF Begin
  <2>3. \A s \in Other \ {r} : req'[s] = req[s]
    BY <1>0, <2>1 DEF TypeOK
  <2>4. req'[r].op = op /\ req'[r].seen[e] = IF e \in S THEN row[e] ELSE "none"
    BY <1>0, <2>1 DEF TypeOK
  <2>5. \A s \in Other : Harmless(s)
    BY <1>2, <2>3, <2>4
  <2> QED BY <1>1, <2>2, <2>5
<1>3. ASSUME NEW r \in Request, BeginDrop(r) PROVE Placed(e)'
  <2>1. r \in Other /\ req[r] = Idle /\ req' = [req EXCEPT ![r].op = "drop"]
    BY <1>3 DEF BeginDrop, Other
  <2>2. req'[r].seen[e] = "none" /\ \A s \in Other \ {r} : req'[s] = req[s]
    BY <1>0, <2>1 DEF TypeOK, Idle
  <2>3. run' = run /\ row' = row
    BY <1>3 DEF BeginDrop
  <2>4. \A s \in Other : Harmless(s)
    BY <2>2
  <2> QED BY <1>1, <2>3, <2>4
<1>4. CASE Reads
  <2>1. ASSUME NEW r \in Request, BeginCancel(r) PROVE Placed(e)'
    <3>1. PICK d \in Exec : Exists(d) /\ Begin(r, "cancel", {d})
      BY <2>1 DEF BeginCancel
    <3> QED BY <1>2, <3>1 DEF Other, Exists
  <2>2. ASSUME NEW r \in Request, BeginStopAll(r) PROVE Placed(e)'
    <3> DEFINE S == {d \in Exec : row[d] \in Open}
    <3>1. Begin(r, "stop_all", S) /\ (e \in S => row[e] # "none")
      BY <2>2 DEF BeginStopAll, Open
    <3> HIDE DEF S
    <3>2. S \in SUBSET Exec
      BY DEF S
    <3> QED BY <1>2, <3>1, <3>2 DEF Other
  <2>3. ASSUME NEW r \in Request, BeginDelete(r) PROVE Placed(e)'
    <3>1. PICK S \in SUBSET {d \in Exec : Exists(d)} : Begin(r, "delete", S)
      BY <2>3 DEF BeginDelete
    <3>2. S \in SUBSET Exec /\ (e \in S => row[e] # "none")
      BY <3>1 DEF Exists
    <3> QED BY <1>2, <3>1, <3>2 DEF Other
  <2>4. CASE BeginSweep
    <3> DEFINE S == {d \in Exec : row[d] = "running" /\ age[d] > StaleAfter}
    <3>1. Begin(Sweeper, "sweep", S) /\ (e \in S => row[e] = "running")
      BY <2>4 DEF BeginSweep
    <3>2. S \in SUBSET Exec
      OBVIOUS
    <3> HIDE DEF S
    <3> QED BY <1>2, <3>1, <3>2 DEF Other
  <2> QED BY <1>3, <1>4, <2>1, <2>2, <2>3, <2>4 DEF Reads
<1>5. ASSUME NEW r \in Other, CommitStatus(r) \/ CommitDelete(r) \/ CommitDrop(r) PROVE Placed(e)'
  <2>1. run' = run /\ req' = [req EXCEPT ![r] = Idle]
    BY <1>5 DEF CommitStatus, CommitDelete, CommitDrop
  <2>2. req'[r].seen[e] = "none" /\ \A s \in Other \ {r} : req'[s] = req[s]
    BY <1>0, <2>1 DEF TypeOK, Idle
  <2>3. \/ row'[e] = row[e]
        \/ row[e] # "none" /\ row'[e] \in {"cancelled", "deleted"}
        \/ Begun(e) /\ row[e] # "none" /\ row'[e] = "failed"
    <3>1. CASE CommitStatus(r)
      BY <1>0, <3>1 DEF TypeOK, Placed, CommitStatus, Loaded, Written, Target
    <3>2. CASE CommitDelete(r)
      BY <1>0, <3>2 DEF TypeOK, Placed, CommitDelete, Loaded
    <3>3. CASE CommitDrop(r)
      BY <1>0, <3>3 DEF TypeOK, Placed, CommitDrop
    <3> QED BY <1>5, <3>1, <3>2, <3>3
  <2> QED BY <2>1, <2>2, <2>3 DEF Placed, Begun, At
<1>6. CASE Crash
  <2>1. /\ row' = row
        /\ run'[e] = run[e] \/ (~At(e, "idle") /\ run'[e].pc = "lost")
        /\ \A r \in Other : req'[r] = req[r] \/ req'[r] = Idle
    BY <1>0, <1>6 DEF TypeOK, Crash, Thread, At
  <2> QED BY <2>1 DEF Placed, Begun, At, Idle
<1>7. CASE Tick
  BY <1>7 DEF Tick, Placed, Begun, At
<1> QED BY <1>4, <1>5, <1>6, <1>7

PlacedInv == Inv /\ \A e \in Exec : Placed(e)

LEMMA PlacedStep == ASSUME PlacedInv, [Next]_vars PROVE \A e \in Exec : Placed(e)'
<1> TAKE e \in Exec
<1> USE DEF PlacedInv, Inv
<1>1. ASSUME NEW d \in Exec, Create(d) \/ Execute(d) PROVE Placed(e)'
  <2>1. CASE d = e
    BY <1>1, <2>1, OwnPlace
  <2>2. CASE d # e
    <3>1. Same(e) /\ req' = req
      BY <1>1, <2>2, OthersStep
      DEF Create, Execute, Load, Reject, Start, Register, Prepare, Exit,
      LoseSight, Report, Finish, Pop, Rescue, Broken
    <3> QED BY <3>1 DEF Same, Placed, Begun, At
  <2> QED BY <2>1, <2>2
<1>2. CASE \/ Reads \/ Crash \/ Tick
           \/ \E r \in Other : CommitStatus(r) \/ CommitDelete(r) \/ CommitDrop(r)
  BY <1>2, OthersPlace
<1>3. CASE UNCHANGED vars
  BY <1>3 DEF vars, Placed, Begun, At
<1> QED BY <1>1, <1>2, <1>3 DEF Next, Reads, Other

LEMMA PlacedInvHolds == Spec => []PlacedInv
<1>1. Init => \A e \in Exec : Placed(e)
  BY DEF Init, Placed, Begun, At, Thread, Idle
<1>2. PlacedInv /\ Inv' /\ [Next]_vars => PlacedInv'
  BY PlacedStep DEF PlacedInv
<1> QED BY <1>1, <1>2, InvHolds, PTL DEF Spec, PlacedInv

(***************************************************************************)
(* Every step is one of ExecutionLifecycle, or leaves status and phase.      *)
(***************************************************************************)
Phases == [e \in Exec |-> Phase(e)]

LEMMA PhaseGoes ==
    ASSUME NEW e \in Exec, \A d \in Exec \ {e} : run'[d] = run[d]
    PROVE  /\ Contract!Goes(e, Phase(e), Phase(e)')
           /\ Phase(e)' = Phase(e) => Phases' = Phases
<1>1. Phases[e] = Phase(e) /\ Phases' = [Phases EXCEPT ![e] = Phase(e)']
  BY DEF Phases, Phase
<1>2. Phase(e)' = Phase(e) => Phases' = Phases
  BY <1>1 DEF Phases
<1> QED BY <1>1, <1>2 DEF Contract!Goes, Phases

Steps == [Contract!Next]_<<row, Phases>>

\* A thread whose commit fails breaks off, if it has not already.
LEMMA BrokenMove ==
    ASSUME TypeOK, NEW e \in Exec, Broken(e),
           run[e].pc \in {"reject", "start", "register", "prepare", "finish", "pop"}
    PROVE  Steps
<1>1. /\ row' = row /\ run'[e].pc = "rescue"
      /\ \A d \in Exec \ {e} : run'[d] = run[d]
  BY DEF TypeOK, Broken, Goto, Thread
<1>2. Phase(e)' = "closing" /\ Phase(e) \in {"waiting", "running", "closing"}
  BY <1>1 DEF Phase
<1>3. CASE Phase(e) = "closing"
  BY <1>1, <1>2, <1>3, PhaseGoes DEF Steps
<1>4. CASE Phase(e) # "closing"
  <2>1. Contract!Goes(e, Phase(e), "closing")
    BY <1>1, <1>2, PhaseGoes
  <2> QED BY <1>1, <1>2, <1>4, <2>1 DEF Steps, Contract!Next, Contract!Break
<1> QED BY <1>3, <1>4

LEMMA OwnMove ==
    ASSUME TypeOK, NEW e \in Exec, Kept(e), Placed(e), Create(e) \/ Execute(e)
    PROVE  Steps
<1>0. row[e] \in Status /\ row \in [Exec -> Status] /\ \A d \in Exec \ {e} : run'[d] = run[d]
  BY OthersStep DEF TypeOK, Same
<1>1. ASSUME row' = row, Phase(e)' = Phase(e) PROVE Steps
  BY <1>0, <1>1, PhaseGoes DEF Steps
<1>2. ASSUME Phase(e) \in {"waiting", "closing"}, Phase(e)' = "over",
             row' = row \/ (Exists(e) /\ row' = [row EXCEPT ![e] = "failed"])
      PROVE  Steps
  <2>1. Contract!Goes(e, Phase(e), "over")
    BY <1>0, <1>2, PhaseGoes
  <2>2. Contract!Leave(e)
    BY <1>2, <2>1 DEF Contract!Leave, Contract!Sets, Contract!There, Exists
  <2> QED BY <2>2 DEF Steps, Contract!Next
<1>3. CASE Create(e)
  <2>1. run'[e].pc = "load" /\ run[e].pc = "idle" /\ row[e] = "none"
    BY <1>3 DEF TypeOK, Create, Goto, Thread, At, Placed
  <2>2. Phase(e) = "waiting" /\ Phase(e)' = "waiting"
    BY <2>1 DEF Phase
  <2>3. Phases' = Phases
    BY <1>0, <2>2, PhaseGoes
  <2>4. Contract!Ask(e)
    BY <1>3, <2>1, <2>2, <2>3 DEF Contract!Ask, Create, Phases
  <2> QED BY <2>4 DEF Steps, Contract!Next
<1>4. CASE Load(e)
  <2>1. run[e].pc = "load" /\ run'[e].pc \in {"start", "reject", "done"} /\ row' = row
    BY <1>4 DEF TypeOK, Load, Thread, At
  <2>2. Phase(e) = "waiting" /\ Phase(e)' \in {"waiting", "over"}
    BY <2>1 DEF Phase
  <2> QED BY <1>1, <1>2, <2>1, <2>2
<1>5. CASE Reject(e) /\ ~Broken(e)
  <2>1. run[e].pc = "reject" /\ run'[e].pc = "done" /\ Exists(e)
    BY <1>5 DEF TypeOK, Reject, Goto, Thread, At
  <2>2. row' = row \/ row' = [row EXCEPT ![e] = "failed"]
    BY <1>0, <1>5 DEF Reject, Written
  <2>3. Phase(e) = "waiting" /\ Phase(e)' = "over"
    BY <2>1 DEF Phase
  <2> QED BY <1>2, <2>1, <2>2, <2>3
<1>6. CASE Start(e) /\ ~Broken(e)
  <2>1. run[e].pc = "start" /\ run'[e].pc = "register" /\ Exists(e)
    BY <1>6 DEF TypeOK, Start, Goto, Thread, At
  <2>2. row[e] \in {"pending", "cancelled"}
    BY <1>0, <2>1 DEF Exists, Placed, Begun, Kept, Carried, At, Status, Open, Final
  <2>3. row' = [row EXCEPT ![e] = "running"]
    BY <1>6, <2>1 DEF Start, Written, Placed, At
  <2>4. Phase(e) = "waiting" /\ Phase(e)' = "running"
    BY <2>1 DEF Phase
  <2>5. Contract!Start(e)
    BY <1>0, <2>2, <2>3, <2>4, PhaseGoes DEF Contract!Start, Contract!Sets, Contract!There
  <2> QED BY <2>5 DEF Steps, Contract!Next
<1>7. CASE Finish(e) /\ ~Broken(e)
  <2>1. run[e].pc = "finish" /\ run'[e].pc = "pop" /\ Exists(e)
    BY <1>7 DEF TypeOK, Finish, Goto, Thread, At
  <2>2. Phase(e) = "running" /\ Phase(e)' = "closing"
    BY <2>1 DEF Phase
  <2>3. row' = [row EXCEPT ![e] = Written(e, run[e].seen, Outcome(e))]
    BY <1>7 DEF Finish
  <2>4. Outcome(e) \in {"success", "failed"}
    BY DEF Outcome
  <2>5. run[e].seen = Outcome(e) => row[e] \in Final
    BY <2>1, <2>4 DEF Kept, Carried, Closed, Exists, Final
  <2>6. Written(e, run[e].seen, Outcome(e))
           \in {"success", "failed"} \cup ({row[e]} \cap Contract!Ends)
    BY <2>4, <2>5 DEF Written, Final, Contract!Ends
  <2>7. Contract!Goes(e, "running", "closing")
    BY <1>0, <2>2, PhaseGoes
  <2>8. Contract!Report(e)
    BY <2>1, <2>3, <2>6, <2>7 DEF Contract!Report, Contract!Sets, Contract!There, Exists
  <2> QED BY <2>8 DEF Steps, Contract!Next
<1>8. CASE Pop(e) /\ ~Broken(e)
  <2>1. run[e].pc = "pop" /\ run'[e].pc = "done" /\ row' = row
    BY <1>8 DEF TypeOK, Pop, Goto, Thread, At
  <2>2. Phase(e) = "closing" /\ Phase(e)' = "over"
    BY <2>1 DEF Phase
  <2> QED BY <1>2, <2>1, <2>2
<1>9. CASE Rescue(e)
  <2>1. run[e].pc = "rescue" /\ run'[e].pc \in {"done", "botched"}
    BY <1>9 DEF TypeOK, Rescue, Goto, Thread, At
  <2>2. row' = row \/ (Exists(e) /\ row' = [row EXCEPT ![e] = "failed"])
    BY <1>9 DEF Rescue
  <2>3. Phase(e) = "closing" /\ Phase(e)' = "over"
    BY <2>1 DEF Phase
  <2> QED BY <1>2, <2>2, <2>3
<1>10. CASE (Register(e) \/ Prepare(e)) /\ ~Broken(e)
  <2>1. run[e].pc \in {"register", "prepare"} /\ run'[e].pc \in {"prepare", "play", "report"}
    BY <1>10 DEF TypeOK, Register, Prepare, Goto, Thread, At
  <2>2. Phase(e)' = Phase(e) /\ row' = row
    BY <1>10, <2>1 DEF Phase, Register, Prepare
  <2> QED BY <1>1, <2>2
<1>11. CASE Exit(e) \/ LoseSight(e) \/ Report(e)
  <2>1. /\ row' = row
        /\ \/ run'[e].pc = run[e].pc
           \/ run[e].pc \in {"play", "report"} /\ run'[e].pc \in {"report", "finish"}
    BY <1>11 DEF TypeOK, Exit, LoseSight, Report, Goto, Thread, At
  <2>2. Phase(e)' = Phase(e)
    BY <2>1 DEF Phase
  <2> QED BY <1>1, <2>1, <2>2
<1>12. CASE Broken(e) /\ run[e].pc \in {"reject", "start", "register", "prepare", "finish", "pop"}
  BY <1>12, BrokenMove
<1> QED
  BY <1>3, <1>4, <1>5, <1>6, <1>7, <1>8, <1>9, <1>10, <1>11, <1>12
  DEF Execute, Reject, Start, Register, Prepare, Finish, Pop, At

LEMMA OthersMove ==
    ASSUME PlacedInv, NEW r \in Other, CommitStatus(r) \/ CommitDelete(r) \/ CommitDrop(r)
    PROVE  Steps
<1>0. TypeOK /\ (\A e \in Exec : Placed(e)) /\ row \in [Exec -> Status]
  BY DEF PlacedInv, Inv, TypeOK
<1>1. Phases' = Phases
  BY DEF CommitStatus, CommitDelete, CommitDrop, Phases, Phase
<1>2. CASE CommitStatus(r) /\ row' # row
  <2> DEFINE new == Target(req[r].op)
             S == {e \in Exec : e \in Loaded(r) /\ req[r].seen[e] # new}
  <2>1. row' = [e \in Exec |-> IF e \in Loaded(r) THEN Written(e, req[r].seen[e], new)
                               ELSE row[e]]
        /\ \A e \in Loaded(r) : Exists(e)
    BY <1>2 DEF CommitStatus
  <2>2. row' = [e \in Exec |-> IF e \in S THEN new ELSE row[e]]
    BY <2>1 DEF Written
  <2>3. S \in SUBSET {e \in Exec : Contract!There(e)}
    BY <2>1 DEF Contract!There, Exists
  <2>4. CASE req[r].op # "sweep"
    <3>1. new = "cancelled"
      BY <2>4 DEF Target
    <3> HIDE DEF S, new
    <3>2. Contract!Cancel
      BY <1>1, <2>2, <2>3, <3>1 DEF Contract!Cancel, Contract!All, Phases
    <3> QED BY <3>2 DEF Steps, Contract!Next
  <2>5. CASE req[r].op = "sweep"
    <3>1. new = "failed"
      BY <2>5 DEF Target
    <3>2. \A e \in S : Begun(e)
      BY <1>0, <2>5 DEF Placed, Loaded
    <3>3. \A e \in S : Phases[e] # "waiting"
      BY <3>2 DEF Phases, Phase, Begun
    <3> HIDE DEF S, new
    <3>4. S \in SUBSET {e \in Exec : Contract!There(e) /\ Phases[e] # "waiting"}
      BY <2>3, <3>3
    <3>5. Contract!Sweep
      BY <1>1, <2>2, <3>1, <3>4 DEF Contract!Sweep, Contract!All, Phases
    <3> QED BY <3>5 DEF Steps, Contract!Next
  <2> QED BY <2>4, <2>5
<1>3. ASSUME NEW S, S \in SUBSET {e \in Exec : row[e] # "none"},
             row' = [e \in Exec |-> IF e \in S THEN "deleted" ELSE row[e]]
      PROVE  Steps
  <2>1. Contract!Delete
    BY <1>1, <1>3 DEF Contract!Delete, Contract!All, Phases
  <2> QED BY <2>1 DEF Steps, Contract!Next
<1>4. CASE CommitDelete(r)
  <2> DEFINE S == Loaded(r)
  <2>1. S \in SUBSET {e \in Exec : row[e] # "none"}
    BY <1>0 DEF Placed, Loaded
  <2>2. row' = [e \in Exec |-> IF e \in S THEN "deleted" ELSE row[e]]
    BY <1>4 DEF CommitDelete
  <2> HIDE DEF S
  <2> QED BY <1>3, <2>1, <2>2
<1>5. CASE CommitDrop(r)
  <2> DEFINE S == {e \in Exec : row[e] # "none"}
  <2>1. row' = [e \in Exec |-> IF e \in S THEN "deleted" ELSE row[e]]
    BY <1>5 DEF CommitDrop
  <2> HIDE DEF S
  <2>2. S \in SUBSET {e \in Exec : row[e] # "none"}
    BY DEF S
  <2> QED BY <1>3, <2>1, <2>2
<1> QED BY <1>1, <1>2, <1>4, <1>5 DEF Steps

LEMMA CrashMove == ASSUME TypeOK, Crash PROVE Steps
<1> DEFINE S == {e \in Exec : run[e].pc \notin {"idle", "done", "botched"}}
<1>1. row' = row /\ \A e \in Exec : IF e \in S THEN run'[e].pc = "lost" ELSE run'[e] = run[e]
  BY DEF TypeOK, Crash, Thread
<1>2. \A e \in Exec : Phase(e)' = IF e \in S THEN "over" ELSE Phase(e)
  BY <1>1 DEF Phase
<1>3. Phases' = [e \in Exec |-> IF e \in S THEN "over" ELSE Phases[e]]
  BY <1>2 DEF Phases
<1>4. S \in SUBSET Exec
  OBVIOUS
<1> HIDE DEF S
<1>5. Contract!Lose
  BY <1>1, <1>3, <1>4 DEF Contract!Lose, Phases
<1> QED BY <1>5 DEF Steps, Contract!Next

LEMMA EveryMove == ASSUME PlacedInv, [Next]_vars PROVE Steps
<1>0. TypeOK /\ \A e \in Exec : Kept(e) /\ Placed(e)
  BY DEF PlacedInv, Inv
<1>1. ASSUME NEW e \in Exec, Create(e) \/ Execute(e) PROVE Steps
  BY <1>0, <1>1, OwnMove
<1>2. ASSUME NEW r \in Other, CommitStatus(r) \/ CommitDelete(r) \/ CommitDrop(r) PROVE Steps
  BY <1>2, OthersMove
<1>3. ASSUME UNCHANGED <<row, run>> PROVE Steps
  BY <1>3 DEF Steps, Phases, Phase
<1>4. CASE Reads \/ Tick \/ UNCHANGED vars
  BY <1>3, <1>4, ReadsRead DEF Tick, vars
<1> QED BY <1>0, <1>1, <1>2, <1>4, CrashMove DEF Next, Reads, Other

\* The status of an execution keeps to ExecutionLifecycle, whatever is
\* requested, swept or lost: what says success has run, and nothing runs twice.
THEOREM LifecycleKept == Spec => KeepsLifecycle
<1>1. Init => Contract!Init
  BY DEF Init, Contract!Init, Phase, Thread
<1>2. PlacedInv /\ [Next]_vars => [Contract!Next]_(Contract!vars)
  BY EveryMove DEF Steps, Phases, Contract!vars
<1> QED BY <1>1, <1>2, PlacedInvHolds, PTL DEF Spec, KeepsLifecycle, Contract!Spec

----------------------------------------------------------------------------
(***************************************************************************)
(* The counter.  A thread loads no more than has been carried out by then,   *)
(* and its own execution is not among them.                                 *)
(***************************************************************************)
Counted ==
    /\ IsFiniteSet(ended)
    /\ playbook.count <= Cardinality(ended)
    /\ \A e \in Exec : run[e].read <= Cardinality(ended)

\* A step that carries nothing out, and loads at most the counter, is harmless.
LEMMA CountKept ==
    ASSUME TypeOK, Counted, ended' = ended, playbook'.count = playbook.count,
           \A e \in Exec : run'[e].read \in {0, playbook.count, run[e].read}
    PROVE  Counted'
<1>1. Cardinality(ended) \in Nat
  BY FS_CardinalityType DEF Counted
<1>2. \A e \in Exec : run'[e].read <= Cardinality(ended)
  BY <1>1 DEF Counted
<1> QED BY <1>2 DEF Counted

LEMMA FinishCounts ==
    ASSUME TypeOK, Counted, NEW e \in Exec, Kept(e), Finish(e), ~Broken(e)
    PROVE  Counted'
<1>1. /\ playbook'.count = run[e].read + 1 /\ ended' = ended \cup {e}
      /\ e \notin ended
      /\ \A d \in Exec : run'[d].read \in {0, run[d].read}
  BY DEF TypeOK, Finish, Goto, Thread, Kept, Carried, At
<1>2. IsFiniteSet(ended') /\ Cardinality(ended') = Cardinality(ended) + 1
  BY <1>1, FS_AddElement DEF Counted
<1>3. Cardinality(ended) \in Nat
  BY FS_CardinalityType DEF Counted
<1>4. \A d \in Exec : run[d].read \in Nat /\ run[d].read <= Cardinality(ended)
  BY DEF TypeOK, Threads, Counted
<1>5. playbook'.count <= Cardinality(ended')
  BY <1>1, <1>2, <1>3, <1>4
<1>6. \A d \in Exec : run'[d].read <= Cardinality(ended')
  BY <1>1, <1>2, <1>3, <1>4
<1> QED BY <1>2, <1>5, <1>6 DEF Counted

LEMMA CountStep == ASSUME Inv, Counted, [Next]_vars PROVE Counted'
<1> USE DEF Inv
<1>1. ASSUME NEW e \in Exec, Create(e) \/ Execute(e) PROVE Counted'
  <2>1. CASE Finish(e) /\ ~Broken(e)
    BY <2>1, FinishCounts
  <2>2. CASE ~(Finish(e) /\ ~Broken(e))
    <3>1. ended' = ended /\ playbook' = playbook
      BY <1>1, <2>2
      DEF Create, Execute, Load, Reject, Start, Register, Prepare, Exit,
      LoseSight, Report, Finish, Pop, Rescue, Broken
    <3>2. \A d \in Exec : run'[d].read \in {0, playbook.count, run[d].read}
      BY <1>1, <2>2
      DEF TypeOK, Create, Execute, Load, Reject, Start, Register, Prepare, Exit,
      LoseSight, Report, Finish, Pop, Rescue,
          Broken, Goto, Thread
    <3> QED BY <3>1, <3>2, CountKept
  <2> QED BY <2>1, <2>2
<1>2. CASE Reads
  BY <1>2, ReadsRead, CountKept
<1>3. ASSUME NEW r \in Other, CommitStatus(r) \/ CommitDelete(r) \/ CommitDrop(r) PROVE Counted'
  <2>1. run' = run /\ ended' = ended /\ playbook'.count = playbook.count
    BY <1>3 DEF TypeOK, CommitStatus, CommitDelete, CommitDrop
  <2> QED BY <2>1, CountKept
<1>4. CASE Crash
  BY <1>4, CountKept DEF TypeOK, Crash, Thread
<1>5. CASE Tick \/ UNCHANGED vars
  BY <1>5, CountKept DEF Tick, vars
<1> QED BY <1>1, <1>2, <1>3, <1>4, <1>5 DEF Next, Reads, Other

\* execution_count never exceeds the number of executions that were carried
\* out, for any number of threads that read it and write it back.
THEOREM CountIsBounded == Spec => []CountBounded
<1>1. Init => Counted
  BY FS_EmptySet DEF Init, Counted, Thread
<1>2. Inv /\ Counted /\ [Next]_vars => Counted'
  BY CountStep
<1>3. Counted => CountBounded
  BY DEF Counted, CountBounded
<1> QED BY <1>1, <1>2, <1>3, InvHolds, PTL DEF Spec

----------------------------------------------------------------------------
\* An ansible-playbook process has the thread that started it waiting for it,
\* whatever the other requests do to the record short of deleting it, until
\* something fails.
THEOREM PlaysAlwaysWatched == Spec => []PlaysAreWatched
<1> DEFINE Watched(e) == /\ At(e, "play") => e \in process
                         /\ e \in process => At(e, "play") \/ row[e] = "deleted" \/ faults > 0
<1>1. Init => PlaysAreWatched
  BY DEF Init, PlaysAreWatched, At, Thread
<1>2. ASSUME PlacedInv, PlaysAreWatched, [Next]_vars
      PROVE  PlaysAreWatched'
  <2> SUFFICES ASSUME NEW e \in Exec PROVE Watched(e)'
    BY DEF PlaysAreWatched
  <2>0. TypeOK /\ Kept(e) /\ Placed(e) /\ Watched(e) /\ faults \in Nat
    BY <1>2, BoundsAssumption DEF PlacedInv, Inv, TypeOK, PlaysAreWatched
  <2>1. ASSUME NEW d \in Exec, Create(d) \/ Execute(d) PROVE Watched(e)'
    <3>1. faults' \in Nat /\ faults' >= faults
      BY <2>0, <2>1 DEF Create, Execute, Load, Reject, Start, Register, Prepare, Exit, LoseSight,
                        Report, Finish, Pop, Rescue, Broken, Fault
    <3>2. CASE d # e
      <4>1. run'[e] = run[e] /\ row'[e] = row[e]
        BY <2>0, <2>1, <3>2, OthersStep DEF Same
      <4>2. e \in process' <=> e \in process
        BY <2>1, <3>2 DEF Create, Execute, Load, Reject, Start, Register, Prepare, Exit, LoseSight,
                          Report, Finish, Pop, Rescue, Broken
      <4> QED BY <2>0, <3>1, <4>1, <4>2 DEF At
    <3>3. CASE d = e /\ Prepare(e)
      BY <2>0, <3>1, <3>3 DEF TypeOK, Prepare, Broken, Goto, Thread, At
    <3>4. CASE d = e /\ Exit(e)
      BY <2>0, <3>1, <3>4 DEF TypeOK, Exit, Thread, At
    <3>5. CASE d = e /\ LoseSight(e)
      <4>1. run'[e].pc = "report" /\ row' = row /\ process' = process
        BY <2>0, <3>5 DEF TypeOK, LoseSight, Goto, Thread
      <4>2. row[e] = "deleted" \/ faults' > 0
        BY <2>0, <3>5 DEF LoseSight, Exists, Fault, Kept, Carried, At
      <4> QED BY <4>1, <4>2 DEF At
    <3>6. CASE d = e /\ ~(Prepare(e) \/ Exit(e) \/ LoseSight(e))
      <4>1. process' = process /\ ~At(e, "play")
        BY <2>1, <3>6 DEF Create, Execute, Load, Reject, Start, Register, Report, Finish, Pop, Rescue,
                     Broken, At
      <4>2. run'[e].pc # "play"
        BY <2>0, <2>1, <3>6 DEF TypeOK, Create, Execute, Load, Reject, Start, Register,
                                Report, Finish, Pop, Rescue, Broken, Goto, Thread, At
      <4>3. row[e] = "deleted" => row'[e] = "deleted"
        BY <2>0, <2>1, <3>6 DEF TypeOK, Create, Execute, Load, Reject, Start, Register,
                                Report, Finish, Pop, Rescue, Broken, Exists, Placed, At
      <4> QED BY <2>0, <3>1, <4>1, <4>2, <4>3 DEF At
    <3> QED BY <2>1, <3>2, <3>3, <3>4, <3>5, <3>6
  <2>2. ASSUME NEW r \in Other, CommitStatus(r) \/ CommitDelete(r) \/ CommitDrop(r)
        PROVE  Watched(e)'
    <3>1. row[e] = "deleted" => row'[e] = "deleted"
      BY <2>0, <2>2 DEF TypeOK, CommitStatus, CommitDelete, CommitDrop, Exists
    <3> QED BY <2>0, <2>2, <3>1 DEF CommitStatus, CommitDelete, CommitDrop, At
  <2>3. CASE Crash
    <3>1. faults' > 0 /\ process' = process
      BY <2>0, <2>3 DEF Crash, Fault
    <3>2. run'[e].pc # "play"
      BY <2>0, <2>3 DEF TypeOK, Crash, Thread
    <3> QED BY <3>1, <3>2 DEF At
  <2>4. CASE Reads
    BY <2>0, <2>4, ReadsRead DEF At
  <2>5. CASE Tick \/ UNCHANGED vars
    BY <2>0, <2>5 DEF Tick, vars, At
  <2> QED BY <1>2, <2>1, <2>2, <2>3, <2>4, <2>5 DEF Next, Reads, Other
<1> QED BY <1>1, <1>2, PlacedInvHolds, PTL DEF Spec
=============================================================================
