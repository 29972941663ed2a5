------------------------ MODULE ProbeScheduleProofs ------------------------
(***************************************************************************)
(* Proofs about ProbeSchedule: the lock keeps schedulings apart and the     *)
(* probe keeps to its rate, for every set of messages and of intervals.     *)
(***************************************************************************)
EXTENDS ProbeSchedule, FiniteSetTheorems, TLAPS, WellFoundedInduction

----------------------------------------------------------------------------
(***************************************************************************)
(* What makes LockExcludes and KeepsRate inductive.                         *)
(***************************************************************************)
\* The lock a task has taken still runs: its time to live and the time the
\* task has held it add up to the interval it was taken for.
LockRuns ==
    \A t \in Task :
        /\ task[t].pc # "free" => task[t].iv \in Intervals
        /\ InSection(t) => /\ task[t].held <= MaxHold
                          /\ lock + task[t].held = task[t].iv
        /\ ~InSection(t) => task[t].held = 0
        /\ task[t].pc \notin Timed => task[t].at = 0
        /\ task[t].pc \in Timed => task[t].at <= task[t].held

\* probe_last_run is never older than the last dispatch says, and outlives the
\* interval it stands for.
LastRunTells ==
    IF lastRun = Absent THEN gap >= MinInterval
    ELSE /\ lastRun.ttl >= 1
         /\ lastRun.age + lastRun.ttl >= 2 * MinInterval
         /\ lastRun.age + lastRun.ttl < Far
         /\ lastRun.age <= gap

\* A task that has decided to dispatch does so an interval after the last one.
DueInTime ==
    \A t \in Task :
        /\ task[t].pc \in Timed => task[t].at + MinInterval <= gap
        /\ task[t].pc = "send" => lastRun # Absent /\ lastRun.age = task[t].at

\* The inductive invariant of EditSpec when MaxHold is below every interval:
\* the lock outlives its holder, and probe_last_run covers the last dispatch.
Inductive == TypeOK /\ LockExcludes /\ LockRuns /\ LastRunTells /\ DueInTime
----------------------------------------------------------------------------

LEMMA Bounds ==
    /\ MinInterval \in Nat /\ MinInterval > 0
    /\ \A i \in Intervals : i \in Nat /\ MinInterval <= i /\ i <= MaxInterval
    /\ MinInterval <= MaxInterval
    /\ MaxInterval \in Nat /\ MaxHold \in Nat /\ MaxFaults \in Nat
    /\ Far = 2 * MaxInterval + MaxHold + 1 /\ Far \in Nat
<1>1. PICK m \in Intervals : \A i \in Intervals : i <= m
  BY IntervalsAssumption
<1>2. MaxInterval \in Intervals /\ \A i \in Intervals : i <= MaxInterval
  BY <1>1 DEF MaxInterval
<1>3. PICK n \in Intervals : \A i \in Intervals : <<i, n>> \notin OpToRel(<, Nat)
  <2>1. Intervals \subseteq Nat /\ Intervals # {}
    BY IntervalsAssumption
  <2>2. QED BY <2>1, NatLessThanWellFounded, WFMin
<1>4. \A i \in Intervals : n <= i
  <2>1. \A i \in Intervals : <<i, n>> \notin {ss \in Nat \X Nat : ss[1] < ss[2]}
    BY <1>3, Zenon DEF OpToRel
  <2>2. ASSUME NEW i \in Intervals PROVE ~(i < n)
    <3>1. i \in Nat /\ n \in Nat
      BY IntervalsAssumption
    <3>2. <<i, n>> \in Nat \X Nat /\ <<i, n>>[1] = i /\ <<i, n>>[2] = n
      BY <3>1
    <3>3. QED BY <2>1, <3>2, Zenon
  <2>3. QED BY <2>2, IntervalsAssumption
<1>5. MinInterval \in Intervals /\ \A i \in Intervals : MinInterval <= i
  BY <1>3, <1>4 DEF MinInterval
<1>6. QED BY <1>2, <1>5, IntervalsAssumption, BoundsAssumption DEF Far

LEMMA WholeSecondsNat == ASSUME NEW n \in Nat PROVE WholeSeconds(n) \in Nat
<1>1. n \div PerSecond \in Nat /\ PerSecond \in Nat
  BY PerSecondAssumption
<1>2. \A a, b \in Nat : a * b \in Nat
  OBVIOUS
<1>3. QED BY <1>1, <1>2 DEF WholeSeconds

LEMMA FarEnough == Far >= MinInterval + MaxHold
BY Bounds

LEMMA LaterNat == ASSUME NEW n \in Nat PROVE Later(n) \in Nat
BY Bounds DEF Later

LEMMA IntervalNat == \A i \in Intervals \cup {0} : i \in Nat
BY IntervalsAssumption

LEMMA MessageType ==
    ASSUME NEW iv \in Intervals \cup {0}, NEW d \in Nat
    PROVE  Message(iv, d) \in TaskRecord
BY DEF Message, TaskRecord

\* A publisher that holds a message has read a row's interval, and a publisher's
\* step leaves it with what it has read or with nothing.
LEMMA HoldingType ==
    ASSUME TypeOK, NEW p \in Publisher, offer[p].pc = "publish"
    PROVE  offer[p].iv \in Intervals
BY DEF TypeOK, Idle, Reloading, Holding

LEMMA PublisherType ==
    ASSUME TypeOK, NEW p \in Publisher,
           Beat(p) \/ StartProbe(p) \/ ReloadProbe(p) \/ Publish(p) \/ PublishFails(p)
    PROVE  offer' \in [Publisher -> {Idle, Reloading} \cup {Holding(iv) : iv \in Intervals}]
<1>1. Holding(probe.iv) \in {Holding(iv) : iv \in Intervals}
  BY DEF TypeOK
<1>2. \E x \in {Idle, Reloading, Holding(probe.iv)} : offer' = [offer EXCEPT ![p] = x]
  BY DEF Beat, StartProbe, ReloadProbe, Publish, PublishFails
<1>3. QED BY <1>1, <1>2 DEF TypeOK

LEMMA SucceedType ==
    ASSUME TypeOK, NEW t \in Task, task[t].pc \in Running, NEW d \in Nat,
           Succeed(t, d)
    PROVE  task' \in [Task -> TaskRecord]
<1>1. PICK new \in FreeTasks :
        task' = [task EXCEPT ![new] = Message(task[t].iv, d),
                             ![t] = [@ EXCEPT !.pc = "unlock", !.rem = 0]]
  BY DEF Succeed
<1>2. Message(task[t].iv, d) \in TaskRecord
  BY MessageType DEF TypeOK, TaskRecord
<1>3. [task[t] EXCEPT !.pc = "unlock", !.rem = 0] \in TaskRecord
  BY ZenonT(20) DEF TypeOK, TaskRecord, Running, Critical
<1>4. task[t].pc # "free" /\ task[new].pc = "free"
  BY DEF FreeTasks, Running, Critical
<1>5. QED BY <1>1, <1>2, <1>3, <1>4 DEF TypeOK, FreeTasks

----------------------------------------------------------------------------
\* Every step keeps the types.
LEMMA TypeStep == ASSUME TypeOK, [Next]_vars PROVE TypeOK'
<1> USE DEF TypeOK
<1>1. ASSUME NEW p \in Publisher, Beat(p) \/ ReloadProbe(p) PROVE TypeOK'
  BY <1>1, PublisherType DEF Beat, ReloadProbe
<1>0. CASE Start
  <2>1. PICK p \in Publisher : StartProbe(p)
    BY <1>0 DEF Start
  <2>2. probe' \in [exists : BOOLEAN, enabled : BOOLEAN, auto : BOOLEAN, iv : Intervals]
    BY <2>1 DEF StartProbe
  <2>3. QED BY <2>1, <2>2, PublisherType DEF StartProbe
<1>9. ASSUME NEW p \in Publisher, Publish(p) PROVE TypeOK'
  <2>1. PICK new \in FreeTasks : task' = [task EXCEPT ![new] = Message(offer[p].iv, 0)]
    BY <1>9 DEF Publish
  <2>2. Message(offer[p].iv, 0) \in TaskRecord
    BY <1>9, HoldingType, MessageType DEF Publish
  <2>3. task' \in [Task -> TaskRecord]
    BY <2>1, <2>2 DEF FreeTasks
  <2>4. QED BY <1>9, <2>3, PublisherType DEF Publish
<1>10. ASSUME NEW p \in Publisher, PublishFails(p) PROVE TypeOK'
  <2>1. faults' \in 0..MaxFaults
    BY <1>10, Bounds DEF PublishFails
  <2>2. QED BY <1>10, <2>1, PublisherType DEF PublishFails
<1>2. CASE Operate
  <2>2. CASE StopProbe
    BY <2>2 DEF StopProbe
  <2>3. CASE StopClearsLastRun
    BY <2>3 DEF StopClearsLastRun, Absent
  <2>4. CASE StopClearsLock
    BY <2>4 DEF StopClearsLock
  <2>5. QED BY <1>0, <1>2, <2>2, <2>3, <2>4 DEF Operate
<1>3. CASE Edit
  <2>1. CASE UpdateProbe
    BY <2>1, Bounds DEF UpdateProbe
  <2>2. CASE DeleteProbe
    BY <2>2 DEF DeleteProbe
  <2>3. QED BY <1>0, <1>3, <2>1, <2>2 DEF Edit
<1>4. ASSUME NEW t \in Task, Step(t) PROVE TypeOK'
  <2>1. CASE Check(t)
    BY <2>1 DEF Check, Goto, Finish, Free, TaskRecord, Running, Critical
  <2>2. CASE TryLock(t)
    BY <2>2, Bounds DEF TryLock, Goto, Finish, Free, TaskRecord, Running, Critical
  <2>3. CASE ReadLastRun(t)
    BY <2>3, Bounds DEF ReadLastRun, IsDue, Goto, TaskRecord, Running,
                      Critical
  <2>4. CASE SetLastRun(t)
    BY <2>4, Bounds DEF SetLastRun, Goto, TaskRecord, Running, Critical
  <2>5. CASE Dispatch(t)
    <3>1. [task[t] EXCEPT !.pc = "next", !.at = 0] \in TaskRecord
      BY ZenonT(20) DEF TaskRecord, Running, Critical
    <3>2. task' \in [Task -> TaskRecord]
      BY <2>5, <3>1, Zenon DEF Dispatch
    <3>3. gap' \in Nat
      BY <2>5 DEF Dispatch, TaskRecord
    <3>4. UNCHANGED <<probe, lock, lastRun, stopping, offer, faults>>
      BY <2>5 DEF Dispatch
    <3>5. QED BY <3>2, <3>3, <3>4
  <2>6. CASE ScheduleNext(t)
    <3>1. task[t].iv \in Intervals \cup {0}
      BY DEF TaskRecord
    <3> task[t].iv \in Nat
      BY <3>1, IntervalNat
    <3>2. task' \in [Task -> TaskRecord]
      BY <2>6, <3>1, SucceedType DEF ScheduleNext, Running, Critical
    <3>3. QED BY <2>6, <3>2 DEF ScheduleNext
  <2>7. CASE Reschedule(t)
    <3>1. WholeSeconds(task[t].rem) \in Nat
      BY WholeSecondsNat DEF TaskRecord
    <3>2. task' \in [Task -> TaskRecord]
      BY <2>7, <3>1, SucceedType DEF Reschedule, Running, Critical
    <3>3. QED BY <2>7, <3>2 DEF Reschedule
  <2>8. CASE Unlock(t)
    BY <2>8, SMTT(20) DEF Unlock, Goto, Finish, Free, TaskRecord, Running, Critical
  <2>9. QED
    BY <1>4, <2>1, <2>2, <2>3, <2>4, <2>5, <2>6, <2>7, <2>8 DEF Step
<1>5. ASSUME NEW t \in Task, Fail(t) PROVE TypeOK'
  <2>1. faults' \in 0..MaxFaults
    BY <1>5, Bounds DEF Fail
  <2>2. Free \in TaskRecord
    BY DEF Free, TaskRecord
  <2>3. [task[t] EXCEPT !.pc = "unlock", !.rem = 0, !.at = 0] \in TaskRecord
    BY ZenonT(20) DEF TaskRecord, Running, Critical
  <2>4. task' \in [Task -> TaskRecord]
    BY <1>5, <2>2, <2>3 DEF Fail
  <2>5. QED BY <1>5, <2>1, <2>4 DEF Fail
<1>6. ASSUME NEW t \in Task, LoseWorker(t) PROVE TypeOK'
  <2>1. faults' \in 0..MaxFaults
    BY <1>6, Bounds DEF LoseWorker
  <2>2. Message(task[t].iv, 0) \in TaskRecord
    BY MessageType DEF TaskRecord
  <2>3. QED BY <1>6, <2>1, <2>2 DEF LoseWorker
<1>7. CASE Tick
  <2>1. \A t \in Task : AgeTask(task[t]) \in TaskRecord
    BY DEF AgeTask, Down, TaskRecord
  <2>2. lock' \in Nat /\ lastRun' \in [age : Nat, ttl : Nat]
    BY <1>7 DEF Tick, Down, Absent
  <2>3. QED BY <1>7, <2>1, <2>2, LaterNat DEF Tick
<1>8. CASE UNCHANGED vars
  BY <1>8 DEF vars
<1>11. CASE SteadyNext
  <2>1. CASE Tick
    BY <1>7, <2>1
  <2>2. ASSUME NEW p \in Publisher,
               Beat(p) \/ ReloadProbe(p) \/ Publish(p) \/ PublishFails(p)
        PROVE  TypeOK'
    BY <1>1, <1>9, <1>10, <2>2, Zenon
  <2>3. ASSUME NEW t \in Task, Step(t) \/ Fail(t) \/ LoseWorker(t) PROVE TypeOK'
    BY <1>4, <1>5, <1>6, <2>3, Zenon
  <2> HIDE DEF TypeOK
  <2>4. QED BY <1>11, <2>1, <2>2, <2>3, Zenon DEF SteadyNext
<1> HIDE DEF TypeOK
<1>12. QED BY <1>2, <1>3, <1>8, <1>11 DEF Next

LEMMA TypeInit == ASSUME Init PROVE TypeOK
<1>1. task \in [Task -> TaskRecord]
  BY DEF Init, Free, TaskRecord
<1>2. probe \in [exists : BOOLEAN, enabled : BOOLEAN, auto : BOOLEAN, iv : Intervals]
  BY DEF Init
<1>3. lock \in Nat /\ lastRun \in [age : Nat, ttl : Nat]
  BY DEF Init, Absent
<1>4. /\ stopping \in {"no", "last_run", "lock"}
      /\ faults \in 0..MaxFaults /\ gap \in Nat
  BY Bounds DEF Init
<1>5. offer \in [Publisher -> {Idle, Reloading} \cup {Holding(iv) : iv \in Intervals}]
  BY DEF Init
<1>6. QED BY <1>1, <1>2, <1>3, <1>4, <1>5 DEF TypeOK

\* Whatever is requested, lost or edited, the row, the messages and the keys of
\* a probe keep the shapes the code gives them.
THEOREM TypeCorrect == Spec => []TypeOK
BY TypeInit, TypeStep, PTL DEF Spec

----------------------------------------------------------------------------
(***************************************************************************)
(* The inductive invariant.  Its four parts are stated for a task at a time *)
(* in what follows: an action changes the record of one task, and of the    *)
(* slot that receives a message.                                            *)
(***************************************************************************)
Prompt == MaxHold < MinInterval

\* A new message in a free slot disturbs none of the parts.
LEMMA MessageKeeps ==
    ASSUME Inductive, TypeOK', NEW iv \in Intervals, NEW d, NEW new \in FreeTasks,
           task' = [task EXCEPT ![new] = Message(iv, d)],
           UNCHANGED <<lock, lastRun, gap>>
    PROVE  Inductive'
<1>1. /\ task'[new].pc = "waiting" /\ task'[new].iv = iv /\ new \in Task
      /\ task'[new].held = 0 /\ task'[new].at = 0
  BY DEF Inductive, TypeOK, FreeTasks, Message
<1>2. \A s \in Task : s # new => task'[s] = task[s]
  BY DEF Inductive, TypeOK
<1>3. LockExcludes' /\ LockRuns'
  BY <1>1, <1>2 DEF Inductive, LockExcludes, LockRuns, InSection, Critical, Timed
<1>4. LastRunTells' /\ DueInTime'
  BY <1>1, <1>2 DEF Inductive, LastRunTells, DueInTime, Absent, Timed
<1>5. QED BY <1>3, <1>4 DEF Inductive

\* A task that leaves the critical section, or stays out of it, disturbs none of
\* them either, whatever happens to a lock it held alone.
LEMMA LeavingKeeps ==
    ASSUME Inductive, TypeOK', NEW t \in Task, NEW r,
           task' = [task EXCEPT ![t] = r],
           r.pc \in {"free", "waiting", "checked"},
           r.held = 0, r.at = 0,
           r.pc = "free" \/ (r.iv = task[t].iv /\ task[t].pc # "free"),
           lock' = lock \/ InSection(t), lastRun' = lastRun, gap' = gap
    PROVE  Inductive'
<1>1. task'[t] = r /\ \A s \in Task : s # t => task'[s] = task[s]
  BY DEF Inductive, TypeOK
<1>2. LockExcludes'
  BY <1>1 DEF Inductive, LockExcludes, InSection, Critical
<1>3. \A s \in Task : InSection(s)' => InSection(s) /\ s # t /\ lock' = lock
  BY <1>1 DEF Inductive, LockExcludes, InSection, Critical
<1>4. LockRuns'
  BY <1>1, <1>3 DEF Inductive, LockRuns, InSection, Critical, Timed
<1>5. LastRunTells' /\ DueInTime'
  BY <1>1 DEF Inductive, LastRunTells, DueInTime, Absent, Timed
<1>6. QED BY <1>2, <1>4, <1>5 DEF Inductive

\* A lock in use has not run out.
LEMMA LockHeld ==
    ASSUME Inductive, Prompt, NEW t \in Task, InSection(t)
    PROVE  lock > 0
<1>1. lock + task[t].held = task[t].iv /\ task[t].held <= MaxHold
  BY DEF Inductive, LockRuns
<1>2. task[t].iv \in Intervals
  BY DEF Inductive, LockRuns, InSection, Critical
<1>3. lock \in Nat /\ task[t].held \in Nat
  BY DEF Inductive, TypeOK, TaskRecord
<1>4. QED BY <1>1, <1>2, <1>3, Bounds DEF Prompt

LEMMA CheckKeeps ==
    ASSUME Inductive, TypeOK', NEW t \in Task, Check(t) PROVE Inductive'
<1>1. CASE Active
  <2> DEFINE r == [task[t] EXCEPT !.pc = "checked"]
  <2>1. /\ task' = [task EXCEPT ![t] = r]
        /\ lock' = lock /\ lastRun' = lastRun /\ gap' = gap
    BY <1>1 DEF Check, Goto
  <2>2. /\ r.pc = "checked" /\ r.iv = task[t].iv /\ task[t].pc # "free"
        /\ r.held = 0 /\ r.at = 0
    BY DEF Check, Inductive, TypeOK, TaskRecord, LockRuns, InSection, Critical,
           Timed
  <2> HIDE DEF r
  <2>3. QED BY <2>1, <2>2, LeavingKeeps
<1>2. CASE ~Active
  <2>1. /\ task' = [task EXCEPT ![t] = Free]
        /\ lock' = lock /\ lastRun' = lastRun /\ gap' = gap
    BY <1>2 DEF Check, Finish
  <2>2. Free.pc = "free" /\ Free.held = 0 /\ Free.at = 0
    BY DEF Free
  <2>3. QED BY <2>1, <2>2, LeavingKeeps
<1>3. QED BY <1>1, <1>2

LEMMA TryLockKeeps ==
    ASSUME Inductive, TypeOK', Prompt, NEW t \in Task, TryLock(t) PROVE Inductive'
<1>1. CASE lock # 0
  <2>1. /\ task' = [task EXCEPT ![t] = Free]
        /\ lock' = lock /\ lastRun' = lastRun /\ gap' = gap
    BY <1>1 DEF TryLock, Finish
  <2>2. Free.pc = "free" /\ Free.held = 0 /\ Free.at = 0
    BY DEF Free
  <2>3. QED BY <2>1, <2>2, LeavingKeeps
<1>2. CASE lock = 0
  <2>1. \A s \in Task : ~InSection(s)
    BY <1>2, LockHeld
  <2>2. \A s \in Task : s # t => task'[s] = task[s]
    BY <1>2 DEF TryLock, Goto, Inductive, TypeOK
  <2>3. /\ task'[t].pc = "locked" /\ task'[t].iv = task[t].iv
        /\ task'[t].held = task[t].held /\ task'[t].at = task[t].at
        /\ lock' = task[t].iv /\ lastRun' = lastRun /\ gap' = gap
    BY <1>2 DEF TryLock, Goto, Inductive, TypeOK, TaskRecord
  <2>4. LockExcludes'
    BY <2>1, <2>2 DEF LockExcludes, InSection
  <2>5. task[t].iv \in Intervals /\ task[t].held = 0 /\ task[t].at = 0
    BY DEF TryLock, Inductive, LockRuns, InSection, Critical, Timed
  <2>6. LockRuns'
    BY <2>1, <2>2, <2>3, <2>5, Bounds
       DEF Inductive, LockRuns, InSection, Critical, Timed
  <2>7. LastRunTells' /\ DueInTime'
    BY <2>2, <2>3 DEF Inductive, LastRunTells, DueInTime, Absent, Timed
  <2>8. QED BY <2>4, <2>6, <2>7 DEF Inductive
<1>3. QED BY <1>1, <1>2

\* A task that stays in the section without a decision to dispatch disturbs
\* nothing, and may publish a message at the same time.
LEMMA MovingKeeps ==
    ASSUME Inductive, TypeOK', NEW t \in Task, InSection(t),
           task'[t].pc \in Critical \ Timed, task'[t].iv = task[t].iv,
           task'[t].held = task[t].held, task'[t].at = 0,
           \A s \in Task \ {t} :
              \/ task'[s] = task[s]
              \/ /\ task'[s].pc = "waiting" /\ task'[s].iv \in Intervals
                 /\ task'[s].held = 0 /\ task'[s].at = 0,
           lock' = lock, lastRun' = lastRun, gap' = gap
    PROVE  Inductive'
<1>1. LockExcludes'
  BY DEF Inductive, LockExcludes, InSection, Critical, Timed
<1>2. LockRuns'
  BY DEF Inductive, LockRuns, InSection, Critical, Timed
<1>3. LastRunTells' /\ DueInTime'
  BY DEF Inductive, LastRunTells, DueInTime, Absent, Timed, Critical
<1>4. QED BY <1>1, <1>2, <1>3 DEF Inductive

\* The facts about a task in the section that the next steps use.
LEMMA InSectionFacts ==
    ASSUME Inductive, NEW t \in Task, InSection(t)
    PROVE  /\ task[t].iv \in Intervals
           /\ task[t].at \in Nat /\ task[t].held \in Nat
           /\ task[t].held <= MaxHold
           /\ \A s \in Task : s # t => ~InSection(s)
<1>1. task[t] \in TaskRecord
  BY DEF Inductive, TypeOK
<1>2. task[t].at \in Nat /\ task[t].held \in Nat
  BY <1>1 DEF TaskRecord
<1>3. QED BY <1>2 DEF Inductive, LockExcludes, LockRuns, InSection, Critical

LEMMA ReadLastRunKeeps ==
    ASSUME Inductive, TypeOK', Prompt, NEW t \in Task, ReadLastRun(t)
    PROVE  Inductive'
<1>1. InSection(t) /\ task[t].at = 0
  BY DEF ReadLastRun, InSection, Critical, Timed, Inductive, LockRuns
<1>2. \A s \in Task : s # t => task'[s] = task[s]
  BY DEF ReadLastRun, Goto, Inductive, TypeOK
<1>3. lock' = lock /\ lastRun' = lastRun /\ gap' = gap
  BY DEF ReadLastRun
<1>4. CASE ~IsDue(task[t].iv)
  <2>1. /\ task'[t].pc = "early" /\ task'[t].iv = task[t].iv
        /\ task'[t].held = task[t].held /\ task'[t].at = task[t].at
    BY <1>4 DEF ReadLastRun, Inductive, TypeOK, TaskRecord
  <2>2. QED BY <1>1, <1>2, <1>3, <2>1, MovingKeeps DEF Critical, Timed
<1>5. CASE IsDue(task[t].iv)
  <2>1. /\ task'[t].pc = "due" /\ task'[t].iv = task[t].iv
        /\ task'[t].held = task[t].held /\ task'[t].at = 0
    BY <1>1, <1>5 DEF ReadLastRun, Goto, Inductive, TypeOK, TaskRecord
  <2>2. LockExcludes'
    BY <1>1, <1>2, <2>1 DEF Inductive, LockExcludes, InSection, Critical
  <2>3. LockRuns'
    BY <1>1, <1>2, <1>3, <2>1, InSectionFacts
       DEF Inductive, LockRuns, InSection, Critical, Timed
  <2>4. gap >= MinInterval
    <3>1. CASE lastRun = Absent
      BY <3>1 DEF Inductive, LastRunTells
    <3>2. CASE lastRun # Absent
      <4>1. lastRun.age >= task[t].iv /\ lastRun.age <= gap
        BY <1>5, <3>2 DEF IsDue, Inductive, LastRunTells
      <4>2. lastRun.age \in Nat /\ gap \in Nat
        BY DEF Inductive, TypeOK
      <4>3. task[t].iv \in Nat /\ MinInterval <= task[t].iv
        BY <1>1, InSectionFacts, Bounds
      <4>4. QED BY <4>1, <4>2, <4>3, Bounds
    <3>3. QED BY <3>1, <3>2
  <2>5. LastRunTells'
    BY <1>3 DEF Inductive, LastRunTells, Absent
  <2>6. DueInTime'
    BY <1>2, <1>3, <2>1, <2>4, Bounds DEF Inductive, DueInTime, Absent, Timed
  <2>7. QED BY <2>2, <2>3, <2>5, <2>6 DEF Inductive
<1>6. QED BY <1>4, <1>5

LEMMA SetLastRunKeeps ==
    ASSUME Inductive, TypeOK', Prompt, NEW t \in Task, SetLastRun(t)
    PROVE  Inductive'
<1>1. InSection(t) /\ task[t].pc \in Timed
  BY DEF SetLastRun, InSection, Critical, Timed
<1>2. /\ \A s \in Task : s # t => task'[s] = task[s]
      /\ task'[t].pc = "send" /\ task'[t].iv = task[t].iv
      /\ task'[t].held = task[t].held /\ task'[t].at = task[t].at
  BY DEF SetLastRun, Goto, Inductive, TypeOK, TaskRecord
<1>3. /\ lastRun'.age = task[t].at /\ lastRun'.ttl = 2 * task[t].iv
      /\ lock' = lock /\ gap' = gap
  BY DEF SetLastRun
<1>4. LockExcludes'
  BY <1>1, <1>2 DEF Inductive, LockExcludes, InSection, Critical
<1>5. LockRuns'
  BY <1>1, <1>2, <1>3 DEF Inductive, LockRuns, InSection, Critical, Timed
<1>6. /\ task[t].at + MinInterval <= gap /\ task[t].at <= MaxHold
      /\ task[t].at \in Nat /\ gap \in Nat
  BY <1>1, InSectionFacts, Bounds DEF Inductive, DueInTime, LockRuns, TypeOK
<1>7. /\ task[t].iv \in Nat /\ task[t].iv >= MinInterval
      /\ task[t].iv <= MaxInterval
  BY <1>1, InSectionFacts, Bounds
<1>8. lastRun' # Absent'
  BY <1>3, <1>7, Bounds DEF Absent
<1>9. LastRunTells'
  BY <1>3, <1>6, <1>7, <1>8, Bounds DEF LastRunTells
<1>10. DueInTime'
  <2>1. \A s \in Task : s # t => task'[s].pc \notin Timed
    BY <1>1, <1>2, InSectionFacts DEF InSection, Critical, Timed
  <2>2. QED BY <1>2, <1>3, <1>6, <1>8, <2>1 DEF DueInTime, Timed
<1>11. QED BY <1>4, <1>5, <1>9, <1>10 DEF Inductive

LEMMA DispatchKeeps ==
    ASSUME Inductive, TypeOK', Prompt, NEW t \in Task, Dispatch(t)
    PROVE  Inductive'
<1>1. InSection(t) /\ task[t].pc = "send"
  BY DEF Dispatch, InSection, Critical
<1>2. \A s \in Task : s # t => task'[s] = task[s]
  BY DEF Dispatch, Inductive, TypeOK
<1>3. /\ task'[t].pc = "next" /\ task'[t].iv = task[t].iv
      /\ task'[t].held = task[t].held /\ task'[t].at = 0
  BY DEF Dispatch, Inductive, TypeOK, TaskRecord
<1>4. gap' = task[t].at /\ lock' = lock /\ lastRun' = lastRun
  BY DEF Dispatch
<1>5. LockExcludes'
  BY <1>1, <1>2, <1>3 DEF Inductive, LockExcludes, InSection, Critical
<1>6. LockRuns'
  BY <1>1, <1>2, <1>3, <1>4 DEF Inductive, LockRuns, InSection, Critical, Timed
<1>7. LastRunTells'
  BY <1>1, <1>4, InSectionFacts
     DEF Inductive, LastRunTells, DueInTime, Absent
<1>8. DueInTime'
  BY <1>1, <1>2, <1>3, InSectionFacts DEF DueInTime, InSection, Critical, Timed
<1>9. QED BY <1>5, <1>6, <1>7, <1>8 DEF Inductive

\* Publishing the successor moves the task on to release the lock.
LEMMA SucceedKeeps ==
    ASSUME Inductive, TypeOK', NEW t \in Task, InSection(t),
           task[t].pc \notin Timed, NEW d, Succeed(t, d),
           lock' = lock, lastRun' = lastRun, gap' = gap
    PROVE  Inductive'
<1>1. PICK new \in FreeTasks :
        task' = [task EXCEPT ![new] = Message(task[t].iv, d),
                             ![t] = [@ EXCEPT !.pc = "unlock", !.rem = 0]]
  BY DEF Succeed
<1>2. new \in Task /\ new # t
  BY DEF FreeTasks, InSection, Critical
<1>3. /\ task'[new] = Message(task[t].iv, d)
      /\ task'[t] = [task[t] EXCEPT !.pc = "unlock", !.rem = 0]
      /\ \A s \in Task \ {t, new} : task'[s] = task[s]
  BY <1>1, <1>2 DEF Inductive, TypeOK
<1>4. /\ task'[t].pc = "unlock" /\ task'[t].iv = task[t].iv
      /\ task'[t].held = task[t].held /\ task'[t].at = 0
  BY <1>3 DEF Inductive, TypeOK, TaskRecord, LockRuns
<1>5. /\ task'[new].pc = "waiting" /\ task'[new].iv \in Intervals
      /\ task'[new].held = 0 /\ task'[new].at = 0
  BY <1>3, InSectionFacts DEF Message
<1>6. QED BY <1>3, <1>4, <1>5, MovingKeeps DEF Critical, Timed

LEMMA UnlockKeeps ==
    ASSUME Inductive, TypeOK', NEW t \in Task, Unlock(t) PROVE Inductive'
<1>1. /\ task' = [task EXCEPT ![t] = Free] /\ InSection(t)
      /\ lastRun' = lastRun /\ gap' = gap
  BY DEF Unlock, Finish, InSection, Critical
<1>2. Free.pc = "free" /\ Free.held = 0 /\ Free.at = 0
  BY DEF Free
<1>3. QED BY <1>1, <1>2, LeavingKeeps

LEMMA FailKeeps ==
    ASSUME Inductive, TypeOK', NEW t \in Task, Fail(t) PROVE Inductive'
<1>1. lock' = lock /\ lastRun' = lastRun /\ gap' = gap
  BY DEF Fail
<1>2. CASE task[t].pc \in Critical \ {"unlock"}
  <2>1. task' = [task EXCEPT ![t] = [@ EXCEPT !.pc = "unlock", !.rem = 0, !.at = 0]]
    BY <1>2 DEF Fail
  <2>2. /\ task'[t].pc = "unlock" /\ task'[t].iv = task[t].iv
        /\ task'[t].held = task[t].held /\ task'[t].at = 0
        /\ \A s \in Task \ {t} : task'[s] = task[s]
    BY <2>1 DEF Inductive, TypeOK, TaskRecord
  <2>3. InSection(t)
    BY <1>2 DEF InSection
  <2>4. QED BY <1>1, <2>2, <2>3, MovingKeeps DEF Critical, Timed
<1>3. CASE task[t].pc \notin Critical \ {"unlock"}
  <2>1. task' = [task EXCEPT ![t] = Free]
    BY <1>3 DEF Fail
  <2>2. Free.pc = "free" /\ Free.held = 0 /\ Free.at = 0
    BY DEF Free
  <2>3. QED BY <1>1, <2>1, <2>2, LeavingKeeps
<1>4. QED BY <1>2, <1>3

LEMMA LoseWorkerKeeps ==
    ASSUME Inductive, TypeOK', NEW t \in Task, LoseWorker(t) PROVE Inductive'
<1> DEFINE r == Message(task[t].iv, 0)
<1>1. /\ task' = [task EXCEPT ![t] = r] /\ task[t].pc # "free"
      /\ lock' = lock /\ lastRun' = lastRun /\ gap' = gap
  BY DEF LoseWorker, Running, Critical
<1>2. r.pc = "waiting" /\ r.iv = task[t].iv /\ r.held = 0 /\ r.at = 0
  BY DEF Message
<1> HIDE DEF r
<1>3. QED BY <1>1, <1>2, LeavingKeeps

\* A tick ages the lock with its holder, and probe_last_run with the dispatch.
LEMMA TickKeeps ==
    ASSUME Inductive, TypeOK', Prompt, Tick PROVE Inductive'
<1>1. ASSUME NEW t \in Task
      PROVE  /\ task'[t].pc = task[t].pc /\ task'[t].iv = task[t].iv
             /\ InSection(t) => task'[t].held = task[t].held + 1
             /\ ~InSection(t) => task'[t].held = task[t].held
             /\ task[t].pc \in Timed => task'[t].at = task[t].at + 1
             /\ task[t].pc \notin Timed => task'[t].at = task[t].at
             /\ task[t].held \in Nat /\ task[t].at \in Nat
  <2>1. task'[t] = AgeTask(task[t]) /\ task[t] \in TaskRecord
    BY DEF Tick, Inductive, TypeOK
  <2>2. QED BY <2>1 DEF AgeTask, InSection, TaskRecord
<1>2. LockExcludes'
  BY <1>1 DEF Inductive, LockExcludes, InSection
<1>3. ASSUME NEW t \in Task, InSection(t)
      PROVE  /\ task[t].held + 1 <= MaxHold
             /\ lock' + (task[t].held + 1) = task[t].iv
  <2>1. lock > 0 /\ lock \in Nat /\ lock' = Down(lock)
    BY <1>3, LockHeld DEF Inductive, TypeOK, Tick
  <2>2. lock + task[t].held = task[t].iv /\ task[t].held < MaxHold
    BY <1>3 DEF Inductive, LockRuns, Tick
  <2>3. QED BY <1>1, <2>1, <2>2, Bounds DEF Down
<1>4. LockRuns'
  <2>1. \A t \in Task : InSection(t)' <=> InSection(t)
    BY <1>1 DEF InSection
  <2>2. \A t \in Task : task[t].pc \in Timed => InSection(t)
    BY DEF Timed, InSection, Critical
  <2>3. QED BY <1>1, <1>3, <2>1, <2>2 DEF Inductive, LockRuns
<1>5. gap \in Nat /\ lastRun.age \in Nat /\ lastRun.ttl \in Nat
  BY DEF Inductive, TypeOK
<1>6. gap' = IF gap < Far THEN gap + 1 ELSE Far
  BY DEF Tick, Later
<1>7. LastRunTells'
  <2>1. CASE lastRun = Absent
    <3>1. lastRun' = Absent /\ gap >= MinInterval
      BY <2>1 DEF Tick, Absent, Inductive, LastRunTells
    <3>2. gap' >= MinInterval
      BY <3>1, <1>5, <1>6, FarEnough, Bounds
    <3>3. QED BY <3>1, <3>2 DEF LastRunTells, Absent
  <2>2. CASE lastRun # Absent
    <3>1. /\ lastRun.ttl >= 1 /\ lastRun.age + lastRun.ttl >= 2 * MinInterval
          /\ lastRun.age + lastRun.ttl < Far /\ lastRun.age <= gap
      BY <2>2 DEF Inductive, LastRunTells
    <3>2. lastRun.age + 1 <= gap'
      BY <1>5, <1>6, <3>1, Bounds
    <3>3. CASE lastRun.ttl <= 1
      <4>1. lastRun' = Absent
        BY <3>3 DEF Tick
      <4>2. gap' >= MinInterval
        BY <1>5, <1>6, <3>1, <3>2, <3>3, Bounds
      <4>3. QED BY <4>1, <4>2 DEF LastRunTells, Absent
    <3>4. CASE lastRun.ttl > 1
      <4>1. lastRun'.age = lastRun.age + 1 /\ lastRun'.ttl = lastRun.ttl - 1
        BY <1>5, <3>4 DEF Tick
      <4>2. lastRun' # Absent'
        BY <4>1, <1>5, <3>4 DEF Absent
      <4>3. QED BY <1>5, <3>1, <3>2, <3>4, <4>1, <4>2, Bounds DEF LastRunTells
    <3>5. QED BY <1>5, <3>3, <3>4
  <2>3. QED BY <2>1, <2>2
<1>8. DueInTime'
  <2>1. ASSUME NEW t \in Task, task[t].pc \in Timed
        PROVE  task[t].at + 1 + MinInterval <= gap'
    <3>1. task[t].at + MinInterval <= gap
      BY <2>1 DEF Inductive, DueInTime
    <3>2. InSection(t) /\ task[t].at <= task[t].held
      BY <2>1 DEF Timed, InSection, Critical, Inductive, LockRuns
    <3>3. task[t].at + 1 <= MaxHold
      BY <1>1, <1>3, <3>2, Bounds
    <3>4. QED BY <1>1, <1>5, <1>6, <3>1, <3>3, FarEnough, Bounds
  <2>2. ASSUME NEW t \in Task, task[t].pc = "send"
        PROVE  (lastRun # Absent)' /\ lastRun'.age = task[t].at + 1
    <3>1. InSection(t) /\ task[t].at <= task[t].held
      BY <2>2 DEF Timed, InSection, Critical, Inductive, LockRuns
    <3>2. task[t].at < MaxHold
      BY <1>1, <1>3, <3>1, Bounds
    <3>3. lastRun # Absent /\ lastRun.age = task[t].at
      BY <2>2 DEF Inductive, DueInTime
    <3> lastRun.age + lastRun.ttl >= 2 * MinInterval
      BY <3>3 DEF Inductive, LastRunTells
    <3>4. lastRun.ttl > 1
      BY <1>1, <1>5, <3>2, <3>3, Bounds DEF Prompt
    <3>5. lastRun'.age = lastRun.age + 1 /\ lastRun'.ttl = lastRun.ttl - 1
      BY <1>5, <3>4 DEF Tick
    <3>6. QED BY <1>5, <3>3, <3>4, <3>5 DEF Absent
  <2>3. QED BY <1>1, <2>1, <2>2 DEF DueInTime, Timed
<1>9. QED BY <1>2, <1>4, <1>7, <1>8 DEF Inductive

THEOREM InductiveStep ==
    ASSUME Inductive, Prompt, [SteadyNext \/ Edit]_vars PROVE Inductive'
<1>1. TypeOK'
  <2>1. [Next]_vars
    BY DEF Next
  <2>2. QED BY <2>1, TypeStep DEF Inductive
<1>2. ASSUME NEW p \in Publisher, Publish(p) PROVE Inductive'
  <2>1. PICK new \in FreeTasks : task' = [task EXCEPT ![new] = Message(offer[p].iv, 0)]
    BY <1>2 DEF Publish
  <2>2. offer[p].iv \in Intervals /\ UNCHANGED <<lock, lastRun, gap>>
    BY <1>2, HoldingType DEF Publish, Inductive
  <2>3. QED BY <1>1, <2>1, <2>2, MessageKeeps
<1>3. ASSUME NEW t \in Task, Step(t) PROVE Inductive'
  <2>1. CASE ScheduleNext(t)
    BY <1>1, <2>1, SucceedKeeps DEF ScheduleNext, InSection, Critical, Timed
  <2>2. CASE Reschedule(t)
    BY <1>1, <2>2, SucceedKeeps DEF Reschedule, InSection, Critical, Timed
  <2>3. QED
    BY <1>1, <1>3, <2>1, <2>2, CheckKeeps, TryLockKeeps, ReadLastRunKeeps,
       SetLastRunKeeps, DispatchKeeps, UnlockKeeps DEF Step
<1>4. CASE Tick
  BY <1>1, <1>4, TickKeeps
<1>5. CASE UNCHANGED <<task, lock, lastRun, gap>>
  <2>2. LockExcludes' /\ LockRuns' /\ LastRunTells' /\ DueInTime'
    BY <1>5 DEF Inductive, LockExcludes, LockRuns, LastRunTells, DueInTime,
       InSection, Absent
  <2>3. QED BY <1>1, <2>2 DEF Inductive
<1>6. CASE Edit \/ UNCHANGED vars
  BY <1>5, <1>6 DEF Edit, UpdateProbe, DeleteProbe, Start, StartProbe, vars
<1>8. ASSUME NEW p \in Publisher, Beat(p) \/ ReloadProbe(p) \/ PublishFails(p)
      PROVE  Inductive'
  BY <1>5, <1>8 DEF Beat, ReloadProbe, PublishFails
<1>7. QED
  BY <1>1, <1>2, <1>3, <1>4, <1>6, <1>8, FailKeeps, LoseWorkerKeeps DEF SteadyNext

LEMMA InductiveInit == Init => Inductive
<1> SUFFICES ASSUME Init PROVE Inductive
  OBVIOUS
<1>1. TypeOK
  BY TypeInit
<1>2. \A t \in Task : task[t].pc = "free" /\ task[t].held = 0 /\ task[t].at = 0
  BY DEF Init, Free
<1>3. LockExcludes /\ LockRuns /\ DueInTime
  BY <1>2 DEF LockExcludes, LockRuns, DueInTime, InSection, Critical, Timed
<1>4. LastRunTells
  BY FarEnough, Bounds DEF Init, LastRunTells
<1>5. QED BY <1>1, <1>3, <1>4 DEF Inductive

\* Beat, the workers and whoever edits the row or starts the probe again never bring two tasks between
\* taking probe_lock and releasing it, as long as a task holds the lock for less
\* than the shortest interval.
THEOREM LockExcludesAlways == ASSUME Prompt PROVE EditSpec => []LockExcludes
<1>1. Inductive /\ [SteadyNext \/ Edit]_vars => Inductive'
  BY InductiveStep
<1>2. Inductive => LockExcludes
  BY DEF Inductive
<1>3. QED BY <1>1, <1>2, InductiveInit, PTL DEF EditSpec

\* The rate of a probe: dispatches are no closer than the shortest interval,
\* which is ProbeRate implemented by the schedule.
THEOREM ScheduleKeepsRate == ASSUME Prompt PROVE EditSpec => KeepsRate
<1>1. Init => Rate!Init
  BY DEF Init, Rate!Init
<1>2. Inductive /\ [SteadyNext \/ Edit]_vars => [Rate!Pass \/ Rate!Run]_gap
  <2> SUFFICES ASSUME Inductive, [SteadyNext \/ Edit]_vars
               PROVE  [Rate!Pass \/ Rate!Run]_gap
    OBVIOUS
  <2>1. ASSUME NEW t \in Task, Dispatch(t) PROVE Rate!Run
    <3>1. InSection(t) /\ task[t].pc \in Timed
      BY <2>1 DEF Dispatch, InSection, Critical, Timed
    <3>2. task[t].at \in Nat /\ task[t].at <= MaxHold
      BY <3>1, InSectionFacts, Bounds DEF Inductive, LockRuns
    <3>3. gap >= task[t].at + MinInterval
      BY <3>1, <3>2, Bounds DEF Inductive, DueInTime, TypeOK
    <3>4. gap' = task[t].at /\ task[t].at \in 0..MaxHold
      BY <2>1, <3>2, Bounds DEF Dispatch
    <3>5. QED BY <3>3, <3>4 DEF Rate!Run
  <2>2. ASSUME NEW t \in Task, Step(t), ~Dispatch(t) PROVE UNCHANGED gap
    BY <2>2 DEF Step, Check, TryLock, ReadLastRun, SetLastRun, ScheduleNext,
       Reschedule, Unlock
  <2>3. CASE Tick
    BY <2>3 DEF Tick, Later, Rate!Pass
  <2>4. CASE Edit \/ UNCHANGED vars
    BY <2>4 DEF Edit, UpdateProbe, DeleteProbe, Start, StartProbe, vars
  <2>7. ASSUME NEW p \in Publisher,
               Beat(p) \/ ReloadProbe(p) \/ Publish(p) \/ PublishFails(p)
        PROVE  UNCHANGED gap
    BY <2>7 DEF Beat, ReloadProbe, Publish, PublishFails
  <2>5. ASSUME NEW t \in Task, Fail(t) \/ LoseWorker(t) PROVE UNCHANGED gap
    BY <2>5 DEF Fail, LoseWorker
  <2>6. QED BY <2>1, <2>2, <2>3, <2>4, <2>5, <2>7 DEF SteadyNext
<1>3. Inductive /\ [SteadyNext \/ Edit]_vars => Inductive'
  BY InductiveStep
<1>4. QED BY <1>1, <1>2, <1>3, InductiveInit, PTL DEF EditSpec, KeepsRate, Rate!Spec

----------------------------------------------------------------------------
(***************************************************************************)
(* The number of chains.  A step of a task ends its chain, goes on with it  *)
(* or hands it to the one message it publishes.                             *)
(***************************************************************************)
LEMMA ChainsFinite == IsFiniteSet(Chains) /\ Cardinality(Chains) \in Nat
BY TaskAssumption, FS_Subset, FS_CardinalityType DEF Chains

LEMMA FewerChains ==
    ASSUME Chains' \subseteq Chains
    PROVE  Cardinality(Chains') <= Cardinality(Chains)
BY ChainsFinite, FS_Subset

LEMMA OneTaskMoves ==
    ASSUME TypeOK, NEW t \in Task, NEW r, task' = [task EXCEPT ![t] = r],
           t \in Chains \/ r.pc \in {"free", "unlock"}
    PROVE  Chains' \subseteq Chains
BY DEF TypeOK, Chains

LEMMA HandsOver ==
    ASSUME TypeOK, NEW t \in Chains, NEW d, Succeed(t, d)
    PROVE  Cardinality(Chains') <= Cardinality(Chains)
<1>1. PICK new \in FreeTasks :
        task' = [task EXCEPT ![new] = Message(task[t].iv, d),
                             ![t] = [@ EXCEPT !.pc = "unlock", !.rem = 0]]
  BY DEF Succeed
<1>2. new \in Task /\ new \notin Chains /\ t \in Task /\ t # new
  BY DEF FreeTasks, Chains
<1>3. task'[t].pc = "unlock" /\ \A s \in Task \ {t, new} : task'[s] = task[s]
  BY <1>1, <1>2 DEF TypeOK, TaskRecord
<1>4. Chains' \subseteq (Chains \ {t}) \cup {new}
  BY <1>3 DEF Chains
<1> DEFINE Rest == Chains \ {t}
<1>5. IsFiniteSet(Rest \cup {new}) /\ Cardinality(Rest \cup {new}) = Cardinality(Chains)
  <2>1. IsFiniteSet(Rest) /\ Cardinality(Rest) = Cardinality(Chains) - 1 /\ new \notin Rest
    BY <1>2, ChainsFinite, FS_RemoveElement
  <2> HIDE DEF Rest
  <2>2. IsFiniteSet(Rest \cup {new}) /\ Cardinality(Rest \cup {new}) = Cardinality(Rest) + 1
    BY <2>1, FS_AddElement
  <2>3. QED BY <2>1, <2>2, ChainsFinite
<1>6. QED BY <1>4, <1>5, FS_Subset

LEMMA OfferedFinite ==
    /\ IsFiniteSet(Offered) /\ Cardinality(Offered) \in Nat
    /\ IsFiniteSet(Offered') /\ Cardinality(Offered') \in Nat
BY TaskAssumption, FS_Subset, FS_CardinalityType DEF Offered

\* A publisher that ends, having published or not, is one fewer to come.
LEMMA OneOfferLess ==
    ASSUME TypeOK, NEW p \in Publisher, offer[p].pc # "idle",
           offer' = [offer EXCEPT ![p] = Idle]
    PROVE  Cardinality(Offered') = Cardinality(Offered) - 1
<1>1. Offered' = Offered \ {p} /\ p \in Offered
  BY DEF TypeOK, Offered, Idle
<1>2. QED BY <1>1, OfferedFinite, FS_RemoveElement

\* While the automatic schedule is off nothing adds to the chains that run and to
\* the publications already under way: a start request or a run of
\* schedule_auto_probes that a stop overtakes brings the one message it had set
\* out to publish, and no more.
THEOREM StopAddsNoChain == Spec => NoChainAfterStop
<1> DEFINE Few == ChainsToCome' + faults <= ChainsToCome + faults'
<1>1. TypeOK /\ [Next]_vars /\ ~probe.auto /\ ~probe'.auto => Few
  <2> SUFFICES ASSUME TypeOK, [Next]_vars, ~probe.auto, ~probe'.auto
               PROVE  Few
    OBVIOUS
  <2>1. faults \in Nat /\ Cardinality(Chains) \in Nat
    BY ChainsFinite, BoundsAssumption DEF TypeOK
  <2>12. /\ Cardinality(Offered) \in Nat /\ Cardinality(Offered') \in Nat
         /\ ChainsToCome = Cardinality(Chains) + Cardinality(Offered)
         /\ ChainsToCome' = Cardinality(Chains') + Cardinality(Offered')
    BY OfferedFinite DEF ChainsToCome
  <2>2. Cardinality(Chains') \in Nat
    BY TaskAssumption, FS_Subset, FS_CardinalityType DEF Chains
  <2>3. ASSUME Cardinality(Chains') <= Cardinality(Chains), offer' = offer,
               faults' \in {faults, faults + 1}
        PROVE  Few
    <3>1. Cardinality(Offered') = Cardinality(Offered)
      BY <2>3 DEF Offered
    <3>2. QED BY <2>1, <2>2, <2>3, <2>12, <3>1
  <2>4. ASSUME Chains' \subseteq Chains, offer' = offer, faults' \in {faults, faults + 1}
        PROVE  Few
    BY <2>3, <2>4, FewerChains
  <2>5. ASSUME NEW t \in Task, Step(t) PROVE Few
    <3>1. faults' = faults /\ offer' = offer
      BY <2>5 DEF Step, Check, TryLock, ReadLastRun, SetLastRun, Dispatch, ScheduleNext,
                  Reschedule, Unlock
    <3>2. CASE ScheduleNext(t) \/ Reschedule(t)
      <4>1. t \in Chains
        BY <3>2 DEF ScheduleNext, Reschedule, Chains
      <4>2. QED BY <2>3, <3>1, <3>2, <4>1, HandsOver DEF ScheduleNext, Reschedule
    <3>3. CASE ReadLastRun(t) /\ ~IsDue(task[t].iv)
      <4>1. task' = [task EXCEPT ![t] = [@ EXCEPT !.pc = "early", !.rem = task[t].iv - lastRun.age]]
        BY <3>3 DEF ReadLastRun
      <4>2. t \in Chains
        BY <3>3 DEF ReadLastRun, Chains
      <4>3. QED BY <2>4, <3>1, <4>1, <4>2, OneTaskMoves
    <3>4. CASE Unlock(t)
      <4>1. task' = [task EXCEPT ![t] = Free] /\ Free.pc = "free"
        BY <3>4 DEF Unlock, Finish, Free
      <4>2. QED BY <2>4, <3>1, <4>1, OneTaskMoves
    <3>5. CASE \/ Check(t) \/ TryLock(t) \/ SetLastRun(t) \/ Dispatch(t)
               \/ ReadLastRun(t) /\ IsDue(task[t].iv)
      <4>1. t \in Chains
        BY <3>5 DEF Check, TryLock, SetLastRun, Dispatch, ReadLastRun, Chains
      <4>2. \E r : task' = [task EXCEPT ![t] = r]
        BY <3>5 DEF Check, TryLock, SetLastRun, Dispatch, ReadLastRun, Goto, Finish
      <4>3. QED BY <2>4, <3>1, <4>1, <4>2, OneTaskMoves
    <3>6. QED BY <2>5, <3>2, <3>3, <3>4, <3>5 DEF Step
  <2>6. ASSUME NEW t \in Task, Fail(t) PROVE Few
    <3>1. CASE task[t].pc \in Critical \ {"unlock"}
      <4>1. task' = [task EXCEPT ![t] = [@ EXCEPT !.pc = "unlock", !.rem = 0, !.at = 0]]
        BY <2>6, <3>1 DEF Fail
      <4>2. t \in Chains
        BY <3>1 DEF Chains, Critical
      <4>3. QED BY <2>4, <2>6, <4>1, <4>2, OneTaskMoves DEF Fail
    <3>2. CASE task[t].pc \notin Critical \ {"unlock"}
      <4>1. task' = [task EXCEPT ![t] = Free] /\ Free.pc = "free"
        BY <2>6, <3>2 DEF Fail, Free
      <4>2. QED BY <2>4, <2>6, <4>1, OneTaskMoves DEF Fail
    <3>3. QED BY <3>1, <3>2
  <2>7. ASSUME NEW t \in Task, LoseWorker(t) PROVE Few
    <3>1. /\ task' = [task EXCEPT ![t] = Message(task[t].iv, 0)]
          /\ faults' = faults + 1 /\ Offered' = Offered
      BY <2>7 DEF LoseWorker, Offered
    <3>2. Chains' \subseteq Chains \cup {t}
      BY <3>1 DEF TypeOK, Chains
    <3>3. /\ IsFiniteSet(Chains \cup {t})
          /\ Cardinality(Chains \cup {t}) \in {Cardinality(Chains), Cardinality(Chains) + 1}
      BY ChainsFinite, FS_AddElement
    <3>4. Cardinality(Chains') <= Cardinality(Chains \cup {t})
      BY <3>2, <3>3, FS_Subset
    <3>5. QED BY <2>1, <2>2, <2>12, <3>1, <3>3, <3>4
  <2>8. CASE Tick
    <3>1. Chains' = Chains /\ faults' = faults /\ offer' = offer
      BY <2>8 DEF Tick, AgeTask, Chains, TypeOK
    <3>2. QED BY <2>4, <3>1
  <2>9. CASE task' = task /\ faults' = faults /\ offer' = offer
    BY <2>4, <2>9 DEF Chains
  <2>10. ASSUME NEW p \in Publisher PROVE ~Beat(p) /\ ~StartProbe(p)
    BY DEF Beat, StartProbe, Active, TypeOK
  <2>13. ASSUME NEW p \in Publisher, ReloadProbe(p) PROVE Few
    <3>1. Offered' \subseteq Offered
      BY <2>13 DEF ReloadProbe, Offered, TypeOK
    <3>2. Cardinality(Offered') <= Cardinality(Offered)
      BY <3>1, OfferedFinite, FS_Subset
    <3>3. Chains' = Chains /\ faults' = faults
      BY <2>13 DEF ReloadProbe, Chains
    <3>4. QED BY <2>1, <2>12, <3>2, <3>3
  <2>14. ASSUME NEW p \in Publisher, Publish(p) \/ PublishFails(p)
         PROVE  Cardinality(Offered') = Cardinality(Offered) - 1
    BY <2>14, OneOfferLess DEF Publish, PublishFails
  <2>15. ASSUME NEW p \in Publisher, PublishFails(p) PROVE Few
    <3>1. Chains' = Chains /\ faults' = faults + 1
      BY <2>15 DEF PublishFails, Chains
    <3>2. QED BY <2>1, <2>12, <2>14, <2>15, <3>1
  <2>16. ASSUME NEW p \in Publisher, Publish(p) PROVE Few
    <3>1. PICK new \in FreeTasks : task' = [task EXCEPT ![new] = Message(offer[p].iv, 0)]
      BY <2>16 DEF Publish
    <3>2. Chains' \subseteq Chains \cup {new} /\ faults' = faults
      BY <2>16, <3>1 DEF Publish, Chains, FreeTasks, TypeOK
    <3>3. /\ IsFiniteSet(Chains \cup {new})
          /\ Cardinality(Chains \cup {new}) \in {Cardinality(Chains), Cardinality(Chains) + 1}
      BY ChainsFinite, FS_AddElement
    <3>4. Cardinality(Chains') <= Cardinality(Chains \cup {new})
      BY <3>2, <3>3, FS_Subset
    <3>5. QED BY <2>1, <2>2, <2>12, <2>14, <2>16, <3>2, <3>3, <3>4
  <2>11. QED
    BY <2>5, <2>6, <2>7, <2>8, <2>9, <2>10, <2>13, <2>15, <2>16 DEF Next, SteadyNext,
       Edit, Operate, Start, UpdateProbe, DeleteProbe, StopProbe, StopClearsLastRun,
       StopClearsLock, vars
<1>2. TypeOK /\ [Next]_vars => [~probe.auto /\ ~probe'.auto => Few]_vars
  BY <1>1
<1>3. QED BY <1>2, TypeCorrect, PTL DEF Spec, NoChainAfterStop
=============================================================================
