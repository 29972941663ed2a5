--------------------------- MODULE ProbeSchedule ---------------------------
(***************************************************************************)
(* The automatic scheduling of one network probe: the Celery tasks          *)
(* schedule_auto_probes and schedule_single_probe                           *)
(* (admin-mit-backend/app/tasks/network_probe_tasks.py) and the handlers of *)
(* api/network.py that start, stop, update and delete the probe.            *)
(*                                                                          *)
(* A task is one schedule_single_probe message, from its publication to its *)
(* acknowledgement; tasks run on any number of workers and interleave at    *)
(* every access to the database, to Redis and to the broker.  Time is       *)
(* counted in ticks, PerSecond of them in a second, and every duration is   *)
(* kept as what is left of it, so that no clock grows.                      *)
(***************************************************************************)
EXTENDS Naturals, FiniteSets

CONSTANTS
    Task,        \* the message slots; their number bounds the live messages
    Publisher,   \* bound: runs of schedule_auto_probes and start requests at once
    Intervals,   \* the values of interval_seconds, in ticks
    PerSecond,   \* ticks in a second: a countdown is a whole number of seconds
    MaxHold,     \* bound: ticks between taking probe_lock and releasing it
    MaxFaults    \* bound: worker losses and Redis or broker errors

ASSUME PerSecondAssumption == PerSecond \in Nat \ {0}
ASSUME IntervalsAssumption ==
    /\ Intervals \subseteq Nat \ {0}
    /\ \E m \in Intervals : \A i \in Intervals : i <= m
ASSUME BoundsAssumption == MaxHold \in Nat /\ MaxFaults \in Nat
ASSUME TaskAssumption == IsFiniteSet(Task) /\ IsFiniteSet(Publisher)

VARIABLES
    probe,     \* the row of network_probes
    task,      \* the schedule_single_probe messages and the workers on them
    lock,      \* probe_lock:{id}: ticks until it expires, 0 when absent
    lastRun,   \* probe_last_run:{id}
    stopping,  \* how far a stop_probe request has got
    offer,     \* what a publisher holds: read from the row, not yet published
    faults,    \* worker losses and errors so far
    gap        \* history: ticks since the time stamped on the last dispatch

vars == <<probe, task, lock, lastRun, stopping, offer, faults, gap>>

MaxInterval == CHOOSE m \in Intervals : \A i \in Intervals : i <= m
Far == 2 * MaxInterval + MaxHold + 1      \* the histories stop counting here
Later(n) == IF n < Far THEN n + 1 ELSE Far

(***************************************************************************)
(* Tasks.  "waiting" is a message in the broker, due when its delay is 0;   *)
(* the critical section runs from SET NX EX to DELETE of probe_lock.        *)
(***************************************************************************)
Critical == {"locked", "due", "send", "next", "early", "unlock"}
Running  == {"checked"} \cup Critical
Timed    == {"due", "send"}               \* `now` has been read

Free == [pc |-> "free", iv |-> 0, delay |-> 0, rem |-> 0, at |-> 0, held |-> 0]
Message(iv, delay) ==
    [pc |-> "waiting", iv |-> iv, delay |-> delay, rem |-> 0, at |-> 0, held |-> 0]

\* A publisher that has committed or read the row and has not published yet
Idle       == [pc |-> "idle", iv |-> 0]
Reloading  == [pc |-> "reload", iv |-> 0]
Holding(iv) == [pc |-> "publish", iv |-> iv]

FreeTasks == {t \in Task : task[t].pc = "free"}
InSection(t) == task[t].pc \in Critical

Absent == [age |-> 0, ttl |-> 0]          \* probe_last_run does not exist
Active == probe.exists /\ probe.enabled /\ probe.auto

\* int(remaining): the countdown keeps whole seconds only
WholeSeconds(n) == (n \div PerSecond) * PerSecond

Init ==
    /\ probe \in [exists : {TRUE}, enabled : {TRUE}, auto : BOOLEAN, iv : Intervals]
    /\ task = [t \in Task |-> Free]
    /\ lock = 0
    /\ lastRun = Absent
    /\ stopping = "no"
    /\ offer = [p \in Publisher |-> Idle]
    /\ faults = 0
    /\ gap = Far

(***************************************************************************)
(* Publication of schedule_single_probe.  What the publisher has read may   *)
(* be stale when it publishes: a stop, an edit or a deletion can come in     *)
(* between.  The number of chains, the tasks that are still to publish a     *)
(* successor, is bounded: one slot always stays for the successor.           *)
(***************************************************************************)
Chains == {t \in Task : task[t].pc \notin {"free", "unlock"}}
Offered == {p \in Publisher : offer[p].pc # "idle"}
RoomForChain == Cardinality(Chains) + 1 < Cardinality(Task)

\* schedule_auto_probes, every 60 s from Celery Beat, reads the rows that are
\* enabled, and publishes one more message for each, whether or not it has some
Beat(p) ==
    /\ offer[p] = Idle
    /\ Active
    /\ offer' = [offer EXCEPT ![p] = Holding(probe.iv)]
    /\ UNCHANGED <<probe, task, lock, lastRun, stopping, faults, gap>>

\* start_probe commits the row, and only then publishes
StartProbe(p) ==
    /\ offer[p] = Idle
    /\ probe.exists
    /\ probe' = [probe EXCEPT !.auto = TRUE]
    /\ offer' = [offer EXCEPT ![p] = Reloading]
    /\ UNCHANGED <<task, lock, lastRun, stopping, faults, gap>>

\* The commit has expired the row: its interval is read again, and a row that
\* has been deleted meanwhile ends the request with an error
ReloadProbe(p) ==
    /\ offer[p].pc = "reload"
    /\ offer' = [offer EXCEPT ![p] = IF probe.exists THEN Holding(probe.iv) ELSE Idle]
    /\ UNCHANGED <<probe, task, lock, lastRun, stopping, faults, gap>>

Publish(p) ==
    /\ offer[p].pc = "publish"
    /\ RoomForChain
    /\ \E new \in FreeTasks : task' = [task EXCEPT ![new] = Message(offer[p].iv, 0)]
    /\ offer' = [offer EXCEPT ![p] = Idle]
    /\ UNCHANGED <<probe, lock, lastRun, stopping, faults, gap>>

\* Both callers log an error of the broker and go on
PublishFails(p) ==
    /\ offer[p].pc = "publish"
    /\ faults < MaxFaults
    /\ faults' = faults + 1
    /\ offer' = [offer EXCEPT ![p] = Idle]
    /\ UNCHANGED <<probe, task, lock, lastRun, stopping, gap>>

\* stop_probe commits the row, then deletes the keys one after the other; an
\* error ends the clean-up and the request still succeeds
StopProbe ==
    /\ probe.exists
    /\ stopping = "no"
    /\ probe' = [probe EXCEPT !.auto = FALSE]
    /\ stopping' = "last_run"
    /\ UNCHANGED <<task, lock, lastRun, offer, faults, gap>>

StopClearsLastRun ==
    /\ stopping = "last_run"
    /\ \/ lastRun' = Absent /\ stopping' = "lock"
       \/ lastRun' = lastRun /\ stopping' = "no"
    /\ UNCHANGED <<probe, task, lock, offer, faults, gap>>

StopClearsLock ==
    /\ stopping = "lock"
    /\ lock' \in {0, lock}
    /\ stopping' = "no"
    /\ UNCHANGED <<probe, task, lastRun, offer, faults, gap>>

\* update_probe writes the columns it is given and tells nobody
UpdateProbe ==
    /\ probe.exists
    /\ probe' \in [exists : {TRUE}, enabled : BOOLEAN, auto : BOOLEAN, iv : Intervals]
    /\ UNCHANGED <<task, lock, lastRun, stopping, offer, faults, gap>>

DeleteProbe ==
    /\ probe.exists
    /\ probe' = [probe EXCEPT !.exists = FALSE]
    /\ UNCHANGED <<task, lock, lastRun, stopping, offer, faults, gap>>

(***************************************************************************)
(* schedule_single_probe, one action per access to a shared store.          *)
(***************************************************************************)
Goto(t, pc) == task' = [task EXCEPT ![t].pc = pc]
Finish(t)   == task' = [task EXCEPT ![t] = Free]

\* Mutant of Check: the row is not looked up
CheckBlindly(t) ==
    /\ task[t].pc = "waiting"
    /\ task[t].delay = 0
    /\ Goto(t, "checked")
    /\ UNCHANGED <<probe, lock, lastRun, stopping, offer, faults, gap>>

\* A worker takes the message and looks the row up; a probe that is off or
\* gone ends the chain
Check(t) ==
    /\ task[t].pc = "waiting"
    /\ task[t].delay = 0
    /\ IF Active THEN Goto(t, "checked") ELSE Finish(t)
    /\ UNCHANGED <<probe, lock, lastRun, stopping, offer, faults, gap>>

\* Mutant of TryLock: SET without NX
TryLockAlways(t) ==
    /\ task[t].pc = "checked"
    /\ lock' = task[t].iv
    /\ Goto(t, "locked")
    /\ UNCHANGED <<probe, lastRun, stopping, offer, faults, gap>>

\* SET probe_lock NX EX interval; a task that does not get it returns, and
\* publishes no successor
TryLock(t) ==
    /\ task[t].pc = "checked"
    /\ IF lock = 0
       THEN lock' = task[t].iv /\ Goto(t, "locked")
       ELSE lock' = lock /\ Finish(t)
    /\ UNCHANGED <<probe, lastRun, stopping, offer, faults, gap>>

\* Mutants of IsDue: a tick early, only when the key has expired, and only when
\* there has been a run
IsDueEarly(iv) == lastRun = Absent \/ lastRun.age + 1 >= iv
IsDueExpired(iv) == lastRun = Absent
IsDueAgain(iv) == lastRun # Absent /\ lastRun.age >= iv

IsDue(iv) == lastRun = Absent \/ lastRun.age >= iv

ReadLastRun(t) ==
    /\ task[t].pc = "locked"
    /\ LET iv == task[t].iv IN
       IF IsDue(iv) THEN Goto(t, "due")
       ELSE task' = [task EXCEPT ![t].pc = "early", ![t].rem = iv - lastRun.age]
    /\ UNCHANGED <<probe, lock, lastRun, stopping, offer, faults, gap>>

\* SET probe_last_run now EX 2 * interval
SetLastRun(t) ==
    /\ task[t].pc = "due"
    /\ lastRun' = [age |-> task[t].at, ttl |-> 2 * task[t].iv]
    /\ Goto(t, "send")
    /\ UNCHANGED <<probe, lock, stopping, offer, faults, gap>>

\* execute_probe.apply_async
Dispatch(t) ==
    /\ task[t].pc = "send"
    /\ gap' = task[t].at
    /\ task' = [task EXCEPT ![t] = [@ EXCEPT !.pc = "next", !.at = 0]]
    /\ UNCHANGED <<probe, lock, lastRun, stopping, offer, faults>>

\* The task publishes itself again: after a whole interval when it has
\* dispatched the probe, after what remains of one when it came early
Succeed(t, delay) ==
    \E new \in FreeTasks :
        task' = [task EXCEPT ![new] = Message(task[t].iv, delay),
                             ![t] = [@ EXCEPT !.pc = "unlock", !.rem = 0]]

ScheduleNext(t) ==
    /\ task[t].pc = "next"
    /\ Succeed(t, task[t].iv)
    /\ UNCHANGED <<probe, lock, lastRun, stopping, offer, faults, gap>>

Reschedule(t) ==
    /\ task[t].pc = "early"
    /\ Succeed(t, WholeSeconds(task[t].rem))
    /\ UNCHANGED <<probe, lock, lastRun, stopping, offer, faults, gap>>

\* finally: DELETE probe_lock, whoever holds it by now
Unlock(t) ==
    /\ task[t].pc = "unlock"
    /\ lock' = 0
    /\ Finish(t)
    /\ UNCHANGED <<probe, lastRun, stopping, offer, faults, gap>>

(***************************************************************************)
(* What can go wrong under a task.                                          *)
(***************************************************************************)
\* An exception: inside the try block the lock is still released, an error
\* there or outside of it ends the task and is only logged
Fail(t) ==
    /\ task[t].pc \in Running
    /\ faults < MaxFaults
    /\ faults' = faults + 1
    /\ task' = [task EXCEPT ![t] =
                  IF @.pc \in Critical \ {"unlock"}
                  THEN [@ EXCEPT !.pc = "unlock", !.rem = 0, !.at = 0]
                  ELSE Free]
    /\ UNCHANGED <<probe, lock, lastRun, stopping, offer, gap>>

\* The worker dies: task_acks_late and task_reject_on_worker_lost put the
\* message back, and what the task did so far stays done
LoseWorker(t) ==
    /\ task[t].pc \in Running
    /\ t \in Chains \/ RoomForChain
    /\ faults < MaxFaults
    /\ faults' = faults + 1
    /\ task' = [task EXCEPT ![t] = Message(@.iv, 0)]
    /\ UNCHANGED <<probe, lock, lastRun, stopping, offer, gap>>

(***************************************************************************)
(* Time.  A tick passes only while every critical section is within its     *)
(* bound.  A key whose time to live runs out disappears.                    *)
(***************************************************************************)
Down(n) == IF n = 0 THEN 0 ELSE n - 1

AgeTask(r) == [pc |-> r.pc, iv |-> r.iv, delay |-> Down(r.delay), rem |-> r.rem,
               held |-> IF r.pc \in Critical THEN r.held + 1 ELSE r.held,
               at |-> IF r.pc \in Timed THEN r.at + 1 ELSE r.at]

Tick ==
    /\ \A t \in Task : InSection(t) => task[t].held < MaxHold
    /\ task' = [t \in Task |-> AgeTask(task[t])]
    /\ lock' = Down(lock)
    /\ lastRun' = IF lastRun.ttl <= 1 THEN Absent
                  ELSE [age |-> lastRun.age + 1, ttl |-> lastRun.ttl - 1]
    /\ gap' = Later(gap)
    /\ UNCHANGED <<probe, stopping, offer, faults>>

----------------------------------------------------------------------------
Step(t) ==
    \/ Check(t) \/ TryLock(t) \/ ReadLastRun(t) \/ SetLastRun(t) \/ Dispatch(t)
    \/ ScheduleNext(t) \/ Reschedule(t) \/ Unlock(t)

\* The scheduler with nobody touching the probe
SteadyNext ==
    \/ \E p \in Publisher : Beat(p) \/ ReloadProbe(p) \/ Publish(p) \/ PublishFails(p)
    \/ \E t \in Task : Step(t) \/ Fail(t) \/ LoseWorker(t)
    \/ Tick

\* Requests that write the row and leave the keys of a schedule that runs
\* alone, and those that start and stop the schedule
Start == \E p \in Publisher : StartProbe(p)
Edit == UpdateProbe \/ DeleteProbe \/ Start
Operate == Start \/ StopProbe \/ StopClearsLastRun \/ StopClearsLock

Next == SteadyNext \/ Edit \/ Operate

EditSpec == Init /\ [][SteadyNext \/ Edit]_vars
Spec     == Init /\ [][Next]_vars

\* Beat fires for ever, what it or a start request has read is published, a
\* worker finishes what it takes, time passes, and a stop request is carried
\* through.  Strong fairness stands where only a bound of the model makes a step
\* wait: time for MaxHold, and whoever publishes a message for a free slot.
Fairness ==
    /\ WF_vars(\E p \in Publisher : Beat(p))
    /\ SF_vars(Tick)
    /\ WF_vars(StopClearsLastRun) /\ WF_vars(StopClearsLock)
    /\ \A p \in Publisher : WF_vars(ReloadProbe(p)) /\ SF_vars(Publish(p))
    /\ \A t \in Task : /\ WF_vars(Step(t))
                       /\ SF_vars(ScheduleNext(t) \/ Reschedule(t))

FairSpec == Init /\ [][SteadyNext \/ Operate]_vars /\ Fairness
----------------------------------------------------------------------------
TaskRecord ==
    [pc : {"free", "waiting"} \cup Running, iv : Intervals \cup {0},
     delay : Nat, rem : Nat, at : Nat, held : Nat]

\* Type invariant: the row, the messages, the two Redis keys and the counters
\* stay in the shapes the code gives them.
TypeOK ==
    /\ probe \in [exists : BOOLEAN, enabled : BOOLEAN, auto : BOOLEAN, iv : Intervals]
    /\ task \in [Task -> TaskRecord]
    /\ lock \in Nat
    /\ lastRun \in [age : Nat, ttl : Nat]
    /\ stopping \in {"no", "last_run", "lock"}
    /\ offer \in [Publisher -> {Idle, Reloading} \cup {Holding(iv) : iv \in Intervals}]
    /\ faults \in 0..MaxFaults
    /\ gap \in Nat

\* probe_lock keeps concurrent schedulings of one probe apart: two tasks are
\* never between taking the lock and releasing it ("prevent concurrent
\* scheduling", network_probe_tasks.py:252).
LockExcludes == \A s, t \in Task : InSection(s) /\ InSection(t) => s = t

\* Whatever is edited while it runs, the schedule keeps to the rate that
\* ProbeRate promises for the shortest interval a message can carry.
MinInterval == CHOOSE m \in Intervals : \A i \in Intervals : m <= i
Rate == INSTANCE ProbeRate WITH
            Interval <- MinInterval, Slack <- MaxHold, Horizon <- Far, since <- gap
KeepsRate == Rate!Spec

\* While the probe stays active it is dispatched again and again.
DispatchedForEver == (<>[]Active) => []<>(\E t \in Task : task[t].pc = "next")

\* While the probe is stopped the chains that run and the publications still to
\* come grow no more, together: a chain has one successor at most, and what a run
\* of schedule_auto_probes or a start request publishes after the stop is one
\* message that it had set out to publish before.  Only a lost worker adds one.
ChainsToCome == Cardinality(Chains) + Cardinality(Offered)
NoChainAfterStop ==
    [][~probe.auto /\ ~probe'.auto => ChainsToCome' + faults <= ChainsToCome + faults']_vars

\* Once the probe stays stopped every chain of messages ends, the one that a
\* task, a start request or a run of schedule_auto_probes was publishing while
\* stop_probe ran included.
ChainsDieOut == (<>[]~probe.auto) => <>[](FreeTasks = Task)
=============================================================================
