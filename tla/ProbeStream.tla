----------------------------- MODULE ProbeStream -----------------------------
(***************************************************************************)
(* The live results of one network probe: NetworkSSEService                 *)
(* (services/network_sse_service.py), the cached result it greets a client  *)
(* with (services/network_cache_service.py) and the execute_probe task that *)
(* produces results (tasks/network_probe_tasks.py).                         *)
(*                                                                          *)
(* A stream is one GET /probes/:id/sse: an SSEConnection and the generator  *)
(* that serves it in its request's thread.  Results are numbered in the     *)
(* order they are committed.  One key of the registry is modelled: the keys *)
(* of two probes never meet.                                                *)
(***************************************************************************)
EXTENDS Naturals, Sequences, FiniteSets

CONSTANTS
    Stream,          \* the requests, each with its SSEConnection
    Sender,          \* the threads inside broadcast_probe_result
    Prober,          \* the workers inside execute_probe
    None,
    Capacity,        \* message_queue's maxsize
    HeartbeatPolls,  \* polls of 5 s in a heartbeat interval
    IdleLimit,       \* ticks after which an idle connection is reaped
    MaxResults,      \* bound: results committed
    MaxWork          \* bound: streams opened and results committed together

ASSUME NoneAssumption == None \notin Stream
ASSUME BoundsAssumption ==
    /\ Capacity \in Nat \ {0} /\ HeartbeatPolls \in Nat \ {0}
    /\ IdleLimit \in Nat /\ MaxResults \in Nat /\ MaxWork \in Nat

VARIABLES
    registry,  \* connections[key], or None
    active,    \* the connections whose is_active is set
    queue,     \* message_queue of each connection
    idle,      \* ticks since last_activity of the registered connection, or 0
    gen,       \* where each generator is
    polls,     \* polls since the last yield
    msg,       \* the message a generator has taken
    gone,      \* the streams whose client has hung up
    shown,     \* history: the result a generator has just sent, 0 for none
    latest,    \* the newest committed result, 0 for none
    cached,    \* the cached result, 0 for none
    prober,    \* the result a worker has committed and not yet cached, or 0
    sender     \* the broadcasts under way

streams == <<registry, active, queue, idle, gen, polls, msg, gone, shown>>
results == <<latest, cached, prober>>
vars == <<streams, results, sender>>

Resting == [pc |-> "rest", conn |-> None, res |-> 0]

Init ==
    /\ registry = None
    /\ active = {}
    /\ queue = [c \in Stream |-> <<>>]
    /\ idle = 0
    /\ gen = [c \in Stream |-> "new"]
    /\ polls = [c \in Stream |-> 0]
    /\ msg = [c \in Stream |-> 0]
    /\ gone = {}
    /\ shown = [c \in Stream |-> 0]
    /\ latest = 0 /\ cached = 0
    /\ prober = [p \in Prober |-> 0]
    /\ sender = [s \in Sender |-> Resting]

(***************************************************************************)
(* generate_sse_stream.  A yield to a client that has hung up raises        *)
(* GeneratorExit, and the generator goes to its finally clause.             *)
(***************************************************************************)
Goto(c, pc) == gen' = [gen EXCEPT ![c] = pc]
Yield(c) == Goto(c, IF c \in gone THEN "leave" ELSE "loop")

Opened == {c \in Stream : gen[c] # "new"}
WithinBounds == Cardinality(Opened) + latest < MaxWork

\* create_connection, under the lock: the old connection is closed, the new
\* one takes its key
Open(c) ==
    /\ gen[c] = "new"
    /\ WithinBounds
    /\ active' = (active \ {registry}) \cup {c}
    /\ registry' = c
    /\ idle' = 0
    /\ Goto(c, "greet")
    /\ UNCHANGED <<queue, polls, msg, gone, shown, results, sender>>

\* The first messages.  The result comes from the cache; on a miss the query
\* of network_probe_results runs outside of the request's application context,
\* raises, and nothing is sent
Greet(c) ==
    /\ gen[c] = "greet"
    /\ Yield(c)
    /\ shown' = [shown EXCEPT ![c] = IF c \in gone THEN @ ELSE cached]
    /\ UNCHANGED <<registry, active, queue, idle, polls, msg, gone, results, sender>>

\* Mutant of Loop: while True
LoopForEver(c) ==
    /\ gen[c] = "loop"
    /\ shown' = [shown EXCEPT ![c] = 0]
    /\ Goto(c, "poll")
    /\ UNCHANGED <<registry, active, queue, idle, polls, msg, gone, results, sender>>

Loop(c) ==
    /\ gen[c] = "loop"
    /\ shown' = [shown EXCEPT ![c] = 0]
    /\ Goto(c, IF c \in active THEN "poll" ELSE "leave")
    /\ UNCHANGED <<registry, active, queue, idle, polls, msg, gone, results, sender>>

\* Mutant of Take: the message is read and left in the queue
TakeCopy(c) ==
    /\ gen[c] = "poll"
    /\ queue[c] # <<>>
    /\ msg' = [msg EXCEPT ![c] = Head(queue[c])]
    /\ idle' = IF c = registry THEN 0 ELSE idle
    /\ Goto(c, "send")
    /\ UNCHANGED <<registry, active, queue, polls, gone, shown, results, sender>>

\* Mutant of Take: the newest message first
TakeNewest(c) ==
    /\ gen[c] = "poll"
    /\ queue[c] # <<>>
    /\ msg' = [msg EXCEPT ![c] = queue[c][Len(queue[c])]]
    /\ queue' = [queue EXCEPT ![c] = SubSeq(@, 1, Len(@) - 1)]
    /\ idle' = IF c = registry THEN 0 ELSE idle
    /\ Goto(c, "send")
    /\ UNCHANGED <<registry, active, polls, gone, shown, results, sender>>

\* get_message returns a message
Take(c) ==
    /\ gen[c] = "poll"
    /\ queue[c] # <<>>
    /\ msg' = [msg EXCEPT ![c] = Head(queue[c])]
    /\ queue' = [queue EXCEPT ![c] = Tail(@)]
    /\ idle' = IF c = registry THEN 0 ELSE idle
    /\ Goto(c, "send")
    /\ UNCHANGED <<registry, active, polls, gone, shown, results, sender>>

Send(c) ==
    /\ gen[c] = "send"
    /\ Yield(c)
    /\ shown' = [shown EXCEPT ![c] = IF c \in gone THEN @ ELSE msg[c]]
    /\ msg' = [msg EXCEPT ![c] = 0]
    /\ polls' = [polls EXCEPT ![c] = 0]
    /\ UNCHANGED <<registry, active, queue, idle, gone, results, sender>>

\* Mutant of TimeOut: no heartbeat is sent
TimeOutSilently(c) ==
    /\ gen[c] = "poll"
    /\ queue[c] = <<>>
    /\ Goto(c, "loop")
    /\ UNCHANGED <<registry, active, queue, idle, polls, msg, gone, shown, results, sender>>

\* get_message waits 5 s in vain; the heartbeat is sent when one is due
TimeOut(c) ==
    /\ gen[c] = "poll"
    /\ queue[c] = <<>>
    /\ IF polls[c] + 1 >= HeartbeatPolls
       THEN Yield(c) /\ polls' = [polls EXCEPT ![c] = 0]
       ELSE Goto(c, "loop") /\ polls' = [polls EXCEPT ![c] = @ + 1]
    /\ UNCHANGED <<registry, active, queue, idle, msg, gone, shown, results, sender>>

\* finally: remove_connection, by key, whichever connection has it by now
Leave(c) ==
    /\ gen[c] = "leave"
    /\ active' = active \ {registry}
    /\ registry' = None
    /\ idle' = 0
    /\ Goto(c, "done")
    /\ UNCHANGED <<queue, polls, msg, gone, shown, results, sender>>

HangUp(c) ==
    /\ gen[c] \notin {"new", "done"}
    /\ gone' = gone \cup {c}
    /\ UNCHANGED <<registry, active, queue, idle, gen, polls, msg, shown, results, sender>>

(***************************************************************************)
(* The clean-up thread, and time.                                           *)
(***************************************************************************)
Reap ==
    /\ registry # None
    /\ idle > IdleLimit
    /\ active' = active \ {registry}
    /\ registry' = None
    /\ idle' = 0
    /\ UNCHANGED <<queue, gen, polls, msg, gone, shown, results, sender>>

Tick ==
    /\ idle' = IF registry # None /\ idle <= IdleLimit THEN idle + 1 ELSE idle
    /\ UNCHANGED <<registry, active, queue, gen, polls, msg, gone, shown, results, sender>>

(***************************************************************************)
(* execute_probe: the result is committed, then cached; a cache error is     *)
(* passed over.                                                             *)
(***************************************************************************)
Commit(p) ==
    /\ prober[p] = 0
    /\ latest < MaxResults /\ WithinBounds
    /\ latest' = latest + 1
    /\ prober' = [prober EXCEPT ![p] = latest']
    /\ UNCHANGED <<streams, cached, sender>>

CacheResult(p) ==
    /\ prober[p] # 0
    /\ cached' \in {cached, prober[p]}
    /\ prober' = [prober EXCEPT ![p] = 0]
    /\ UNCHANGED <<streams, latest, sender>>

\* The key's time to live runs out
Expire ==
    /\ cached # 0
    /\ cached' = 0
    /\ UNCHANGED <<streams, latest, prober, sender>>

(***************************************************************************)
(* broadcast_probe_result: find the connection under the lock, look whether  *)
(* it is active, put the message, cache the result.  The last three do not   *)
(* hold the lock.                                                           *)
(***************************************************************************)
Advance(s, rec) == sender' = [sender EXCEPT ![s] = rec]

Find(s) ==
    /\ sender[s].pc = "rest"
    /\ \E r \in 1..latest :
          Advance(s, IF registry = None THEN Resting
                     ELSE [pc |-> "look", conn |-> registry, res |-> r])
    /\ UNCHANGED <<streams, results>>

Look(s) ==
    /\ sender[s].pc = "look"
    /\ Advance(s, IF sender[s].conn \in active THEN [sender[s] EXCEPT !.pc = "put"]
                  ELSE Resting)
    /\ UNCHANGED <<streams, results>>

\* Mutant of Put: the queue is not bounded
PutUnbounded(s) ==
    /\ sender[s].pc = "put"
    /\ LET c == sender[s].conn IN queue' = [queue EXCEPT ![c] = Append(@, sender[s].res)]
    /\ idle' = IF sender[s].conn = registry THEN 0 ELSE idle
    /\ Advance(s, [sender[s] EXCEPT !.pc = "cache"])
    /\ UNCHANGED <<registry, active, gen, polls, msg, gone, shown, results>>

Put(s) ==
    /\ sender[s].pc = "put"
    /\ LET c == sender[s].conn IN
       IF Len(queue[c]) < Capacity
       THEN /\ queue' = [queue EXCEPT ![c] = Append(@, sender[s].res)]
            /\ idle' = IF c = registry THEN 0 ELSE idle
            /\ Advance(s, [sender[s] EXCEPT !.pc = "cache"])
       ELSE UNCHANGED <<queue, idle>> /\ Advance(s, Resting)
    /\ UNCHANGED <<registry, active, gen, polls, msg, gone, shown, results>>

CacheSent(s) ==
    /\ sender[s].pc = "cache"
    /\ cached' \in {cached, sender[s].res}
    /\ Advance(s, Resting)
    /\ UNCHANGED <<streams, latest, prober>>
----------------------------------------------------------------------------
Serve(c) ==
    \/ Open(c) \/ Greet(c) \/ Loop(c) \/ Take(c) \/ Send(c) \/ TimeOut(c) \/ Leave(c)

Execute(p) == Commit(p) \/ CacheResult(p)

Broadcast(s) == Find(s) \/ Look(s) \/ Put(s) \/ CacheSent(s)

Next ==
    \/ \E c \in Stream : Serve(c) \/ HangUp(c)
    \/ Reap \/ Tick \/ Expire
    \/ \E p \in Prober : Execute(p)
    \/ \E s \in Sender : Broadcast(s)

Spec == Init /\ [][Next]_vars

\* The threads of requests run; no client has to come or to hang up, and the
\* clean-up thread is not relied on.
Fairness ==
    /\ \A c \in Stream : /\ WF_vars(Greet(c)) /\ WF_vars(Loop(c)) /\ WF_vars(Take(c))
                         /\ WF_vars(Send(c)) /\ WF_vars(TimeOut(c)) /\ WF_vars(Leave(c))

FairSpec == Spec /\ Fairness
----------------------------------------------------------------------------
Broadcasts ==
    {Resting} \cup [pc : {"look", "put", "cache"}, conn : Stream, res : 1..MaxResults]

\* Type invariant: the registry holds a connection or nothing, queues hold at
\* most Capacity results, and every thread is at a known step.
TypeOK ==
    /\ registry \in Stream \cup {None}
    /\ active \subseteq Stream
    /\ queue \in [Stream -> Seq(1..MaxResults)]
    /\ \A c \in Stream : Len(queue[c]) <= Capacity
    /\ idle \in 0..IdleLimit + 1
    /\ gen \in [Stream -> {"new", "greet", "loop", "poll", "send", "leave", "done"}]
    /\ polls \in [Stream -> 0..HeartbeatPolls]
    /\ msg \in [Stream -> 0..MaxResults]
    /\ gone \subseteq Stream
    /\ shown \in [Stream -> 0..MaxResults]
    /\ latest \in 0..MaxResults /\ cached \in 0..MaxResults
    /\ prober \in [Prober -> 0..MaxResults]
    /\ sender \in [Sender -> Broadcasts]

\* A probe has one live stream: a connection is active exactly while the
\* registry holds it, however openings, ends, hang-ups and the clean-up
\* thread interleave.
OneStream == \A c \in Stream : c \in active <=> registry = c

\* No ghost stays registered: the registry never holds a connection whose
\* generator has ended, so a broadcast never fills a queue nobody reads for
\* longer than it takes to find out.
NoGhost == registry # None => gen[registry] \notin {"new", "done"}

\* What a stream holds: a result is in its box until the generator that took it
\* from the queue has yielded it, and a broadcast is addressed until it has put.
Box(c) == (IF msg[c] = 0 THEN <<>> ELSE <<msg[c]>>) \o queue[c]

Addressed(s) ==
    IF sender[s].pc \in {"look", "put"} THEN [to |-> sender[s].conn, what |-> sender[s].res]
    ELSE [to |-> None, what |-> 0]

Stage(c) ==
    IF gen[c] = "new" THEN "new" ELSE IF gen[c] = "greet" THEN "greeting"
    ELSE IF gen[c] = "done" THEN "ended" ELSE "open"

Channel == INSTANCE ResultChannel WITH
    Result <- 1..MaxResults, live <- active, left <- gone, told <- shown,
    post <- [s \in Sender |-> Addressed(s)],
    stage <- [c \in Stream |-> Stage(c)], box <- [c \in Stream |-> Box(c)]

\* The streams keep the promise of ResultChannel, whatever closes, replaces or
\* reaps a connection between the lookup of a broadcast and its put, or between
\* the generator's get and its yield: what was accepted is sent once, in order.
KeepsChannel == Channel!Spec

\* A connection that has been closed frees its request's thread: its generator
\* notices within a poll and ends.
ClosedStreamsEnd ==
    \A c \in Stream : (gen[c] # "new" /\ c \notin active) ~> gen[c] = "done"

\* A client that has hung up is noticed by the next heartbeat at the latest, and
\* its stream ends without waiting for the clean-up thread.
AbandonedStreamsEnd == \A c \in Stream : c \in gone ~> gen[c] = "done"

\* A result in the queue of a stream that has greeted its client is sent to that
\* client, unless the stream ends: none is lost, and none waits for ever while the
\* results that come after it overtake it.
QueuedIsSent ==
    \A c \in Stream : \A r \in 1..MaxResults :
        (gen[c] = "poll" /\ \E i \in 1..Len(queue[c]) : queue[c][i] = r)
            ~> (shown[c] = r \/ gen[c] = "done")
=============================================================================
