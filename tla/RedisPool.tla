------------------------------ MODULE RedisPool ------------------------------
(***************************************************************************)
(* The Redis administration calls inside the back end: the connection       *)
(* manager (services/redis_connection_manager.py), one in every gunicorn    *)
(* worker process, which keeps a client for every connection and guards the *)
(* map with one lock, and the commands that a call runs on its client       *)
(* (services/redis_management_service.py).                                  *)
(*                                                                          *)
(* A client is redis-py's: a pool of sockets of which a command takes the   *)
(* one that was put back last, or opens another when none is idle.  A       *)
(* socket is known here by the database its server side has selected.       *)
(* SELECT sticks to the socket it was sent on; a socket that is opened, or  *)
(* opened again, selects the database of the configuration.                 *)
(*                                                                          *)
(* Abstractions: one tenant, whose connections are standalone servers with  *)
(* one configured database; SCAN and the TYPE and TTL commands after it are *)
(* one command; a call may fail where a command or a connection may fail.   *)
(***************************************************************************)
EXTENDS Naturals, Sequences

CONSTANTS
    Conn,      \* stored connections
    Db,        \* database numbers
    ConfigDb,  \* the database a connection is configured with
    Worker,    \* worker processes
    Client,    \* identities of redis-py clients
    Slot,      \* calls that can be under way at the same time
    None

ASSUME NoneAssumption == None \notin Conn \cup Db \cup Worker \cup Client \cup Slot
ASSUME ConfigDbAssumption == ConfigDb \in Db

VARIABLES
    call,   \* the call in each slot
    pool,   \* _connections of each worker
    idle,   \* the idle sockets of each client, the last one put back first
    lock    \* _connection_lock of each worker

poolVars == <<pool, idle, lock>>
vars == <<call, poolVars>>

\* A slot without a call.
Rest == [kind |-> "none", conn |-> None, db |-> None, pc |-> "rest", step |-> "none",
         worker |-> None, client |-> None, sock |-> None, read |-> None, alone |-> FALSE]

\* A scan selects its database before it scans; an "act" runs one command, and a
\* "check" is one call of is_connected: a request that lists the connections
\* makes one for each of them, one after the other.  A disconnect and an update
\* of the connection close its client.
Kind == {"act", "scan", "check", "close"}

Request(kind, c, d) ==
    [Rest EXCEPT !.kind = kind, !.conn = c, !.pc = "sent",
                 !.db = IF kind = "scan" THEN d ELSE None,
                 !.step = IF kind = "scan" THEN "select" ELSE "act"]

Init ==
    /\ call = [s \in Slot |-> Rest]
    /\ pool = [w \in Worker |-> [c \in Conn |-> None]]
    /\ idle = [k \in Client |-> <<>>]
    /\ lock = [w \in Worker |-> None]

IsScan(s) == call[s].kind = "scan"

\* The calls that run commands on client k.
Users(k) == {s \in Slot : call[s].client = k}

\* Mutant of Top: a new socket selects no database.
TopUnset(k) == IF idle[k] = <<>> THEN None ELSE Head(idle[k])

\* The socket the next command on client k is sent on, and what stays idle.
Top(k) == IF idle[k] = <<>> THEN ConfigDb ELSE Head(idle[k])
Below(k) == IF idle[k] = <<>> THEN <<>> ELSE Tail(idle[k])

\* The calls on client k are not the only thing that happens to it.
Disturb(k, f) ==
    [s \in Slot |-> IF f[s].client = k THEN [f[s] EXCEPT !.alone = FALSE] ELSE f[s]]

\* Every socket of client k is closed: those that are held come back as new.
Closed(k, f) ==
    [s \in Slot |-> IF f[s].client = k
                    THEN [f[s] EXCEPT !.alone = FALSE,
                                      !.sock = IF @ = None THEN None ELSE ConfigDb]
                    ELSE f[s]]

\* The answer of a call, whose thread is free.
Answered(r, pc) ==
    IF r.kind = "scan" /\ pc = "done"
    THEN [Rest EXCEPT !.pc = pc, !.kind = "scan", !.db = r.db, !.read = r.read,
                      !.alone = r.alone]
    ELSE [Rest EXCEPT !.pc = pc]

-----------------------------------------------------------------------------
(***************************************************************************)
(* get_client and is_connected.                                             *)
(***************************************************************************)

\* Mutant of Known: the key of a client is made of the tenant alone.
KnownByTenant(w, c) ==
    IF \E d \in Conn : pool[w][d] # None
    THEN pool[w][CHOOSE d \in Conn : pool[w][d] # None]
    ELSE None

\* The client _connections holds under the key of the connection.
Known(w, c) == pool[w][c]

\* Mutant of Enter: the ping of another call is not told to the others.
EnterUnseen(s, w) ==
    LET k == Known(w, call[s].conn) IN
    /\ call[s].pc = "sent" /\ call[s].kind # "close"
    /\ k # None \/ call[s].kind # "check"
    /\ lock[w] = None
    /\ lock' = [lock EXCEPT ![w] = s]
    /\ IF k = None
       THEN call' = [call EXCEPT ![s] = [@ EXCEPT !.pc = "creating", !.worker = w]]
       ELSE call' = [call EXCEPT ![s] =
                       [@ EXCEPT !.pc = "pinging", !.worker = w, !.client = k, !.sock = ConfigDb,
                                 !.alone = IsScan(s) /\ Users(k) = {}]]
    /\ UNCHANGED idle
    /\ UNCHANGED pool

\* A call takes the lock of the worker it reaches and pings the client there.
Enter(s, w) ==
    LET k == Known(w, call[s].conn) IN
    /\ call[s].pc = "sent" /\ call[s].kind # "close"
    /\ k # None \/ call[s].kind # "check"
    /\ lock[w] = None
    /\ lock' = [lock EXCEPT ![w] = s]
    /\ IF k = None
       THEN /\ call' = [call EXCEPT ![s] = [@ EXCEPT !.pc = "creating", !.worker = w]]
            /\ UNCHANGED idle
       ELSE /\ call' = [Disturb(k, call) EXCEPT ![s] =
                          [call[s] EXCEPT !.pc = "pinging", !.worker = w, !.client = k,
                                          !.sock = Top(k), !.alone = IsScan(s) /\ Users(k) = {}]]
            /\ idle' = [idle EXCEPT ![k] = Below(k)]
    /\ UNCHANGED pool

Release(w) == lock' = [lock EXCEPT ![w] = None]

Pinged(s) ==
    LET k == call[s].client IN
    /\ call[s].pc = "pinging" /\ call[s].kind # "check"
    /\ idle' = [idle EXCEPT ![k] = <<call[s].sock>> \o @]
    /\ call' = [call EXCEPT ![s] = [@ EXCEPT !.pc = "ready", !.sock = None]]
    /\ Release(call[s].worker)
    /\ UNCHANGED pool

\* _close_client_internal: the client is forgotten and its sockets are closed.
PingFails(s) ==
    LET k == call[s].client IN
    /\ call[s].pc = "pinging" /\ call[s].kind # "check"
    /\ pool' = [pool EXCEPT ![call[s].worker][call[s].conn] = None]
    /\ idle' = [idle EXCEPT ![k] = <<>>]
    /\ call' = [Closed(k, call) EXCEPT ![s] =
                  [call[s] EXCEPT !.pc = "creating", !.client = None, !.sock = None, !.alone = FALSE]]
    /\ UNCHANGED lock

\* is_connected finds no client.
Absent(s, w) ==
    /\ call[s].pc = "sent" /\ call[s].kind = "check"
    /\ Known(w, call[s].conn) = None
    /\ lock[w] = None
    /\ call' = [call EXCEPT ![s] = Answered(@, "done")]
    /\ UNCHANGED poolVars

\* The ping of is_connected is answered or fails, which closes its socket.  The
\* client is kept in either case.
Checked(s) ==
    /\ call[s].pc = "pinging" /\ call[s].kind = "check"
    /\ \E d \in {call[s].sock, ConfigDb} :
          idle' = [idle EXCEPT ![call[s].client] = <<d>> \o @]
    /\ call' = [call EXCEPT ![s] = Answered(@, "done")]
    /\ Release(call[s].worker)
    /\ UNCHANGED pool

Mapped(k) == \E w \in Worker, c \in Conn : pool[w][c] = k

Fresh(k) == Users(k) = {} /\ ~Mapped(k)

\* A new client, which a ping has given its first socket.
Create(s) ==
    /\ call[s].pc = "creating"
    /\ \E k \in Client : Fresh(k)
    /\ LET k == CHOOSE k \in Client : Fresh(k) IN
          /\ pool' = [pool EXCEPT ![call[s].worker][call[s].conn] = k]
          /\ idle' = [idle EXCEPT ![k] = <<ConfigDb>>]
          /\ call' = [call EXCEPT ![s] =
                         [@ EXCEPT !.pc = "ready", !.client = k, !.alone = IsScan(s)]]
    /\ Release(call[s].worker)

\* Mutant of Refuse: the lock is not released when no client can be made.
RefuseLocked(s) ==
    /\ call[s].pc = "creating"
    /\ call' = [call EXCEPT ![s] = Answered(@, "failed")]
    /\ UNCHANGED <<pool, idle, lock>>

Refuse(s) ==
    /\ call[s].pc = "creating"
    /\ call' = [call EXCEPT ![s] = Answered(@, "failed")]
    /\ Release(call[s].worker)
    /\ UNCHANGED <<pool, idle>>

-----------------------------------------------------------------------------
(***************************************************************************)
(* Commands.                                                                *)
(***************************************************************************)

\* The command at hand is the SCAN of a scan.
Scans(s) == IsScan(s) /\ call[s].step = "act"

\* The idle sockets of the client of s after its last command.  A client that
\* nothing refers to any more is collected, and its sockets with it.
Given(s, sockets) ==
    IF ~Mapped(call[s].client) /\ Users(call[s].client) = {s} THEN <<>> ELSE sockets

\* A command is run on the socket it takes.
Take(s) ==
    LET k == call[s].client IN
    /\ call[s].pc = "ready"
    /\ idle' = [idle EXCEPT ![k] = Below(k)]
    /\ call' = [call EXCEPT ![s] =
                  [@ EXCEPT !.pc = "held",
                            !.sock = IF call[s].step = "select" THEN call[s].db ELSE Top(k),
                            !.read = IF Scans(s) THEN Top(k) ELSE None]]
    /\ UNCHANGED <<pool, lock>>

\* The reply of SELECT: its socket is idle again.
Selected(s) ==
    /\ call[s].pc = "held" /\ call[s].step = "select"
    /\ idle' = [idle EXCEPT ![call[s].client] = <<call[s].sock>> \o @]
    /\ call' = [call EXCEPT ![s] = [@ EXCEPT !.pc = "ready", !.step = "act", !.sock = None]]
    /\ UNCHANGED <<pool, lock>>

\* The reply of the last command.
Put(s) ==
    /\ call[s].pc = "held" /\ call[s].step = "act"
    /\ idle' = [idle EXCEPT ![call[s].client] = Given(s, <<call[s].sock>> \o @)]
    /\ call' = [call EXCEPT ![s] = Answered(@, "done")]
    /\ UNCHANGED <<pool, lock>>

\* retry_on_timeout: the command is sent once more, on a socket opened anew.
Retry(s) ==
    /\ call[s].pc = "held"
    /\ call' = [call EXCEPT ![s] =
                  [@ EXCEPT !.alone = FALSE,
                            !.sock = IF call[s].step = "select" THEN call[s].sock ELSE ConfigDb,
                            !.read = IF Scans(s) THEN ConfigDb ELSE None]]
    /\ UNCHANGED poolVars

\* A command fails: its socket is closed and goes back to the pool.
Break(s) ==
    /\ call[s].pc = "held"
    /\ idle' = [idle EXCEPT ![call[s].client] = Given(s, <<ConfigDb>> \o @)]
    /\ call' = [call EXCEPT ![s] = Answered(@, "failed")]
    /\ UNCHANGED <<pool, lock>>

\* The server or the network closes an idle socket.
Lose(k) ==
    /\ \E i \in DOMAIN idle[k] :
          /\ idle[k][i] # ConfigDb
          /\ idle' = [idle EXCEPT ![k][i] = ConfigDb]
    /\ call' = Disturb(k, call)
    /\ UNCHANGED <<pool, lock>>

\* close_client, by a disconnect or after an update of the connection.
Close(s, w) ==
    LET k == Known(w, call[s].conn) IN
    /\ call[s].pc = "sent" /\ call[s].kind = "close"
    /\ lock[w] = None
    /\ IF k = None
       THEN /\ call' = [call EXCEPT ![s] = Answered(@, "done")]
            /\ UNCHANGED <<pool, idle>>
       ELSE /\ pool' = [pool EXCEPT ![w][call[s].conn] = None]
            /\ idle' = [idle EXCEPT ![k] = <<>>]
            /\ call' = [Closed(k, call) EXCEPT ![s] = Answered(@, "done")]
    /\ UNCHANGED lock

\* The request is refused before it reaches the manager, or is lost.
Fail(s) ==
    /\ call[s].pc = "sent"
    /\ call' = [call EXCEPT ![s] = Answered(@, "failed")]
    /\ UNCHANGED poolVars

\* A call of the page, and its answer.
Ask(s) ==
    /\ call[s].pc = "rest"
    /\ \E kind \in Kind, c \in Conn, d \in Db : call' = [call EXCEPT ![s] = Request(kind, c, d)]
    /\ UNCHANGED poolVars

Return(s) ==
    /\ call[s].pc \in {"done", "failed"}
    /\ call' = [call EXCEPT ![s] = Rest]
    /\ UNCHANGED poolVars

\* What get_client, is_connected and the commands do; they end, for a socket has a timeout.
Work(s) ==
    \/ Pinged(s) \/ PingFails(s) \/ Checked(s) \/ Create(s) \/ Refuse(s)
    \/ Take(s) \/ Selected(s) \/ Put(s) \/ Break(s)

Reach(s) == \E w \in Worker : Enter(s, w) \/ Absent(s, w) \/ Close(s, w)

Next ==
    \/ \E s \in Slot : Ask(s) \/ Reach(s) \/ Fail(s) \/ Work(s) \/ Retry(s) \/ Return(s)
    \/ \E k \in Client : Lose(k)

Spec == Init /\ [][Next]_vars

\* A thread goes on, and a lock that becomes free again and again is given to
\* every thread that waits for it.
Fairness == \A s \in Slot : WF_vars(Work(s)) /\ SF_vars(Reach(s))

FairSpec == Spec /\ Fairness

-----------------------------------------------------------------------------
\* The shapes of the calls and of the connection manager
\* (services/redis_connection_manager.py).
TypeOK ==
    /\ call \in [Slot ->
         [kind : Kind \cup {"none"}, conn : Conn \cup {None}, db : Db \cup {None},
          pc : {"rest", "sent", "pinging", "creating", "ready", "held", "done", "failed"},
          step : {"none", "select", "act"}, worker : Worker \cup {None},
          client : Client \cup {None}, sock : Db \cup {None}, read : Db \cup {None},
          alone : BOOLEAN]]
    /\ pool \in [Worker -> [Conn -> Client \cup {None}]]
    /\ idle \in [Client -> Seq(Db)]
    /\ lock \in [Worker -> Slot \cup {None}]

\* A worker has one client for a connection, and a call runs its commands on
\* a client of its own connection, even when the client is closed or replaced
\* under it (redis_connection_manager.py:268-308).
OwnClient ==
    \A s \in Slot, w \in Worker, c \in Conn :
        call[s].client # None /\ call[s].client = pool[w][c]
            => call[s].worker = w /\ call[s].conn = c

\* A scan reads the database it asks for unless another call, a close or the
\* loss of a socket comes between its two commands: the pool gives SCAN the
\* socket that SELECT was sent on (redis_management_service.py:678-684).
AloneScan ==
    \A s \in Slot :
        call[s].kind = "scan" /\ call[s].pc = "done" /\ call[s].alone
            => call[s].read = call[s].db

\* The lock of a worker belongs to the call that is in get_client or is_connected
\* there, and to nobody else: no call leaves them with the lock, and none is in
\* them without (redis_connection_manager.py:266-308, 394-403).
LockServed ==
    \A w \in Worker, s \in Slot :
        lock[w] = s <=> call[s].pc \in {"pinging", "creating"} /\ call[s].worker = w

\* Every request is answered: no thread keeps the lock of its worker, whatever
\* fails while it has it (redis_connection_manager.py:266-308).
CallsEnd == \A s \in Slot : call[s].pc = "sent" ~> call[s].pc \in {"done", "failed"}
=============================================================================
