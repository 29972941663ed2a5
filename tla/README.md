# MiTong operations platform: TLA+ models

The repository is an operations platform: a Flask and Flask-SocketIO back end
(`admin-mit-backend/app`), Celery workers with Celery Beat, Redis and PostgreSQL, and a React
front end (`admin-mit-ui/src`). Paths below without a prefix are under `admin-mit-backend/app`
or, for TypeScript, under `admin-mit-ui/src`.

This directory holds TLA+ models of the parts whose behaviour depends on the order in which
threads, workers, requests, timers and lost messages meet, the TLC configurations that check them
on small instances, and TLAPS proofs of what they say for every size.

Contents: [the system](#the-system), [modules](#modules), [runs](#runs), [fairness](#fairness),
[proofs](#proofs), [where the code and its documents part](#where-the-code-and-its-documents-part),
[what is not modelled](#what-is-not-modelled), [plan](#plan), [how to run](#how-to-run).

## The system

### How the parts interact

```
 browser ── services/api.ts ──HTTP──► Flask request threads ──► PostgreSQL (READ COMMITTED)
    ▲                                   │    │        │
    │ EventSource (SSE)                 │    │        └─ ansible-playbook processes
    └───── generators of the requests ◄─┘    │
                                             ▼
        Celery Beat ──messages──► broker ──► Celery workers ──► Redis: locks, last runs,
                                                                 results, sessions, blacklist
```

* A request thread and a Celery worker share nothing but PostgreSQL, Redis and the broker. Neither
  the rows nor the keys are read and written under one lock: a handler loads a row or a key,
  decides, and writes it back one or more calls later.
* Within the web process threads share the registry of event streams, the dictionary of running
  Ansible executors, and the pools of Redis and database clients.
* Celery acknowledges a message after its task (`task_acks_late`, `celery_app.py`), so a message
  whose worker is lost is delivered again; a task publishes its own successor with a countdown.
* The front end is one thread of handlers that interleave at their network awaits.
* A page of the front end, a worker's pool of clients and an administered Redis server are three places
  that each remember a "current" database, and nothing ties them together. A terminal is remembered in
  four: the page, the hook, the service's socket and the server's bridge.

### Components

For each: the state it keeps, what changes it, what is hard, and what makes it correct.

**Probe scheduling** (`tasks/network_probe_tasks.py`, the probe handlers of `api/network.py`). State: the row of
`network_probes`, the `schedule_single_probe` messages in the broker, the Redis keys `probe_lock:{id}` and
`probe_last_run:{id}`. Operations: Beat publishes one message for each active probe every minute; a message takes the
lock, compares the last run with the interval, dispatches `execute_probe` and publishes its own successor; handlers
start, stop, update and delete the probe. Hard: the number of chains is not bounded by anything, the interval travels
in the message, a worker is lost between two writes, the keys expire, Beat and `start_probe` publish what they have
read or committed a while ago, `stop_probe` deletes keys that a task relies on. Correct: a probe never runs more often
than its interval allows, an active probe runs for ever, a stopped one stops, one task schedules a probe at a time.

**Probe execution and result cache** (`tasks/network_probe_tasks.py execute_probe`,
`services/network_cache_service.py`). State: the rows of results, the cached result of 180 s.
Operations: commit a result, cache it, let it expire. Hard: workers commit in one order and cache
in another.

**Probe result streaming** (`services/network_sse_service.py`). State: the registry of one connection per probe, the
bounded queue and `is_active` flag of each connection, the generators in their request threads. Operations: open,
greet, poll, send, heartbeat, leave; broadcast, which the service offers and no code of the repository calls; the
clean-up thread. Hard: a connection that is replaced, reaped or abandoned while a broadcast holds a reference to it
and its own generator has not noticed. Correct: one live stream, no dead one in the registry, a thread that serves
nobody ends, a queued result is sent.

**Ansible executions** (`api/ansible.py`, `services/ansible_service.py`, `models/ansible.py`,
`tasks/ansible_tasks.py`). State: the rows of `playbook_executions` and `ansible_playbooks`,
`_running_executors`, the `ansible-playbook` processes. Operations: execute, cancel, stop all,
delete, delete the playbook, the hourly sweep of stale executions. Hard: each thread commits
columns it has loaded transactions ago; records are deleted under it; the web process dies and the
playbook goes on. Correct: a status can be relied on as `ExecutionLifecycle` says, an execution that
has returned is final, success was earned, nothing stays running for ever.

**API client** (`services/api.ts`, `utils/request-deduplicator.ts`, `store/auth.ts`). State: the
calls in flight, `pendingRequests`, `isRefreshing` and `failedQueue`, the auth store. Operations:
ask, answer, refuse (401, or 400 for a stale CSRF token), refresh, sign in, sign out, load a page.
Hard: several calls are refused before the refresh that the first of them started is answered; the
refresh request is a call of the same client; answers come after the sign-in they belong to. Correct:
one refresh at a time, nobody waits for what has ended, the stored sign-in is whole.

**Sessions and sign-in** (`services/session_service.py`, `services/token_blacklist_service.py`,
`services/auth_service.py`, `core/auth_middleware.py`, `api/auth.py`). State: the session key and
the blacklist key in Redis, the two JWTs, the cookie. Operations: log in, verify (and extend),
refresh (and update), log out. Hard: every operation reads the session and writes it back in
separate commands; every error of Redis but the first is swallowed; a refresh and a logout take the access token
where the refresh token is missing, and nothing looks at the kind. Correct: a logout is final, a
session does not end before its cookie, a revoked token refreshes nothing.

**Redis connection manager and commands** (`services/redis_connection_manager.py`,
`services/redis_management_service.py`, `api/redis.py`). State: in every worker process a map from connections to
clients under one lock; in every client a pool of sockets; on the server's side of every socket the selected database.
Operations: get a client (ping it, replace it), ask whether there is one, run a command, close. Hard: the client is
taken under the lock and used after it, while other requests close it or share its sockets; `SELECT` sticks to a
socket, not to a client. Correct: a call works on its own connection, a scan reads the database it asks for when
nothing comes between, the lock always becomes free.

**Redis administration page** (`pages/Redis/index.tsx`, `ConnectionForm.tsx`, `services/redis.ts`). State: which
connection and database are selected, the listed keys, the dialogs and what each asks about. Operations: some thirty
handlers with up to three calls each. Hard: answers come in any order, after the page has moved on; closures keep the
selection of the render they were made in. Correct: the keys belong to the database above them, the dialog of a
switch and the form of a key act on what they show, the list does not load for ever.

**WebShell client** (`services/webshell.ts`, `hooks/useWebShell.ts`, `pages/Hosts/WebShell.tsx`,
`components/WebShell/WebShellTerminal.tsx`). State: one service for all pages, with one socket, session and state; the
hook's and the page's copies of the state; subscriptions. Operations: connect, disconnect, type, the events of the
socket. Hard: calls of connect overlap, and each leaves a socket that goes on writing into the service; a call ends
after its page was left. Correct: the page shows the service's state, output is shown once, connected means an open
socket on which a terminal was created (that it still lives is more than the client is told).

**WebShell server** (`services/webshell_service.py`, `webshell_terminal_service.py`, `ssh_terminal_bridge.py`,
`core/websocket_events.py`). State: a registry of sessions with a limit per user, an SSH channel and a reader
thread for each. Hard: socket events, reader threads and time-outs close the same session. Correct: the limit holds, a
closed session leaves no thread. Only what a client meets of it is modelled.

**Backups** (`tasks/backup_tasks.py`, `api/backup.py`). State: files named by the second, their
rows. Operations: the hourly schedule, retries, the retention sweep. Hard: two tenants share a
directory and a name; a retry meets the files of the first try. Correct: a row in state success has
its file, retention deletes only its own tenant's.

**Alert engines** (`services/alert_monitoring_service.py`, `services/network_alert_monitoring_service.py`). State: the
open alert of a rule and host, the duration and silence caches. Hard: check-then-insert in two statements; a cache in
one process. Nothing in the repository starts the engines.

**Host probes** (`tasks/host_probe_tasks.py`). State: the host's status, the results. Hard: two
probes of one host, a save that is retried.

**Database connection manager** (`services/database_management/connection_manager.py`). State: an engine per
connection under a lock. Hard: as for the Redis one.

The remaining components (rate limiter, an in-memory scheduler nothing starts, users and roles,
Kubernetes and database administration, notifications, audit, pages, deployment) are listed in
`PROJECT.json` with the reason why they are not modelled. `PROJECT.json` also lists the hazards of the modelled
components, at their lines, with the properties that cover them; those of the components that are left are under
[what is not modelled](#what-is-not-modelled).

## Modules

| module | role |
|---|---|
| `ProbeRate` | abstract: a probe runs at most once in an interval |
| `ProbeSchedule` | one probe's row, messages, lock and last run; implements `ProbeRate` |
| `ResultChannel` | abstract: what the streams of a probe promise their clients |
| `ProbeStream` | one probe's streams, broadcasts, results and cached result; implements `ResultChannel` |
| `ExecutionLifecycle` | abstract: what a status of an execution, beside the phase of its thread, can be relied on for |
| `AnsibleExecution` | the executions of one playbook; implements `ExecutionLifecycle` |
| `SingleFlight` | abstract: one refresh at a time, whose end lets every call go that waits for it |
| `ApiClient` | the browser's interceptor, deduplicator and auth store; implements `SingleFlight` |
| `SessionStore` | one sign-in: session, blacklist, tokens, cookie |
| `RedisPool` | the calls of Redis administration inside the workers: manager, clients, sockets |
| `RedisBrowser` | the page in front of it |
| `WebShell` | the terminal page, its hook and the service they share |
| `MC…` | constants and symmetry of the runs |
| `…Proofs` | the theorems about the module of that name |

`PROJECT.json` maps every definition that models code to its lines. The definitions called "Mutant
of X" are not part of a specification: each is a mistaken form of X, and putting it in X's place
violates the property named with it in `PROJECT.json`. They show that a property can fail.

### ProbeSchedule, ProbeRate

A *task* is one `schedule_single_probe` message from its publication to its acknowledgement.
`task[t].pc` is "waiting" in the broker, then the worker's place in the function: `Check` reads the
row, `TryLock` is SET NX EX, `ReadLastRun` and `SetLastRun` the two accesses to `probe_last_run`,
`Dispatch` publishes `execute_probe`, `ScheduleNext` and `Reschedule` publish the successor, `Unlock`
is the finally clause and `Fail` an error on any of these. `LoseWorker` puts the message back, as
late acknowledgement does; the lock stays. A *publisher* is a run of `schedule_auto_probes` or a start request, and
what it holds is in `offer[p]`: `Beat` is the query for active rows, `StartProbe` the commit of the row, after which
`ReloadProbe` reads its interval again; only then does `Publish` send the message, and `PublishFails` is an error of the
broker. Whatever happens to the row in between, the message goes out. `StopProbe` commits,
then `StopClearsLastRun` and `StopClearsLock` delete the keys one by one.

Time is a number of ticks, and every duration is what is left of it, so no clock grows; a countdown
is cut to whole seconds as `int(remaining)` does. `gap` is a history variable: the ticks since the
time stamped on the last dispatch. It is what `ProbeRate` is about: `Rate == INSTANCE ProbeRate WITH
since <- gap, Interval <- MinInterval`, and `KeepsRate == Rate!Spec`. The interval is the
shortest one, because `interval_seconds` travels in the message: a chain published before an
edit keeps the old interval for as long as it lives.

`EditSpec` has Beat, the tasks, faults and edits of the row, its starts among them; `Spec` adds stops; `FairSpec`
has starts and stops, no edits, and fairness.

### ProbeStream, ResultChannel

One key of the registry. A *stream* is one GET of `/probes/:id/sse`: an `SSEConnection` and its
generator, whose place is `gen[c]`. `Open` is `create_connection` with everything it does under the
lock: it closes the connection that has the key and takes its place. `Leave` is the generator's
finally clause, `remove_connection`, which removes *whatever* has the key. A broadcast takes its steps
outside the lock: `Find` the connection, `Look` at `is_active`, `Put` into its queue (a full queue
drops), `CacheSent`. Nobody calls `broadcast_probe_result`; the actions are the function as the service offers it, to be
called from any thread. `HangUp` is the client; the generator notices at its next yield. `Reap` is the
clean-up thread. `Commit` and `CacheResult` are the two steps of `execute_probe`. The query in `Greet`
runs after the application context is popped and raises; the error is swallowed, as in the code.

`ResultChannel` is the same service without locks, flags and threads: a broadcast is addressed to a live stream, which
accepts it into its `box` or refuses it, and the head of the box is what the client is told next. In `KeepsChannel`
the box of a stream is the message its generator has in hand, and then its queue (`Box`); a sender has an address from
the moment it has seen `is_active` (`Addressed`); several places of the generator are one `Stage`. So the refinement
says that the message in hand is neither lost nor sent twice, and that a broadcast which found a connection before it
was replaced may only be refused or reach that very stream.

### AnsibleExecution, ExecutionLifecycle

One step is one transaction. Between two transactions a thread keeps what SQLAlchemy has loaded, and `Written` is what
a commit does: a column whose value equals the one loaded is not written, and a commit that writes a deleted row fails
as a whole. `run[e]` is the thread inside `execute_playbook` (`Create`, `Load`, `Start`, `Register`, `Prepare`,
`Exit`, `Report`, `Finish`, `Pop`, with `Reject`, `LoseSight` and `Rescue` for the error paths). `Register` and `Pop`
enter and leave `_running_executors` under the record's id, which a commit has expired and which is therefore read
anew: an error there sends a thread that has committed its success to the except clause, which writes failed over it.
`req[r]` is another request or the sweep, in two transactions, `Begin…` and `Commit…`. `Crash` ends the web process
with its threads and its dictionary and leaves the playbooks running. `LoseSight` is the exception that reading the
record's id raises between two lines of output: the thread goes on as after a failed run, and nothing ends
`ansible-playbook`. `ExecutionLifecycle` relates a status to the phase of the thread: waiting, running, closing, over.
A status becomes running only by a thread that has not run before, and success only as the report of one that has;
others cancel at any time, give up on what has been started, or delete. `KeepsLifecycle` is the refinement with
`status <- row` and `phase` read off `run`. It is weaker than `can_be_cancelled` (`models/ansible.py:276`) and the
life in the documents (`docs/ansible_models.md:213`) on purpose: the cancel handler does not ask it, so a success may
be cancelled, and a cancelled execution may start and report. `CancelledStays` is what the documents say, and
`ansible_cancel` shows it violated.

### ApiClient

JavaScript runs a handler to its next network await, so an action is the code between two. `at[c]` is where a call is,
`refresh[c]` the refresh request a waiting call has made, which is itself a request of the same client and can be
refused (`RefuseRefresh`). A request refused for its CSRF token is sent again with a new one, as often as it is
refused: the code marks a retry only for 401, and the model puts no bound on it either. `Settle(S)` is the end of the
promises in `S`: their entries in `pendingRequests` go, and so do the calls that joined them. The server may answer
anything. For `KeepsSingleFlight` the refresh that is under way is whichever request has one, and who waits is
`failedQueue`. The assignment `this.token = …` (`services/api.ts:152`) throws, since the class has a getter of that
name only, so `GrantRefresh` takes the catch clause.

### SessionStore

Every command a request sends to Redis is a step; what a request has read is in `pc`, `stamp` (the age
of the `last_active` it will write) and `held` (the life it has read with TTL). `Verify`,
`ExtendRead` and `ExtendWrite` are `verify_auth`, which extends twice: once in `verify_request` and once in
the middleware. `Refresh`, `Check`, `Load`, `ReadTTL` and `Save` are `refresh_token` with its
`update_session`. `Delete` and `Revoke` are `logout`. `Fail` is an error of Redis, which ends what has not
been decided and is swallowed otherwise. A tick is an hour. `out`, `clean` and `revoked` are history
variables.

Tokens have names, since a refresh and a logout are about the one the request carries (`given[r]`): the refresh token
of the body, or the access token of the Authorization header when the body has none. Each is decoded and sought in the
blacklist under its own key, whatever its kind. `Issue` gives a new access token the name of one that is over, so that
few names are enough. A logout revokes the token it carries and no other: after one with the refresh token, a request
with the access token, on a session that a late write has brought back, is given a new access token. The model has
this behaviour, and `RevokedNeverRefreshes` says no more than that a token refreshes nothing once it has been revoked
itself.

### RedisPool

A *slot* of `call` is one request in a worker. `Enter` takes `_connection_lock` and looks the client up; a known
client is pinged under the lock (`Pinged`, `PingFails`), another is made there (`Create`, `Refuse`). A call of kind
"check" is `is_connected`, which pings a known client under the lock as well and keeps it whatever the answer
(`Checked`), or finds none (`Absent`). Then the lock is free and the call runs its commands: `Take` takes a socket out
of the client's pool for one command, `Put` puts it back with the answer, `Retry` is `retry_on_timeout`, `Break` a
connection that fails. A scan is two commands, `SELECT` (`Selected`) and `SCAN`. `Close` is a disconnect or an update
of the connection: it closes all sockets of the client, also those that commands hold. `Lose` is an idle socket the
server closes; when it is opened again it has the configured database.

`idle[k]` is the pool of client `k`: redis-py takes the socket that was put back last, so the sequence is a stack, and
an element is all that matters of a socket, the database its server side has selected. `alone` is a history variable: a
scan loses it when another call uses its client, when the client is closed, or when a socket is lost. Two scans that
overlap do read each other's database; `AloneScan` says exactly when a scan is safe from that.

### RedisBrowser

A slot is a call of the page with the handler that waits for it; what the handler has read before its await is in the
call (`place`, `conn`, `next`), because React's closures keep the render they were created in. `ClickConnect`,
`ConfirmSwitch`, `ClickDatabase`, `Search` and the others are clicks; `Connected`, `Scanned`, `Viewed`, `EditReady`,
`Written` and the others are what a handler does with its answer; `SearchFires` is the timer of the search box. A
dialog covers the page (`Uncovered`), except that a handler that waits may open one over it at any time. An answer,
success or failure, is taken by the handler that waits for it, in any order: that every call is answered is `CallsEnd`
of `RedisPool`. `tree` is which connection the tree marks as connected: a reload (`ClickReload`, `Listed`) marks the
one that was connected in the render it was called from, so it may differ from `connected`, which decides what a click
does.

`overlap` is a history variable: the last click for the form came while a key was being read for an earlier one.

### WebShell

An *attempt* is a call of connect together with the socket it opens. `at[a]` is the call, `sock[a]` the socket, and
both outlive the service's interest in them: `cur` is the attempt whose socket the service holds now. `Connect` is the
click, `Posted` the session, `GoOn` the continuation that opens the socket, `Opened` asks for the terminal, `Created`
and `Refused` are the answers; `Lost`, `Retry`, `GiveUp` are socket.io's. `Timeout` is the timer of 30 s that nothing
clears. `session[a]` is another attempt's when the request deduplicator joined the two posts. `state`, `hook` and
`shown` are the three copies of the connection state, of the service, the hook and the page; `subs` counts
subscriptions. `Disconnect` clears every listener of the service, of whatever page.

## Runs

All passing runs end with the whole state space searched.

| run | instance | what it shows |
|---|---|---|
| `probe_edit` | 3 messages, 1 publisher, intervals of 1 s and 2 s in half-second ticks, a lock held for up to half a second, 2 faults | no two tasks schedule at once and the schedule implements `ProbeRate`, with the row edited, deleted and started under running tasks |
| `probe_live` | 3 messages, 1 publisher, one interval, starts and stops at any time | an active probe is dispatched for ever, a stopped one's chains die out |
| `stream` | 2 streams, a broadcaster, a prober, 2 results, queue of 2, heartbeat of 2 polls, 3 streams and results together | the refinement of `ResultChannel` and the three liveness properties, in every order of openings, hang-ups and ends |
| `ansible` | 2 executions, 1 other request, the sweep, 2 faults, 3 executions and faults together | the invariants, among them who may run a playbook unwatched, the refinement of `ExecutionLifecycle`, and that nothing stays running |
| `client` | 3 calls on 2 keys | the refinement of `SingleFlight`, nobody waits for what is over, the store is the page's, every call ends unless a refresh is refused or a CSRF token is refused for ever |
| `session` | 3 requests, 3 access tokens, lives of 3 hours (session), 2 (access) and 4 (refresh), extension after 1, 1 error | a clean logout is final, the session covers the cookie, a revoked token refreshes nothing |
| `redis_run` | 2 connections, 2 databases, 1 worker, 3 clients, 2 calls | a client is its connection's own, a scan that is alone reads its database, the lock belongs to the call in `get_client`, every request is answered |
| `browser_run` | 2 connections with 2 databases, 2 keys, 2 calls | the panel is coherent, a switch and the form name what they act on, the list does not load for ever |
| `shell_run` | 3 attempts, 2 pages, 2 terminals asked for at once | the page shows the service's state, one subscription, connected means an open socket whose terminal was created |
| `ansible_cancel` | one execution, one request | *violated:* a cancelled execution becomes running or ends otherwise |
| `client_wait` | 3 calls | *violated:* a refused refresh waits for itself for ever |
| `session_logout` | 3 requests | *violated:* the session is there again after the logout |

Why the bounds are enough:

* Messages: one slot is always kept for a successor, so 3 slots are two chains: one task holds the lock while another
  is turned away or sleeps, and a lost worker's message comes back under either. Two faults allow a loss and a loss or
  an error in what follows it. One publisher holds what it has read while a stop, an edit, a start and any task go by;
  a second would publish what the first does. Two intervals, the longer twice the shorter, let an old chain and a new
  one overlap. `probe_live` has no faults, so crashes are the matter of `probe_edit`. `PerSecond = 2` makes
  `int(remaining)` cut a countdown to 0. `MaxHold` is shorter than the shortest interval, which is the assumption
  under which the lock outlives its holder (the tasks take milliseconds, the intervals are seconds).
* Streams: the hazards are between a stream, the one that replaces it and a broadcast that has found either. Two
  results are the least of which one can overtake the other or be taken for it, and a queue of 2 holds both; it is
  full when the broadcaster sends a third. Two polls make a heartbeat; an `IdleLimit` of 0 lets the reaper come after
  one quiet tick. `MaxWork` bounds streams and results together: two streams with one result each way of the
  replacement, or one stream with two. `ChannelKept` proves the order for any number.
* Executions: two, because the sweep and the deletion of a playbook write several records in one transaction and fail
  as a whole. Two faults allow an error in the except clause of an error, or a crash after an error. `StaleAfter = 0`
  makes a running record stale at once, which is the hardest case for its thread. `MaxWork` bounds executions and
  faults together: one execution meets two faults, two meet one.
* Calls: three, on two keys: one joins, one is queued behind a refresh, one starts it.
* Sessions: three requests are a logout between the read and the write of one request while a third extends;
  `RefreshLife > TTL > AccessLife` is the order of 30 days, 24 hours and one hour. `AccessLife` is 2 ticks, so that an
  access token may still live an hour after it was revoked. Three names of access tokens let two refreshes be granted
  while the first token lives; another one waits until a token is over.
* Redis calls: the hazards are between two, on one client or on two: one pings, replaces, closes or selects while the
  other runs commands. Three clients, because an old one may still be used by a call while both connections have new
  ones. One worker: workers share no state. 1,007,461 states.
* The page: two calls, because every hazard is an answer that comes after what a second handler did; two of
  everything, so that there is another to confuse it with. 3,339,264 states.
* Attempts: three, a socket the service holds, one it has left open and a call that is under way; two pages, one
  that was left and one that is there. `MaxAsks = 2` is the reopened socket that asks twice.

`CHECK_DEADLOCK FALSE` stands where a bound ends the behaviour: all messages, streams or executions are used up.
The other modules have no such state and are checked for deadlock.

## Fairness

A liveness property is stated under what the code's scheduling gives and nothing more.

* `ProbeSchedule`: Beat fires for ever, what it or a start request has read is published, time passes, a worker goes
  on with a task it has taken, a stop request is carried through. Strong fairness stands only where a bound of the
  model makes a step wait: time waits for `MaxHold`, a message of a publisher and a successor for a free slot.
* `ProbeStream`: the threads of requests run. No client has to come or leave, and the clean-up thread is not
  relied on: abandoned streams end by their heartbeats.
* `AnsibleExecution`: time passes and the sweep, an entry of Beat, comes and commits. The threads of
  requests may die, and `ansible-playbook` may run for ever.
* `ApiClient`: a request is answered, since axios ends it after 180 s; a page the browser leaves is unloaded. Nothing
  is asked of the user or of timers. Nor does anything say that a new CSRF token is accepted: `CallsSettle` says of
  each call that it ends unless a refresh request is refused, or the CSRF token of what the call waits for (itself,
  the call it has joined, the refresh it is queued behind) is refused for ever. `RefreshEnds` makes the same
  exception, so that `client_wait`, which violates it, is about the refused refresh alone.
* `RedisPool`: a thread goes on, since commands have a socket timeout (weak fairness of `Work`), and a lock that
  becomes free again and again is handed to every thread that waits for it (strong fairness of `Reach`).
* `SessionStore`, `RedisBrowser` and `WebShell` state no liveness property. The first one's hazards are orders of single
  commands; on the pages nothing has to happen without a click or an answer, and `LoadingServed` puts "the list stops
  loading" as an invariant: while it loads there is a call whose end stops it.

## Proofs

The theorems hold for every value of the constants that satisfies the named assumptions of the modules. Properties
that a stronger one of a run contains, or that are proved and cost a run too much, are in the modules and proved
without being in a run: `OneStream`, `NoGhost`, `OneRefresh`, `QueueServed`, `CountBounded`, `NoChainAfterStop`.

| module | theorem | of |
|---|---|---|
| `ProbeScheduleProofs` | `TypeCorrect`, `LockExcludesAlways`, `ScheduleKeepsRate`, `StopAddsNoChain` | `TypeOK`, `LockExcludes`, `KeepsRate`, `NoChainAfterStop` |
| `ProbeStreamProofs` | `StreamTypes`, `OneStreamAlways`, `NoGhostEver`, `ChannelKept` | `TypeOK`, `OneStream`, `NoGhost`, `KeepsChannel` |
| `AnsibleExecutionProofs` | `ExecutionTypes`, `ReturnIsFinal`, `ExecutorsAreTracked`, `SuccessIsTrue`, `PlaysAlwaysWatched`, `CountIsBounded`, `LifecycleKept` | the invariants, `CountBounded` and `KeepsLifecycle` |
| `ApiClientProofs` | `ClientTypes`, `OneRefreshAlways`, `QueueIsServed`, `JoinersAreServed`, `StoreAlwaysMatchesPage`, `SingleFlightKept` | the invariants, `OneRefresh`, `QueueServed` and `KeepsSingleFlight` |
| `RedisPoolProofs` | `Typing`, `Owning`, `ScanningAlone`, `LockAlwaysServed` | `TypeOK`, `OwnClient`, `AloneScan`, `LockServed` |
| `RedisBrowserProofs` | `Typing`, `Coherence`, `Naming`, `LoadingIsServed`, `FormNaming` | the five invariants |
| `WebShellProofs` | `Typing`, `Showing`, `Subscribing`, `Terminals` | the four invariants |
| `SessionStoreProofs` | `SessionTypes`, `CleanLogoutIsFinal`, `CookieIsCovered`, `BlacklistHolds` | the three invariants and `RevokedNeverRefreshes` |

**ProbeSchedule.** `LockExcludes` is not inductive: nothing in it says that a lock still runs while its taker works.
`LockRuns` adds that the life left and the time held make up the interval it was taken for; with `MaxHold` below every
interval (`Prompt`, an assumption of the theorems about `EditSpec`, and a bound on how long a task's few calls take)
the lock cannot expire under its holder. For the rate, `LastRunTells` ties `probe_last_run` to `gap`: the key is never
older than the last dispatch says, and it lives for two intervals, so that its absence means an interval has passed.
`DueInTime` says of a task that has decided to dispatch that the interval was over at the time it will stamp.
`Inductive` is their conjunction, and `ScheduleKeepsRate` maps every step to a run, a pass of time or a stutter of
`ProbeRate`. `StopAddsNoChain` is the safety half of `ChainsDieOut`, for every step there is and any finite number of
messages and publishers (`TaskAssumption`). It counts what is to come: the chains, and the publications under way of
Beat and of start requests. A stop may come between the query, or the commit, and the publication, and a message for
the stopped probe is then published; but it was counted before. So the number, a sum of two cardinalities, grows only
when a row that is active is read, when a start is committed, or by one for the message of a lost worker: a task that
publishes a successor is one chain before and its successor is one after (`HandsOver`), and a publisher that publishes
is one publication less (`OneOfferLess`). That a chain also ends is `ChainsDieOut`, which needs fairness.

**ProbeStream.** `OneStream` says that the registry and the `is_active` flags tell the same story, and with the types
and `NoGhost` that is inductive: whoever takes a connection out of the registry closes it under the same lock. On this
invariant rests `ChannelKept`, the refinement of `ResultChannel`, one action at a time. The box of a stream changes in
two places only. A `Put` that fits appends to it (`BoxGrows`): the message in hand and the queue after it are one
sequence, to the right of which `AppendRight` adds. A generator that takes a message moves the head of the queue into
its hand and leaves the box as it is (`HeadThenTail`), and one that sends drops the head (`ServeImplements`).
Everything else keeps every box (`BoxesStand`) and at most moves a stage or an address.

**AnsibleExecution.** The invariant is about one execution at a time (`Kept`): a step of its own thread restores it,
and what other threads do to its record only ends or deletes it (`Ended`). `Carried` adds what a thread in the middle
knows: one that has begun has a record, results are committed last, and a record it has loaded as closed is closed.
`CountIsBounded`, that `execution_count` never exceeds what was carried out, rests on `Counted`: no thread has loaded
more than was carried out by then, its own execution not included; `LifecycleKept` maps every transaction to a step of
`ExecutionLifecycle`, with `Placed`: what the place of a thread says of its record, of the status it has loaded and of
what another has loaded of it (a sweep has loaded only what a thread has begun to run). `PlaysAlwaysWatched` needs of
it that a record which is not there was deleted (`Carried`): a thread gives up its playbook (`LoseSight`) only then,
or at the cost of a fault.

**ApiClient.** The conjunction of `TypeOK`, `OneRefresh`, `QueueServed`, `JoinersServed` and `StoreMatchesPage` is
inductive. `Settling` and `Moving` say once what the end of promises and a move of a call do to `pendingRequests` and
the joined calls. `SingleFlightKept` uses it for the refinement: by `OneRefresh` the set of calls with a refresh is
empty or has one element, and by `QueueServed` the queue is empty whenever that set is, so that the end of the refresh
leaves neither.

**SessionStore.** `Gone` strengthens `LogoutHolds`: after a clean logout not only is the session absent, no request
holds one it has read. `Covered` strengthens `SessionCoversCookie`: a life that an update has read covers the cookie
too, for the cookie only grows older in between. `Listed` says that every revoked token and its
key have the same life, so that the blacklist forgets a token only when the token is over; `Issued` is why a new token
cannot inherit the name of one that is revoked, carried or alive.

**RedisPool.** `OwnClient` needs `Injective`: no client is kept under two connections, or in two workers. `AloneScan`
is about the end of a scan, and `Undisturbed` says what holds on the way: the client of a scan that is alone is used
by no other call, and between its commands the socket on top of the pool is the one `SELECT` was sent on. `LockServed`
is inductive with it: a step moves no other call on its way (`OthersWait`), and it takes the lock, gives it back or
leaves it with the call that had it (`LockTaken`, `LockGiven`, `LockLeft`). It is the safety half of `CallsEnd`:
whoever waits for the lock waits for a call that has work to do.

**RedisBrowser.** Four of the invariants are inductive together. `FormNamesTarget` needs `EditsNamed`: unless clicks
overlap, every key that is being read for the form is the one that is edited.

**WebShell.** `NoSocketYet` (a call whose post is under way has no socket) lets a continuation open one without losing
another's; `Unmounted` (between two pages the hook is as at the start) keeps a new page from inheriting `connected`.

Only model-checked: every liveness property, eight in all (`DispatchedForEver`, `ChainsDieOut`, `ClosedStreamsEnd`,
`AbandonedStreamsEnd`, `QueuedIsSent`, `RunningEnds`, `CallsSettle`, `CallsEnd`), which rest on fairness and ENABLED,
out of the prover's reach.

## Where the code and its documents part

With a run that shows it:

* A cancelled execution is started, or ended otherwise, by the thread that had loaded it (`ansible_cancel`).
* A refused refresh request waits in the queue that its own end would empty (`client_wait`).
* A request that has read a session writes it back after the logout (`session_logout`).

Met while modelling, without a run:

* When the record of a running execution is deleted, or the database fails while output is saved, the thread gives the
  run up as failed and leaves `ansible-playbook` running (`services/ansible_service.py:401`); a cancellation does not
  end it either (`PlaysAreWatched` says when a playbook runs unwatched).
* Each Beat adds a chain of messages to a probe that has one; the docstring says the lock avoids it
  (`tasks/network_probe_tasks.py:213`). `stop_probe` deletes a lock that a task may hold (`api/network.py:1066`).
* The generator of a replaced stream removes, with its finally clause, the stream that replaced it
  (`services/network_sse_service.py:372`).
* Two scans of one connection that overlap share sockets, so one may read the database the other selected
  (`services/redis_management_service.py:681`).
* Two clicks on "edit" that overlap leave the value of one key in a form that saves under the name of the other
  (`pages/Redis/index.tsx:317`).
* A reload of the connection list that overlaps a connect or a disconnect rebuilds the tree with the `connectedIds` of
  before, so a connected one shows as not connected, or the other way round (`pages/Redis/index.tsx:142`).
* The calls that view, save and delete a key name no database (`services/redis.ts:205`), so they run on whatever
  database the socket selected last, which may not be the one the panel shows
  (`services/redis_management_service.py:1031`).
* The terminal of a superseded call of connect opens the input of a session that has none (`services/webshell.ts:113`,
  against the guard at line 273); the 30 seconds of a superseded call put the hook into error while the page shows
  connected (line 99); in state error with a terminal there connect returns at once, so the button that reconnects
  (`docs/USER_MANUAL.md:173`) does nothing (line 60).
* A terminal that is asked for again before the server has removed the old bridge is refused ("Bridge already exists",
  `services/ssh_terminal_bridge.py:678`). Leaving the page does not end the session, which goes on counting among the
  user's five (`services/webshell_service.py:178`), although `docs/SSH终端优化方案.md:125` has a closed page end it.
* `session_terminated` is never sent: it goes to the session's `websocket_session_id`, which nothing sets.
* A request that is refused for its CSRF token is sent again for as long as it is refused, since the branch puts no
  mark on it (`services/api.ts:99`), unlike the branch for 401.
* A refresh whose body has no `refresh_token` takes the token of the Authorization header (`api/auth.py:138`) and does
  not look at its kind (`services/auth_service.py:385`): an access token refreshes itself.
* A refresh that the server grants signs the user out, because the assignment to `this.token` throws
  (`services/api.ts:152`); the guide says the front end refreshes the token by itself (`docs/OPERATIONS_GUIDE.md:333`).
* The generators of the probe streams and of the execution logs query the database outside an application
  context (`services/network_sse_service.py:448`, `api/ansible.py:1011`).
* The logout of the front end has no JSON body (`services/auth.ts:15`), `request.get_json()` refuses it
  (`api/auth.py:175`) and the handler answers 500 before it deletes anything; the API reference shows a
  request without a body (`docs/API_REFERENCE.md:155`).
* A logout without a `refresh_token` puts the access token into the blacklist, which only a refresh reads, and leaves
  the refresh token as it was; a logout with one leaves the access token.
* A refresh moves `last_active` and keeps the rest of the session's life, which puts the next extension off; the cookie
  of 24 hours is never renewed, so no extension helps beyond it.
* `broadcast_probe_result` has no caller (`docs/ARCHITECTURE.md:429` has the push of every result), and the front end
  listens for event names that are not sent (`hooks/useNetworkProbeSSE.ts`).
* `cancel` of an execution does not ask `can_be_cancelled` (`docs/ansible_models.md:213`); `execution_count` loses
  updates (`services/ansible_service.py:489`); no limit of concurrent executions is enforced
  (`docs/ansible_execution_service.md:204`); a pending record stays so for ever after a crash (`api/ansible.py:958`:
  the sweep asks for running records only).
* The deduplicator's finally clause deletes a newer entry of its key, so later duplicates are not joined
  (`utils/request-deduplicator.ts:48`).

## What is not modelled

* Contents: what a probe measures, what a playbook prints, what a call returns, who may do what. The properties are
  about when things happen to state, not about what they contain.
* Components that pass requests on, or whose operations are single transactions over their own rows: users, roles,
  menus, tenants, Kubernetes and database administration, notifications, audit, metrics, settings, the other pages.
* In modelled components: the list cache of probe results, the broadcasts of a status or an error (the same steps
  with another key), uploads and downloads (which skip the deduplicator), the login's checks; Redis clusters, tenants
  and the commands besides SELECT and SCAN; the creation and removal of stored connections; the registry of WebShell
  sessions, its bridges and reader threads; a terminal's contents; the dialog that confirms the deletion of a key
  (`deletingKey`).
* Components with hazards of their own that are left for later: the rate limiter, whose counter is read, compared and
  incremented in three commands and may expire in between (`core/rate_limiter.py:89`); the alert engine, which looks
  for an open alert and inserts one in two statements (`services/alert_monitoring_service.py:371`); backups that start
  in the same second and share a file (`tasks/backup_tasks.py:225`); a host whose row two probes write
  (`tasks/host_probe_tasks.py:436`).
* More than one of what shares nothing: several probes, several playbooks and several sign-ins share neither keys nor
  rows, so one of each is enough. What they do share, workers and threads, is not limited in the models.

## Plan

Done: `ProbeSchedule` first, for its lock, its rate and its crash hazards; `ProbeStream`; `AnsibleExecution`;
`ApiClient`; `SessionStore`; then `RedisPool` and `RedisBrowser`, the two ends of Redis administration; `WebShell`.
The order of what is left:

1. The server's side of `WebShell`: the registry, the limit per user, bridges, reader threads and the clean-up;
   abstract specification: a session opens, carries data and closes once. To be proved: the limit, and that no thread
   is without a session.
2. `BackupRetention`: files, rows, retries, two tenants, the sweep. Properties: a successful row has its file,
   retention never deletes the newest or another tenant's. To be proved: rows and files agree.
3. `AlertEngine`: one rule and host under evaluations of two threads, the caches, silence and recovery; the network
   engine as an instance. Properties: one open alert, a recovery closes it.
4. `HostProbe`, the database connection manager as an instance of `RedisPool`'s, the rate limiter.
5. Composition: `ApiClient` with `SessionStore` as its server, so that a refusal has a cause and a sign-in ends on
   both sides.

## How to run

In this directory, with TLC, the community modules and TLAPS at hand:

```
tlc -workers 2 -config StreamRun.cfg MCProbeStream
tlapm ProbeStreamProofs.tla
```

Each run of `PROJECT.json` names its module and configuration; the longest takes under four minutes.
