--------------------------- MODULE RedisPoolProofs ---------------------------
(***************************************************************************)
(* The safety of the Redis connection manager for any number of workers,    *)
(* connections, clients and overlapping calls.  The argument is about two   *)
(* things a call can rely on once it has its client: the map holds it under *)
(* no other key (Injective, OwnClient), and as long as a scan is alone the  *)
(* first idle socket of the client is the one its SELECT was sent on        *)
(* (Undisturbed).                                                           *)
(***************************************************************************)
EXTENDS RedisPool, TLAPS

Record ==
    [kind : Kind \cup {"none"}, conn : Conn \cup {None}, db : Db \cup {None},
     pc : {"rest", "sent", "pinging", "creating", "ready", "held", "done", "failed"},
     step : {"none", "select", "act"}, worker : Worker \cup {None},
     client : Client \cup {None}, sock : Db \cup {None}, read : Db \cup {None},
     alone : BOOLEAN]

\* What a call holds at each point of its way.
Formed(r) ==
    /\ r.client # None <=> r.pc \in {"pinging", "ready", "held"}
    /\ r.sock # None <=> r.pc \in {"pinging", "held"}
    /\ r.pc \in {"sent", "pinging", "creating", "ready", "held"} =>
         r.conn \in Conn /\ r.step \in {"select", "act"}
    /\ r.pc \in {"pinging", "creating", "ready", "held"} => r.worker \in Worker
    /\ r.pc \in {"sent", "pinging", "creating"} /\ r.kind = "scan" => r.step = "select"
    /\ r.step = "select" => r.kind = "scan"
    /\ r.kind = "scan" => r.db \in Db
    /\ r.alone => r.kind = "scan"

Calls == call \in [Slot -> Record] /\ \A s \in Slot : Formed(call[s])

Stored ==
    /\ pool \in [Worker -> [Conn -> Client \cup {None}]]
    /\ idle \in [Client -> Seq(Db)]
    /\ lock \in [Worker -> Slot \cup {None}]

\* No client is held under two keys.
Injective ==
    \A w, v \in Worker : \A c, d \in Conn :
        pool[w][c] # None /\ pool[w][c] = pool[v][d] => w = v /\ c = d

\* A scan that is alone has its client for itself and finds its socket again.
AloneIn(s) ==
    /\ call[s].client # None => \A t \in Slot : call[t].client = call[s].client => t = s
    /\ call[s].pc = "ready" /\ call[s].step = "act" =>
         idle[call[s].client] # <<>> /\ Head(idle[call[s].client]) = call[s].db
    /\ call[s].pc = "held" =>
         IF call[s].step = "select" THEN call[s].sock = call[s].db ELSE call[s].read = call[s].db
    /\ call[s].pc = "done" => call[s].read = call[s].db

Undisturbed == \A s \in Slot : call[s].alone => AloneIn(s)

Inv == Calls /\ Stored /\ Injective /\ OwnClient /\ Undisturbed

-----------------------------------------------------------------------------
(***************************************************************************)
(* Calls.                                                                   *)
(***************************************************************************)

LEMMA RestFormed == Rest \in Record /\ Formed(Rest) /\ Rest.client = None /\ ~Rest.alone
BY DEF Rest, Record, Formed

LEMMA RequestFormed ==
    ASSUME NEW kind \in Kind, NEW c \in Conn, NEW d \in Db
    PROVE  /\ Request(kind, c, d) \in Record /\ Formed(Request(kind, c, d))
           /\ Request(kind, c, d).client = None /\ ~Request(kind, c, d).alone
BY NoneAssumption DEF Request, Rest, Record, Formed, Kind

LEMMA AnsweredFormed ==
    ASSUME NEW r \in Record, Formed(r), NEW pc \in {"done", "failed"}
    PROVE  /\ Answered(r, pc) \in Record /\ Formed(Answered(r, pc))
           /\ Answered(r, pc).client = None
           /\ Answered(r, pc).pc = pc
           /\ Answered(r, pc).alone => r.alone
           /\ Answered(r, pc).alone => pc = "done"
           /\ Answered(r, pc).alone => Answered(r, pc).read = r.read
           /\ Answered(r, pc).alone => Answered(r, pc).db = r.db
<1>1. CASE r.kind = "scan" /\ pc = "done"
  BY <1>1 DEF Answered, Rest, Record, Formed, Kind
<1>2. CASE ~(r.kind = "scan" /\ pc = "done")
  BY <1>2 DEF Answered, Rest, Record, Formed, Kind
<1> QED BY <1>1, <1>2

LEMMA Updating ==
    ASSUME Calls, NEW s \in Slot, NEW r \in Record, Formed(r), call' = [call EXCEPT ![s] = r]
    PROVE  Calls' /\ call'[s] = r /\ \A t \in Slot : t # s => call'[t] = call[t]
<1>1. call'[s] = r /\ \A t \in Slot : t # s => call'[t] = call[t]
  BY DEF Calls
<1>2. call' \in [Slot -> Record]
  BY DEF Calls
<1>3. \A t \in Slot : Formed(call'[t])
  BY <1>1 DEF Calls
<1> QED BY <1>1, <1>2, <1>3 DEF Calls, Record, Formed

\* A call whose client is used or closed by another one.
Milder(q, r) ==
    /\ r.kind = q.kind /\ r.conn = q.conn /\ r.db = q.db /\ r.pc = q.pc /\ r.step = q.step
    /\ r.worker = q.worker /\ r.client = q.client /\ r.read = q.read
    /\ ~r.alone

LEMMA MilderFormed ==
    ASSUME NEW q \in Record, Formed(q)
    PROVE  LET r1 == [q EXCEPT !.alone = FALSE]
               r2 == [q EXCEPT !.alone = FALSE, !.sock = IF @ = None THEN None ELSE ConfigDb]
           IN  /\ r1 \in Record /\ Formed(r1) /\ Milder(q, r1)
               /\ r2 \in Record /\ Formed(r2) /\ Milder(q, r2)
<1>1. [q EXCEPT !.alone = FALSE] \in Record /\ Milder(q, [q EXCEPT !.alone = FALSE])
  BY DEF Record, Milder
<1>2. Formed([q EXCEPT !.alone = FALSE])
  BY DEF Record, Formed
<1> DEFINE r2 == [q EXCEPT !.alone = FALSE, !.sock = IF @ = None THEN None ELSE ConfigDb]
<1>3. r2 \in Record /\ Milder(q, r2)
  BY ConfigDbAssumption DEF Record, Milder
<1>4. Formed(r2)
  BY ConfigDbAssumption, NoneAssumption DEF Record, Formed
<1> QED BY <1>1, <1>2, <1>3, <1>4

\* What a call does to its slot, and to the other calls of client k.
Stepped(s, k) ==
    \A t \in Slot : t # s =>
        IF call[t].client = k /\ k # None
        THEN Milder(call[t], call'[t]) \/ (call'[t] = call[t] /\ call[s].client = k)
        ELSE call'[t] = call[t]

LEMMA Disturbing ==
    ASSUME Calls, NEW s \in Slot, NEW k \in Client, NEW r \in Record, Formed(r),
           \/ call' = [Disturb(k, call) EXCEPT ![s] = r]
           \/ call' = [Closed(k, call) EXCEPT ![s] = r]
    PROVE  Calls' /\ call'[s] = r /\ Stepped(s, k)
<1> DEFINE f == Disturb(k, call)
           g == Closed(k, call)
<1>1. \A t \in Slot :
          /\ f[t] \in Record /\ Formed(f[t])
          /\ IF call[t].client = k THEN Milder(call[t], f[t]) ELSE f[t] = call[t]
  BY MilderFormed DEF Calls, Disturb
<1>2. \A t \in Slot :
          /\ g[t] \in Record /\ Formed(g[t])
          /\ IF call[t].client = k THEN Milder(call[t], g[t]) ELSE g[t] = call[t]
  BY MilderFormed DEF Calls, Closed
<1>3. DOMAIN f = Slot /\ f = [t \in Slot |-> f[t]] /\ DOMAIN g = Slot /\ g = [t \in Slot |-> g[t]]
  BY DEF Disturb, Closed
<1>4. PICK h : /\ call' = [h EXCEPT ![s] = r]
               /\ DOMAIN h = Slot /\ h = [t \in Slot |-> h[t]]
               /\ \A t \in Slot :
                    /\ h[t] \in Record /\ Formed(h[t])
                    /\ IF call[t].client = k THEN Milder(call[t], h[t]) ELSE h[t] = call[t]
  <2> HIDE DEF f, g
  <2>1. CASE call' = [f EXCEPT ![s] = r]
    BY <1>1, <1>3, <2>1
  <2>2. CASE call' = [g EXCEPT ![s] = r]
    BY <1>2, <1>3, <2>2
  <2> QED BY <2>1, <2>2 DEF f, g
<1>5. call'[s] = r /\ \A t \in Slot : t # s => call'[t] = h[t]
  BY <1>4
<1>6. call' \in [Slot -> Record]
  BY <1>4
<1>7. \A t \in Slot : Formed(call'[t])
  BY <1>4, <1>5
<1>8. Calls'
  BY <1>6, <1>7 DEF Calls, Record, Formed
<1>9. Stepped(s, k)
  <2>1. k # None
    BY NoneAssumption
  <2> HIDE DEF f, g
  <2> QED BY <1>4, <1>5, <2>1 DEF Stepped
<1> QED BY <1>5, <1>8, <1>9

-----------------------------------------------------------------------------
(***************************************************************************)
(* What a step of one call leaves to the others.                            *)
(***************************************************************************)

\* The idle sockets of the clients other than k are left alone.
Elsewhere(k) == \A j \in Client : j # k => idle'[j] = idle[j]

\* A step of call s on client k keeps every other call undisturbed that still
\* calls itself alone.
LEMMA OthersUndisturbed ==
    ASSUME Calls, Undisturbed, NEW s \in Slot, NEW k \in Client \cup {None}, Stepped(s, k),
           call'[s].client \in {k, None}, Elsewhere(k), call'[s].alone => AloneIn(s)'
    PROVE  Undisturbed'
<1> SUFFICES ASSUME NEW t \in Slot, t # s, call'[t].alone
             PROVE  AloneIn(t)'
  BY DEF Undisturbed
<1>1. call'[t] = call[t] /\ call[t].alone
  BY DEF Stepped, Milder
<1>2. AloneIn(t)
  BY <1>1 DEF Undisturbed
<1>3. call[t].client # None => call[t].client # k
  BY <1>1, <1>2 DEF Stepped, Milder, AloneIn
<1>4. \A u \in Slot : u # s => call'[u].client = call[u].client
  BY DEF Stepped, Milder
<1>5. call[t].client # None => \A u \in Slot : call'[u].client = call[t].client => u = t
  BY <1>2, <1>3, <1>4 DEF AloneIn
<1>6. call[t].client # None => call[t].client \in Client
  BY DEF Calls, Record
<1>7. call[t].client # None => idle'[call[t].client] = idle[call[t].client]
  BY <1>3, <1>6 DEF Elsewhere
<1>8. call[t].pc = "ready" => call[t].client # None
  BY DEF Calls, Formed
<1>9. call'[t].client # None => \A u \in Slot : call'[u].client = call'[t].client => u = t
  BY <1>1, <1>5
<1>10. call'[t].pc = "ready" /\ call'[t].step = "act" =>
         idle'[call'[t].client] # <<>> /\ Head(idle'[call'[t].client]) = call'[t].db
  BY <1>1, <1>2, <1>7, <1>8 DEF AloneIn
<1> QED BY <1>1, <1>2, <1>9, <1>10 DEF AloneIn

\* The map loses a key or keeps what it has, and no call gets a client.
LEMMA MapKept ==
    ASSUME Injective, OwnClient,
           \A w \in Worker, c \in Conn : pool'[w][c] \in {pool[w][c], None},
           \A t \in Slot : call'[t].client # None =>
               /\ call'[t].client = call[t].client
               /\ call'[t].worker = call[t].worker /\ call'[t].conn = call[t].conn
    PROVE  Injective' /\ OwnClient'
<1>1. Injective'
  BY DEF Injective
<1>2. OwnClient'
  BY DEF OwnClient
<1> QED BY <1>1, <1>2

\* A call gets the client that is held under its key.
LEMMA MapGiven ==
    ASSUME Injective, OwnClient, UNCHANGED pool, NEW s \in Slot,
           call'[s].worker \in Worker, call'[s].conn \in Conn,
           call'[s].client = pool[call'[s].worker][call'[s].conn],
           \A t \in Slot : t # s =>
               /\ call'[t].client = call[t].client
               /\ call'[t].worker = call[t].worker /\ call'[t].conn = call[t].conn
    PROVE  Injective' /\ OwnClient'
<1>1. Injective'
  BY DEF Injective
<1>2. OwnClient'
  BY DEF OwnClient, Injective
<1> QED BY <1>1, <1>2

\* A client that nothing refers to is put into the map and given to a call.
LEMMA MapFilled ==
    ASSUME Injective, OwnClient, Stored, NEW s \in Slot, NEW k \in Client, Fresh(k),
           NEW w \in Worker, NEW c \in Conn,
           pool' = [pool EXCEPT ![w][c] = k],
           call'[s].client = k, call'[s].worker = w, call'[s].conn = c,
           \A t \in Slot : t # s => call'[t] = call[t]
    PROVE  Injective' /\ OwnClient'
<1>1. \A v \in Worker, d \in Conn :
          /\ pool[v][d] # k
          /\ pool'[v][d] = IF v = w /\ d = c THEN k ELSE pool[v][d]
  BY DEF Stored, Fresh, Mapped
<1>2. \A t \in Slot : call[t].client # k
  BY DEF Fresh, Users
<1>3. Injective'
  BY <1>1 DEF Injective
<1>4. OwnClient'
  BY <1>1, <1>2 DEF OwnClient
<1> QED BY <1>3, <1>4

-----------------------------------------------------------------------------
(***************************************************************************)
(* The steps.                                                               *)
(***************************************************************************)

\* A step that changes the slot of call s and nothing of another call.
LEMMA Single ==
    ASSUME Calls, NEW s \in Slot, NEW r \in Record, Formed(r), call' = [call EXCEPT ![s] = r],
           NEW k, k = None \/ k = call[s].client
    PROVE  Calls' /\ call'[s] = r /\ Stepped(s, k) /\ \A t \in Slot : t # s => call'[t] = call[t]
BY Updating DEF Stepped

\* A call that is made, answered or waits for a client has none.
LEMMA Without ==
    ASSUME Inv, NEW s \in Slot, NEW r \in Record, Formed(r), call' = [call EXCEPT ![s] = r],
           r.client = None, r.alone => r.pc = "done" /\ r.read = r.db,
           UNCHANGED <<pool, idle>>, lock' \in [Worker -> Slot \cup {None}]
    PROVE  Inv'
<1> USE DEF Inv
<1>1. Calls' /\ call'[s] = r /\ Stepped(s, None) /\ \A t \in Slot : t # s => call'[t] = call[t]
  BY Single
<1>2. Stored'
  BY DEF Stored
<1>3. Injective' /\ OwnClient'
  <2>1. \A w \in Worker, c \in Conn : pool'[w][c] \in {pool[w][c], None}
    OBVIOUS
  <2>2. \A t \in Slot : call'[t].client # None => call'[t] = call[t]
    BY <1>1
  <2> QED BY <2>1, <2>2, MapKept
<1>4. call'[s].alone => AloneIn(s)'
  BY <1>1 DEF AloneIn
<1>5. Undisturbed'
  BY <1>1, <1>4, OthersUndisturbed DEF Elsewhere
<1> QED BY <1>1, <1>2, <1>3, <1>5

\* A step of a call on the client it keeps or leaves.
LEMMA OnClient ==
    ASSUME Inv, NEW s \in Slot, call[s].client # None, NEW r \in Record, Formed(r),
           call' = [call EXCEPT ![s] = r],
           r.client # None => r.client = call[s].client /\ r.worker = call[s].worker
                              /\ r.conn = call[s].conn,
           NEW q \in Seq(Db), idle' = [idle EXCEPT ![call[s].client] = q],
           UNCHANGED pool, lock' \in [Worker -> Slot \cup {None}],
           call'[s].alone => AloneIn(s)'
    PROVE  Inv'
<1> USE DEF Inv
<1> DEFINE k == call[s].client
<1>1. k \in Client
  BY DEF Calls, Record
<1>2. Calls' /\ call'[s] = r /\ Stepped(s, k) /\ \A t \in Slot : t # s => call'[t] = call[t]
  BY Single
<1>3. Stored'
  BY <1>1 DEF Stored
<1>4. Injective' /\ OwnClient'
  <2>1. \A w \in Worker, c \in Conn : pool'[w][c] \in {pool[w][c], None}
    OBVIOUS
  <2>2. \A t \in Slot : call'[t].client # None =>
               /\ call'[t].client = call[t].client
               /\ call'[t].worker = call[t].worker /\ call'[t].conn = call[t].conn
    BY <1>2
  <2> QED BY <2>1, <2>2, MapKept
<1>5. Elsewhere(k)
  BY DEF Elsewhere, Stored
<1>6. Undisturbed'
  BY <1>1, <1>2, <1>5, OthersUndisturbed
<1> QED BY <1>2, <1>3, <1>4, <1>6

LEMMA SeqFacts ==
    ASSUME NEW q \in Seq(Db), NEW d \in Db
    PROVE  <<d>> \o q \in Seq(Db) /\ <<d>> \o q # <<>> /\ Head(<<d>> \o q) = d
OBVIOUS

LEMMA TopTyped ==
    ASSUME Stored, NEW k \in Client
    PROVE  Top(k) \in Db /\ Below(k) \in Seq(Db)
BY ConfigDbAssumption DEF Stored, Top, Below

LEMMA LockTyped ==
    ASSUME Stored, NEW w, NEW s \in Slot \cup {None}
    PROVE  [lock EXCEPT ![w] = s] \in [Worker -> Slot \cup {None}]
BY DEF Stored

LEMMA AskStep ==
    ASSUME Inv, NEW s \in Slot, Ask(s) \/ Return(s) \/ Fail(s) \/ Refuse(s)
    PROVE  Inv'
<1>1. call[s] \in Record /\ Formed(call[s])
  BY DEF Inv, Calls
<1>2. CASE Ask(s)
  <2>1. PICK kind \in Kind, c \in Conn, d \in Db : call' = [call EXCEPT ![s] = Request(kind, c, d)]
    BY <1>2 DEF Ask
  <2> QED BY <1>2, <2>1, RequestFormed, Without DEF Ask, poolVars, Inv, Stored
<1>3. CASE Return(s)
  BY <1>3, RestFormed, Without DEF Return, poolVars, Inv, Stored
<1>4. CASE Fail(s) \/ Refuse(s)
  <2>1. call' = [call EXCEPT ![s] = Answered(call[s], "failed")] /\ UNCHANGED <<pool, idle>>
    BY <1>4 DEF Fail, Refuse, poolVars
  <2>2. lock' \in [Worker -> Slot \cup {None}]
    BY <1>4, LockTyped DEF Fail, Refuse, Release, poolVars, Inv, Stored
  <2> QED BY <1>1, <2>1, <2>2, AnsweredFormed, Without
<1> QED BY <1>2, <1>3, <1>4

LEMMA PingedStep ==
    ASSUME Inv, NEW s \in Slot, Pinged(s)
    PROVE  Inv'
<1> USE DEF Inv
<1> DEFINE k == call[s].client
           r == [call[s] EXCEPT !.pc = "ready", !.sock = None]
<1>1. call[s] \in Record /\ Formed(call[s]) /\ call[s].pc = "pinging"
  BY DEF Calls, Pinged
<1>2. k \in Client /\ call[s].sock \in Db
  BY <1>1 DEF Record, Formed
<1>3. r \in Record /\ r.client = k /\ r.worker = call[s].worker /\ r.conn = call[s].conn
      /\ r.pc = "ready" /\ r.step = call[s].step /\ r.alone = call[s].alone /\ r.kind = call[s].kind
  BY <1>1 DEF Record
<1>4. Formed(r)
  BY <1>1 DEF Record, Formed
<1>5. call' = [call EXCEPT ![s] = r]
  BY DEF Pinged
<1>6. call'[s] = r /\ \A t \in Slot : t # s => call'[t] = call[t]
  BY <1>3, <1>4, <1>5, Updating
<1>7. call'[s].alone => AloneIn(s)'
  <2>1. SUFFICES ASSUME call[s].alone PROVE AloneIn(s)'
    BY <1>3, <1>6
  <2>2. AloneIn(s) /\ call[s].step = "select"
    BY <1>1, <2>1 DEF Undisturbed, Formed
  <2> HIDE DEF r
  <2> QED BY <1>1, <1>2, <1>3, <1>6, <2>2, NoneAssumption DEF AloneIn
<1>8. <<call[s].sock>> \o idle[k] \in Seq(Db)
  BY <1>2, SeqFacts DEF Stored
<1>9. idle' = [idle EXCEPT ![k] = <<call[s].sock>> \o idle[k]] /\ UNCHANGED pool
  BY <1>2 DEF Pinged, Stored
<1>10. lock' \in [Worker -> Slot \cup {None}]
  BY LockTyped DEF Pinged, Release
<1> HIDE DEF r
<1> QED BY <1>2, <1>3, <1>4, <1>5, <1>7, <1>8, <1>9, <1>10, NoneAssumption, OnClient

LEMMA TakeStep ==
    ASSUME Inv, NEW s \in Slot, Take(s)
    PROVE  Inv'
<1> USE DEF Inv
<1> DEFINE k == call[s].client
           sock == IF call[s].step = "select" THEN call[s].db ELSE Top(k)
           read == IF Scans(s) THEN Top(k) ELSE None
           r == [call[s] EXCEPT !.pc = "held", !.sock = sock, !.read = read]
<1>1. call[s] \in Record /\ Formed(call[s]) /\ call[s].pc = "ready"
  BY DEF Calls, Take
<1>2. k \in Client /\ Top(k) \in Db /\ Below(k) \in Seq(Db)
  BY <1>1, TopTyped DEF Record, Formed
<1>3. sock \in Db /\ read \in Db \cup {None}
  BY <1>1, <1>2 DEF Formed
<1>4. r \in Record /\ r.client = k /\ r.worker = call[s].worker /\ r.conn = call[s].conn
      /\ r.pc = "held" /\ r.step = call[s].step /\ r.alone = call[s].alone /\ r.kind = call[s].kind
      /\ r.db = call[s].db /\ r.sock = sock /\ r.read = read
  <2> HIDE DEF sock, read
  <2> QED BY <1>1, <1>3 DEF Record
<1>5. Formed(r)
  <2>1. call[s].step \in {"select", "act"}
    BY <1>1 DEF Formed
  <2> HIDE DEF sock, read, r
  <2> QED BY <1>1, <1>3, <1>4, <2>1, NoneAssumption DEF Record, Formed
<1>6. call' = [call EXCEPT ![s] = r]
  BY DEF Take
<1>7. call'[s] = r /\ \A t \in Slot : t # s => call'[t] = call[t]
  BY <1>4, <1>5, <1>6, Updating
<1>8. call'[s].alone => AloneIn(s)'
  <2>1. SUFFICES ASSUME call[s].alone PROVE AloneIn(s)'
    BY <1>4, <1>7
  <2>2. AloneIn(s) /\ call[s].kind = "scan"
    BY <1>1, <2>1 DEF Undisturbed, Formed
  <2>3. call[s].step = "select" => sock = call[s].db
    OBVIOUS
  <2>4. call[s].step = "act" => read = call[s].db
    BY <1>1, <2>2 DEF AloneIn, Scans, IsScan, Top
  <2>5. call[s].step \in {"select", "act"}
    BY <1>1 DEF Formed
  <2> HIDE DEF r, sock, read
  <2> QED BY <1>1, <1>2, <1>4, <1>7, <2>2, <2>3, <2>4, <2>5, NoneAssumption DEF AloneIn
<1>9. idle' = [idle EXCEPT ![k] = Below(k)] /\ UNCHANGED <<pool, lock>>
  BY DEF Take
<1>10. lock' \in [Worker -> Slot \cup {None}]
  BY <1>9 DEF Stored
<1> HIDE DEF r
<1> QED BY <1>2, <1>4, <1>5, <1>6, <1>8, <1>9, <1>10, NoneAssumption, OnClient

LEMMA SelectedStep ==
    ASSUME Inv, NEW s \in Slot, Selected(s)
    PROVE  Inv'
<1> USE DEF Inv
<1> DEFINE k == call[s].client
           r == [call[s] EXCEPT !.pc = "ready", !.step = "act", !.sock = None]
<1>1. call[s] \in Record /\ Formed(call[s]) /\ call[s].pc = "held" /\ call[s].step = "select"
  BY DEF Calls, Selected
<1>2. k \in Client /\ call[s].sock \in Db
  BY <1>1 DEF Record, Formed
<1>3. r \in Record /\ r.client = k /\ r.worker = call[s].worker /\ r.conn = call[s].conn
      /\ r.pc = "ready" /\ r.step = "act" /\ r.alone = call[s].alone /\ r.kind = call[s].kind
      /\ r.db = call[s].db /\ r.sock = None
  BY <1>1 DEF Record
<1>4. Formed(r)
  <2> HIDE DEF r
  <2> QED BY <1>1, <1>2, <1>3, NoneAssumption DEF Record, Formed
<1>5. call' = [call EXCEPT ![s] = r]
  BY DEF Selected
<1>6. call'[s] = r /\ \A t \in Slot : t # s => call'[t] = call[t]
  BY <1>3, <1>4, <1>5, Updating
<1>7. <<call[s].sock>> \o idle[k] \in Seq(Db)
  BY <1>2, SeqFacts DEF Stored
<1>8. idle' = [idle EXCEPT ![k] = <<call[s].sock>> \o idle[k]] /\ UNCHANGED <<pool, lock>>
  BY <1>2 DEF Selected, Stored
<1>9. call'[s].alone => AloneIn(s)'
  <2>1. SUFFICES ASSUME call[s].alone PROVE AloneIn(s)'
    BY <1>3, <1>6
  <2>2. AloneIn(s)
    BY <2>1 DEF Undisturbed
  <2>3. call[s].sock = call[s].db
    BY <1>1, <2>2 DEF AloneIn
  <2>4. idle'[k] = <<call[s].sock>> \o idle[k]
    BY <1>2, <1>8 DEF Stored
  <2>5. idle'[k] # <<>> /\ Head(idle'[k]) = call[s].db
    BY <1>2, <2>3, <2>4, SeqFacts DEF Stored
  <2> HIDE DEF r
  <2> QED BY <1>1, <1>2, <1>3, <1>6, <2>2, <2>5, NoneAssumption DEF AloneIn
<1>10. lock' \in [Worker -> Slot \cup {None}]
  BY <1>8 DEF Stored
<1> HIDE DEF r
<1> QED BY <1>2, <1>3, <1>4, <1>5, <1>7, <1>8, <1>9, <1>10, NoneAssumption, OnClient

LEMMA ReplyStep ==
    ASSUME Inv, NEW s \in Slot, Put(s) \/ Break(s)
    PROVE  Inv'
<1> USE DEF Inv
<1> DEFINE k == call[s].client
<1>1. call[s] \in Record /\ Formed(call[s]) /\ call[s].pc = "held"
  BY DEF Calls, Put, Break
<1>2. k \in Client /\ call[s].sock \in Db
  BY <1>1 DEF Record, Formed
<1>3. PICK d \in Db, pc \in {"done", "failed"} :
          /\ call' = [call EXCEPT ![s] = Answered(call[s], pc)]
          /\ idle' = [idle EXCEPT ![k] = Given(s, <<d>> \o idle[k])]
          /\ UNCHANGED <<pool, lock>>
          /\ pc = "done" => call[s].step = "act"
  <2>1. CASE Put(s)
    BY <1>2, <2>1 DEF Put, Stored, Calls
  <2>2. CASE Break(s)
    BY <1>2, <2>2, ConfigDbAssumption DEF Break, Stored, Calls
  <2> QED BY <2>1, <2>2
<1> DEFINE r == Answered(call[s], pc)
<1>4. /\ r \in Record /\ Formed(r) /\ r.client = None /\ r.pc = pc
      /\ r.alone => call[s].alone
      /\ r.alone => pc = "done"
      /\ r.alone => r.read = call[s].read
      /\ r.alone => r.db = call[s].db
  BY <1>1, AnsweredFormed
<1> HIDE DEF r
<1>5. call'[s] = r
  BY <1>3, <1>4, Updating DEF r
<1>6. call'[s].alone => AloneIn(s)'
  <2>1. SUFFICES ASSUME r.alone PROVE AloneIn(s)'
    BY <1>5
  <2>2. AloneIn(s)
    BY <1>4, <2>1 DEF Undisturbed
  <2>3. r.read = r.db
    BY <1>1, <1>3, <1>4, <2>1, <2>2 DEF AloneIn
  <2> QED BY <1>4, <1>5, <2>1, <2>3 DEF AloneIn
<1>7. <<d>> \o idle[k] \in Seq(Db)
  BY <1>2, SeqFacts DEF Stored
<1>8. Given(s, <<d>> \o idle[k]) \in Seq(Db)
  BY <1>7 DEF Given
<1>9. lock' \in [Worker -> Slot \cup {None}]
  BY <1>3 DEF Stored
<1> QED BY <1>2, <1>3, <1>4, <1>6, <1>8, <1>9, NoneAssumption, OnClient DEF r

LEMMA RetryStep ==
    ASSUME Inv, NEW s \in Slot, Retry(s)
    PROVE  Inv'
<1> USE DEF Inv
<1> DEFINE k == call[s].client
           sock == IF call[s].step = "select" THEN call[s].sock ELSE ConfigDb
           read == IF Scans(s) THEN ConfigDb ELSE None
           r == [call[s] EXCEPT !.alone = FALSE, !.sock = sock, !.read = read]
<1>1. call[s] \in Record /\ Formed(call[s]) /\ call[s].pc = "held"
  BY DEF Calls, Retry
<1>2. k \in Client /\ k # None
  BY <1>1, NoneAssumption DEF Record, Formed
<1>3. sock \in Db /\ read \in Db \cup {None}
  BY <1>1, ConfigDbAssumption DEF Record, Formed
<1>4. r \in Record /\ r.client = k /\ r.worker = call[s].worker /\ r.conn = call[s].conn
      /\ r.pc = "held" /\ r.step = call[s].step /\ ~r.alone /\ r.kind = call[s].kind
      /\ r.db = call[s].db /\ r.sock = sock
  <2> HIDE DEF sock, read
  <2> QED BY <1>1, <1>3 DEF Record
<1>5. Formed(r)
  <2> HIDE DEF sock, read, r
  <2> QED BY <1>1, <1>3, <1>4, NoneAssumption DEF Formed
<1>6. call' = [call EXCEPT ![s] = r]
  BY DEF Retry
<1>7. call'[s] = r
  BY <1>4, <1>5, <1>6, Updating
<1>8. idle' = [idle EXCEPT ![k] = idle[k]] /\ idle[k] \in Seq(Db) /\ UNCHANGED pool
      /\ lock' \in [Worker -> Slot \cup {None}]
  BY <1>2 DEF Retry, poolVars, Stored
<1> HIDE DEF r
<1> QED BY <1>2, <1>4, <1>5, <1>6, <1>7, <1>8, OnClient

\* A check leaves the client as it was, but for the socket it has used.
LEMMA CheckStep ==
    ASSUME Inv, NEW s \in Slot, Checked(s) \/ \E w \in Worker : Absent(s, w)
    PROVE  Inv'
<1> USE DEF Inv
<1> DEFINE k == call[s].client
           r == Answered(call[s], "done")
<1>1. call[s] \in Record /\ Formed(call[s]) /\ call[s].kind = "check"
  BY DEF Calls, Checked, Absent
<1>2. r \in Record /\ Formed(r) /\ r.client = None
  BY <1>1, AnsweredFormed
<1>3. ~r.alone
  BY <1>1 DEF Answered, Rest
<1>4. call' = [call EXCEPT ![s] = r] /\ UNCHANGED pool
  BY DEF Checked, Absent, poolVars
<1>5. lock' \in [Worker -> Slot \cup {None}]
  BY LockTyped DEF Checked, Absent, Release, poolVars, Stored
<1> HIDE DEF r
<1>6. CASE Checked(s)
  <2>1. k \in Client /\ call[s].sock \in Db
    BY <1>1, <1>6 DEF Checked, Record, Formed
  <2>2. PICK d \in {call[s].sock, ConfigDb} : idle' = [idle EXCEPT ![k] = <<d>> \o @]
    BY <1>6 DEF Checked
  <2>3. <<d>> \o idle[k] \in Seq(Db)
    BY <2>1, SeqFacts, ConfigDbAssumption DEF Stored
  <2>4. idle' = [idle EXCEPT ![k] = <<d>> \o idle[k]]
    BY <2>2
  <2>5. ~call'[s].alone
    BY <1>2, <1>3, <1>4, Updating
  <2> QED BY <1>2, <1>4, <1>5, <2>1, <2>3, <2>4, <2>5, NoneAssumption, OnClient
<1>7. CASE \E w \in Worker : Absent(s, w)
  BY <1>2, <1>3, <1>4, <1>5, <1>7, Without DEF Absent, poolVars
<1> QED BY <1>6, <1>7

\* A call that waits becomes the one that pings, or the one that creates.
LEMMA EnterStep ==
    ASSUME Inv, NEW s \in Slot, NEW w \in Worker, Enter(s, w)
    PROVE  Inv'
<1> USE DEF Inv
<1> DEFINE k == Known(w, call[s].conn)
<1>1. call[s] \in Record /\ Formed(call[s]) /\ call[s].pc = "sent" /\ call[s].client = None
      /\ call[s].conn \in Conn
  BY DEF Calls, Enter, Formed
<1>2. lock' \in [Worker -> Slot \cup {None}]
  BY LockTyped DEF Enter
<1>3. CASE k = None
  <2> DEFINE r == [call[s] EXCEPT !.pc = "creating", !.worker = w]
  <2>1. r \in Record /\ r.client = None /\ r.alone = call[s].alone /\ r.pc = "creating"
    BY <1>1 DEF Record
  <2>2. Formed(r)
    BY <1>1, NoneAssumption DEF Record, Formed
  <2>3. call' = [call EXCEPT ![s] = r] /\ UNCHANGED <<pool, idle>>
    BY <1>3 DEF Enter
  <2>4. r.alone => AloneIn(s)
    BY <2>1 DEF Undisturbed
  <2> HIDE DEF r
  <2>5. Calls' /\ call'[s] = r /\ Stepped(s, None) /\ \A t \in Slot : t # s => call'[t] = call[t]
    BY <2>1, <2>2, <2>3, Single
  <2>6. Stored'
    BY <1>2, <2>3 DEF Stored
  <2>7. Injective' /\ OwnClient'
    <3>1. \A v \in Worker, c \in Conn : pool'[v][c] \in {pool[v][c], None}
      BY <2>3
    <3>2. \A t \in Slot : call'[t].client # None => call'[t] = call[t]
      BY <2>1, <2>5
    <3> QED BY <3>1, <3>2, MapKept
  <2>8. AloneIn(s)'
    BY <2>1, <2>5 DEF AloneIn
  <2>9. Elsewhere(None)
    BY <2>3 DEF Elsewhere
  <2>10. Undisturbed'
    BY <2>1, <2>5, <2>8, <2>9, OthersUndisturbed
  <2> QED BY <2>5, <2>6, <2>7, <2>10
<1>4. CASE k # None
  <2> DEFINE alone == IsScan(s) /\ Users(k) = {}
             sock == Top(k)
             r == [call[s] EXCEPT !.pc = "pinging", !.worker = w, !.client = k,
                                  !.sock = sock, !.alone = alone]
  <2>1. k \in Client
    BY <1>1, <1>4 DEF Known, Stored
  <2>2. sock \in Db /\ Below(k) \in Seq(Db)
    BY <2>1, TopTyped
  <2>3. alone \in BOOLEAN /\ (alone => call[s].kind = "scan" /\ \A t \in Slot : call[t].client # k)
    BY DEF IsScan, Users
  <2>4. call' = [Disturb(k, call) EXCEPT ![s] = r] /\ idle' = [idle EXCEPT ![k] = Below(k)]
        /\ UNCHANGED pool
    BY <1>4 DEF Enter
  <2>5. k = pool[w][call[s].conn]
    BY DEF Known
  <2> HIDE DEF k, alone, sock
  <2>6. r \in Record /\ r.pc = "pinging" /\ r.worker = w /\ r.client = k /\ r.sock = sock
        /\ r.alone = alone /\ r.conn = call[s].conn /\ r.step = call[s].step
        /\ r.kind = call[s].kind /\ r.db = call[s].db
    BY <1>1, <2>1, <2>2, <2>3 DEF Record
  <2> HIDE DEF r
  <2>7. Formed(r)
    BY <1>1, <2>1, <2>2, <2>3, <2>6, NoneAssumption DEF Formed
  <2>8. Calls' /\ call'[s] = r /\ Stepped(s, k)
    BY <2>1, <2>4, <2>6, <2>7, Disturbing
  <2>9. Stored'
    BY <1>2, <2>1, <2>2, <2>4 DEF Stored
  <2>10. \A t \in Slot : t # s =>
            /\ call'[t].client = call[t].client
            /\ call'[t].worker = call[t].worker /\ call'[t].conn = call[t].conn
    BY <2>8 DEF Stepped, Milder
  <2>11. Injective' /\ OwnClient'
    <3>1. call'[s].worker = w /\ call'[s].conn = call[s].conn /\ call'[s].client = k
      BY <2>6, <2>8
    <3>2. call'[s].client = pool[call'[s].worker][call'[s].conn]
      BY <2>5, <3>1
    <3> QED BY <1>1, <2>4, <2>10, <3>1, <3>2, MapGiven
  <2>12. call'[s].alone => AloneIn(s)'
    BY <2>3, <2>6, <2>8, <2>10 DEF AloneIn
  <2>13. Elsewhere(k)
    BY <2>4 DEF Elsewhere, Stored
  <2>14. Undisturbed'
    BY <2>1, <2>6, <2>8, <2>12, <2>13, OthersUndisturbed
  <2> QED BY <2>8, <2>9, <2>11, <2>14
<1> QED BY <1>3, <1>4

\* A client whose ping fails leaves the map, and the call makes another one.
LEMMA PingFailsStep ==
    ASSUME Inv, NEW s \in Slot, PingFails(s)
    PROVE  Inv'
<1> USE DEF Inv
<1> DEFINE k == call[s].client
           r == [call[s] EXCEPT !.pc = "creating", !.client = None, !.sock = None, !.alone = FALSE]
<1>1. call[s] \in Record /\ Formed(call[s]) /\ call[s].pc = "pinging"
  BY DEF Calls, PingFails
<1>2. k \in Client /\ call[s].worker \in Worker /\ call[s].conn \in Conn
  BY <1>1 DEF Record, Formed
<1>3. r \in Record /\ r.client = None /\ ~r.alone
  BY <1>1 DEF Record
<1>4. Formed(r)
  BY <1>1, <1>2, NoneAssumption DEF Record, Formed
<1>5. call' = [Closed(k, call) EXCEPT ![s] = r] /\ UNCHANGED lock
      /\ idle' = [idle EXCEPT ![k] = <<>>]
      /\ pool' = [pool EXCEPT ![call[s].worker][call[s].conn] = None]
  BY DEF PingFails
<1> HIDE DEF r, k
<1>6. Calls' /\ call'[s] = r /\ Stepped(s, k)
  BY <1>2, <1>3, <1>4, <1>5, Disturbing
<1>7. Stored'
  BY <1>2, <1>5 DEF Stored
<1>8. Injective' /\ OwnClient'
  <2>1. \A w \in Worker, c \in Conn : pool'[w][c] \in {pool[w][c], None}
    BY <1>2, <1>5 DEF Stored
  <2>2. \A t \in Slot : call'[t].client # None =>
               /\ call'[t].client = call[t].client
               /\ call'[t].worker = call[t].worker /\ call'[t].conn = call[t].conn
    BY <1>3, <1>6 DEF Stepped, Milder
  <2> QED BY <2>1, <2>2, MapKept
<1>9. Elsewhere(k)
  BY <1>5 DEF Elsewhere, Stored
<1>10. Undisturbed'
  BY <1>2, <1>3, <1>6, <1>9, OthersUndisturbed
<1> QED BY <1>6, <1>7, <1>8, <1>10

LEMMA CreateStep ==
    ASSUME Inv, NEW s \in Slot, Create(s)
    PROVE  Inv'
<1> USE DEF Inv
<1> DEFINE k == CHOOSE k \in Client : Fresh(k)
           r == [call[s] EXCEPT !.pc = "ready", !.client = k, !.alone = IsScan(s)]
           w == call[s].worker
           c == call[s].conn
<1>1. k \in Client /\ Fresh(k)
  BY DEF Create
<1>2. /\ call' = [call EXCEPT ![s] = r]
      /\ pool' = [pool EXCEPT ![w][c] = k]
      /\ idle' = [idle EXCEPT ![k] = <<ConfigDb>>]
  BY DEF Create
<1>3. lock' \in [Worker -> Slot \cup {None}]
  BY LockTyped DEF Create, Release
<1> HIDE DEF k
<1>4. call[s] \in Record /\ Formed(call[s]) /\ call[s].pc = "creating"
  BY DEF Calls, Create
<1>5. w \in Worker /\ c \in Conn /\ (call[s].kind = "scan" => call[s].step = "select")
  BY <1>4 DEF Formed
<1>6. IsScan(s) \in BOOLEAN /\ (IsScan(s) => call[s].kind = "scan")
  BY DEF IsScan
<1>7. r \in Record /\ r.client = k /\ r.worker = w /\ r.conn = c /\ r.pc = "ready"
      /\ r.step = call[s].step /\ r.kind = call[s].kind /\ r.db = call[s].db
      /\ r.sock = call[s].sock /\ r.alone = IsScan(s)
  BY <1>1, <1>4, <1>6 DEF Record
<1> HIDE DEF r
<1>8. Formed(r)
  BY <1>1, <1>4, <1>5, <1>6, <1>7, NoneAssumption DEF Formed
<1>9. Calls' /\ call'[s] = r /\ Stepped(s, None) /\ \A t \in Slot : t # s => call'[t] = call[t]
  BY <1>2, <1>7, <1>8, Single
<1>10. \A t \in Slot : call[t].client # k
  BY <1>1 DEF Fresh, Users
<1>11. Stepped(s, k)
  BY <1>9, <1>10 DEF Stepped
<1>12. Stored'
  <2>1. pool' \in [Worker -> [Conn -> Client \cup {None}]]
    BY <1>1, <1>2, <1>5 DEF Stored
  <2>2. <<ConfigDb>> \in Seq(Db)
    BY ConfigDbAssumption
  <2>3. idle' \in [Client -> Seq(Db)]
    BY <1>1, <1>2, <2>2 DEF Stored
  <2> QED BY <1>3, <2>1, <2>3 DEF Stored
<1>13. Injective' /\ OwnClient'
  BY <1>1, <1>2, <1>5, <1>7, <1>9, MapFilled
<1>14. call'[s].alone => AloneIn(s)'
  BY <1>5, <1>6, <1>7, <1>9, <1>10 DEF AloneIn
<1>15. Elsewhere(k)
  BY <1>2 DEF Elsewhere, Stored
<1>16. Undisturbed'
  BY <1>1, <1>7, <1>9, <1>11, <1>14, <1>15, OthersUndisturbed
<1> QED BY <1>9, <1>12, <1>13, <1>16

\* A disconnect, or an update of a connection, closes the client under the
\* calls that use it.
LEMMA CloseStep ==
    ASSUME Inv, NEW s \in Slot, NEW w \in Worker, Close(s, w)
    PROVE  Inv'
<1> USE DEF Inv
<1> DEFINE k == Known(w, call[s].conn)
           r == Answered(call[s], "done")
<1>1. call[s] \in Record /\ Formed(call[s]) /\ call[s].pc = "sent" /\ call[s].kind = "close"
      /\ call[s].conn \in Conn
  BY DEF Calls, Close, Formed
<1>2. r \in Record /\ Formed(r) /\ r.client = None
  BY <1>1, AnsweredFormed
<1>3. ~r.alone
  BY <1>1 DEF Answered, Rest
<1>4. lock' \in [Worker -> Slot \cup {None}]
  BY DEF Close, Stored
<1>5. CASE k = None
  <2>1. call' = [call EXCEPT ![s] = r] /\ UNCHANGED <<pool, idle>>
    BY <1>5 DEF Close
  <2> HIDE DEF r
  <2> QED BY <1>2, <1>3, <1>4, <2>1, Without
<1>6. CASE k # None
  <2>1. call' = [Closed(k, call) EXCEPT ![s] = r] /\ idle' = [idle EXCEPT ![k] = <<>>]
        /\ pool' = [pool EXCEPT ![w][call[s].conn] = None] /\ UNCHANGED lock
    <3>1. Closed(k, call)[s] = call[s]
      BY <1>1, <1>6 DEF Closed, Calls, Formed
    <3> QED BY <1>6, <3>1 DEF Close, Closed
  <2>2. k \in Client
    BY <1>1, <1>6 DEF Known, Stored
  <2> HIDE DEF r, k
  <2>3. Calls' /\ call'[s] = r /\ Stepped(s, k)
    BY <1>2, <2>1, <2>2, Disturbing
  <2>4. Stored'
    BY <1>1, <2>1, <2>2 DEF Stored
  <2>5. Injective' /\ OwnClient'
    <3>1. \A v \in Worker, c \in Conn : pool'[v][c] \in {pool[v][c], None}
      BY <1>1, <2>1 DEF Stored
    <3>2. \A t \in Slot : call'[t].client # None =>
                 /\ call'[t].client = call[t].client
                 /\ call'[t].worker = call[t].worker /\ call'[t].conn = call[t].conn
      BY <1>2, <2>3 DEF Stepped, Milder
    <3> QED BY <3>1, <3>2, MapKept
  <2>6. Elsewhere(k)
    BY <2>1 DEF Elsewhere, Stored
  <2>7. Undisturbed'
    BY <1>2, <1>3, <2>2, <2>3, <2>6, OthersUndisturbed
  <2> QED BY <2>3, <2>4, <2>5, <2>7
<1> QED BY <1>5, <1>6

\* An idle socket is lost: no scan on its client is alone any more.
LEMMA LoseStep ==
    ASSUME Inv, NEW k \in Client, Lose(k)
    PROVE  Inv'
<1> USE DEF Inv
<1>1. call' = [t \in Slot |-> IF call[t].client = k THEN [call[t] EXCEPT !.alone = FALSE]
                                                   ELSE call[t]]
  BY DEF Lose, Disturb
<1>2. \A t \in Slot :
          /\ call'[t] \in Record /\ Formed(call'[t])
          /\ IF call[t].client = k THEN Milder(call[t], call'[t]) ELSE call'[t] = call[t]
  BY <1>1, MilderFormed DEF Calls
<1>3. Calls'
  <2>1. call' \in [Slot -> Record]
    BY <1>1, <1>2
  <2> QED BY <1>2, <2>1 DEF Calls, Record, Formed
<1>4. Stored' /\ Elsewhere(k) /\ UNCHANGED pool
  <2>1. PICK i \in DOMAIN idle[k] : idle' = [idle EXCEPT ![k] = [idle[k] EXCEPT ![i] = ConfigDb]]
    BY DEF Lose, Stored
  <2>2. [idle[k] EXCEPT ![i] = ConfigDb] \in Seq(Db)
    BY ConfigDbAssumption DEF Stored
  <2> QED BY <2>1, <2>2 DEF Lose, Stored, Elsewhere
<1>5. Injective' /\ OwnClient'
  <2>1. \A w \in Worker, c \in Conn : pool'[w][c] \in {pool[w][c], None}
    BY <1>4
  <2>2. \A t \in Slot : call'[t].client # None =>
               /\ call'[t].client = call[t].client
               /\ call'[t].worker = call[t].worker /\ call'[t].conn = call[t].conn
    BY <1>2 DEF Milder
  <2> QED BY <2>1, <2>2, MapKept
<1>6. ASSUME NEW t \in Slot, call'[t].alone
      PROVE  AloneIn(t)'
  <2>1. call[t].client # k /\ call'[t] = call[t] /\ AloneIn(t)
    BY <1>2, <1>6 DEF Milder, Undisturbed
  <2>2. \A u \in Slot : call'[u].client = call[u].client
    BY <1>2 DEF Milder
  <2>3. call'[t].client # None => \A u \in Slot : call'[u].client = call'[t].client => u = t
    BY <2>1, <2>2 DEF AloneIn
  <2>4. call[t].pc = "ready" => idle'[call[t].client] = idle[call[t].client]
    BY <1>4, <2>1 DEF Elsewhere, Calls, Record, Formed
  <2>5. call'[t].pc = "ready" /\ call'[t].step = "act" =>
          idle'[call'[t].client] # <<>> /\ Head(idle'[call'[t].client]) = call'[t].db
    BY <2>1, <2>4 DEF AloneIn
  <2> QED BY <2>1, <2>3, <2>5 DEF AloneIn
<1> QED BY <1>3, <1>4, <1>5, <1>6 DEF Undisturbed

-----------------------------------------------------------------------------
(***************************************************************************)
(* The lock: it is taken with the work it guards and given back with it.    *)
(***************************************************************************)

Serves(r, w) == r.pc \in {"pinging", "creating"} /\ r.worker = w

\* No step of a call moves another call on its way.
LEMMA OthersWait ==
    ASSUME Inv, NEW s \in Slot,
           Ask(s) \/ Reach(s) \/ Fail(s) \/ Work(s) \/ Retry(s) \/ Return(s)
    PROVE  \A t \in Slot : t # s => call'[t].pc = call[t].pc /\ call'[t].worker = call[t].worker
<1>1. PICK f : /\ \E r : call' = [f EXCEPT ![s] = r]
               /\ f = call \/ \E k : f = Disturb(k, call) \/ f = Closed(k, call)
  <2>1. CASE \E r : call' = [call EXCEPT ![s] = r]
    BY <2>1
  <2>2. CASE \E k, r : call' = [Disturb(k, call) EXCEPT ![s] = r]
    BY <2>2
  <2>3. CASE \E k, r : call' = [Closed(k, call) EXCEPT ![s] = r]
    BY <2>3
  <2>4. Ask(s) \/ Fail(s) \/ Retry(s) \/ Return(s) => \E r : call' = [call EXCEPT ![s] = r]
    BY DEF Ask, Fail, Retry, Return
  <2>5. Pinged(s) \/ Create(s) \/ Refuse(s) \/ Take(s) \/ Selected(s) \/ Put(s) \/ Break(s)
          \/ Checked(s) \/ (\E w \in Worker : Absent(s, w))
          => \E r : call' = [call EXCEPT ![s] = r]
    BY DEF Pinged, Create, Refuse, Take, Selected, Put, Break, Checked, Absent
  <2>6. PingFails(s) => \E k, r : call' = [Closed(k, call) EXCEPT ![s] = r]
    BY DEF PingFails
  <2>7. ASSUME NEW w \in Worker, Enter(s, w)
        PROVE  (\E r : call' = [call EXCEPT ![s] = r])
               \/ \E k, r : call' = [Disturb(k, call) EXCEPT ![s] = r]
    BY <2>7 DEF Enter
  <2>8. ASSUME NEW w \in Worker, Close(s, w)
        PROVE  (\E r : call' = [call EXCEPT ![s] = r])
               \/ \E k, r : call' = [Closed(k, call) EXCEPT ![s] = r]
    BY <2>8 DEF Close
  <2> QED BY <2>1, <2>2, <2>3, <2>4, <2>5, <2>6, <2>7, <2>8 DEF Work, Reach
<1>2. \A t \in Slot : f[t].pc = call[t].pc /\ f[t].worker = call[t].worker
  <2> SUFFICES ASSUME NEW t \in Slot
               PROVE  f[t].pc = call[t].pc /\ f[t].worker = call[t].worker
    OBVIOUS
  <2>1. call[t] \in Record
    BY DEF Inv, Calls
  <2>2. ASSUME NEW k
        PROVE  /\ Disturb(k, call)[t].pc = call[t].pc
               /\ Disturb(k, call)[t].worker = call[t].worker
    BY <2>1 DEF Disturb, Record
  <2>3. ASSUME NEW k
        PROVE  /\ Closed(k, call)[t].pc = call[t].pc
               /\ Closed(k, call)[t].worker = call[t].worker
    BY <2>1 DEF Closed, Record
  <2> QED BY <1>1, <2>2, <2>3
<1> QED BY <1>1, <1>2 DEF Disturb, Closed, Inv, Calls

\* A step that leaves the lock alone and the call where it is.
LEMMA LockLeft ==
    ASSUME LockServed, NEW s \in Slot, UNCHANGED lock,
           \A t \in Slot : t # s => call'[t].pc = call[t].pc /\ call'[t].worker = call[t].worker,
           \A w \in Worker : Serves(call'[s], w) <=> Serves(call[s], w)
    PROVE  LockServed'
BY DEF LockServed, Serves

\* A step that takes the lock of worker v, which nobody has.
LEMMA LockTaken ==
    ASSUME Inv, LockServed, NEW s \in Slot, NEW v \in Worker, lock[v] = None,
           lock' = [lock EXCEPT ![v] = s],
           \A t \in Slot : t # s => call'[t].pc = call[t].pc /\ call'[t].worker = call[t].worker,
           \A w \in Worker : ~Serves(call[s], w),
           \A w \in Worker : Serves(call'[s], w) <=> w = v
    PROVE  LockServed'
<1>1. \A w \in Worker : lock'[w] = IF w = v THEN s ELSE lock[w]
  BY DEF Inv, Stored
<1>2. ASSUME NEW w \in Worker, NEW t \in Slot
      PROVE  lock'[w] = t <=> Serves(call'[t], w)
  BY <1>1, NoneAssumption DEF LockServed, Serves
<1> QED BY <1>2 DEF LockServed, Serves

\* A step that gives the lock of worker v back.
LEMMA LockGiven ==
    ASSUME Inv, LockServed, NEW s \in Slot, NEW v \in Worker, Serves(call[s], v),
           lock' = [lock EXCEPT ![v] = None],
           \A t \in Slot : t # s => call'[t].pc = call[t].pc /\ call'[t].worker = call[t].worker,
           \A w \in Worker : ~Serves(call'[s], w)
    PROVE  LockServed'
<1>1. \A w \in Worker : lock'[w] = IF w = v THEN None ELSE lock[w]
  BY DEF Inv, Stored
<1>2. lock[v] = s /\ \A w \in Worker : w # v => lock[w] # s
  BY DEF LockServed, Serves
<1>3. ASSUME NEW w \in Worker, NEW t \in Slot
      PROVE  lock'[w] = t <=> Serves(call'[t], w)
  BY <1>1, <1>2, NoneAssumption DEF LockServed, Serves
<1> QED BY <1>3 DEF LockServed, Serves

LEMMA LockStep ==
    ASSUME Inv, LockServed, NEW s \in Slot,
           Ask(s) \/ Reach(s) \/ Fail(s) \/ Work(s) \/ Retry(s) \/ Return(s)
    PROVE  LockServed'
<1>1. \A t \in Slot : t # s => call'[t].pc = call[t].pc /\ call'[t].worker = call[t].worker
  BY OthersWait
<1>2. /\ call[s] \in Record /\ Formed(call[s]) /\ s \in DOMAIN call
      /\ DOMAIN call = Slot
  BY DEF Inv, Calls
<1>3. ASSUME NEW r \in Record, NEW pc \in {"done", "failed"}
      PROVE  Answered(r, pc).pc = pc
  BY <1>3 DEF Answered, Rest, Record
<1>4. CASE Ask(s) \/ Fail(s) \/ Return(s)
  <2>1. call'[s].pc \in {"sent", "failed", "rest"} /\ UNCHANGED lock
    <3>1. ASSUME NEW kind, NEW c, NEW d
          PROVE  Request(kind, c, d).pc = "sent"
      BY DEF Request, Rest
    <3>2. Rest.pc = "rest"
      BY DEF Rest
    <3>3. Answered(call[s], "failed").pc = "failed"
      BY <1>2, <1>3
    <3> QED BY <1>2, <1>4, <3>1, <3>2, <3>3 DEF Ask, Fail, Return, poolVars
  <2>2. call[s].pc \in {"rest", "sent", "done", "failed"}
    BY <1>4 DEF Ask, Fail, Return
  <2> QED BY <1>1, <2>1, <2>2, LockLeft DEF Serves
<1>5. CASE Retry(s) \/ Take(s) \/ Selected(s)
  <2>1. call[s].pc \in {"ready", "held"} /\ UNCHANGED lock
    BY <1>5 DEF Retry, Take, Selected, poolVars
  <2>2. call'[s].pc \in {"ready", "held"}
    <3>2. CASE Retry(s)
      <4>1. PICK so, re : call' = [call EXCEPT ![s] =
                                     [call[s] EXCEPT !.alone = FALSE, !.sock = so, !.read = re]]
        BY <3>2 DEF Retry
      <4> QED BY <1>2, <2>1, <4>1 DEF Record
    <3>3. CASE Take(s)
      <4>1. PICK so, re : call' = [call EXCEPT ![s] =
                                     [call[s] EXCEPT !.pc = "held", !.sock = so, !.read = re]]
        BY <3>3 DEF Take
      <4> QED BY <1>2, <4>1 DEF Record
    <3>4. CASE Selected(s)
      BY <1>2, <3>4 DEF Selected, Record
    <3> QED BY <1>5, <3>2, <3>3, <3>4
  <2> QED BY <1>1, <2>1, <2>2, LockLeft DEF Serves
<1>6. CASE Put(s) \/ Break(s)
  <2>1. call[s].pc = "held" /\ UNCHANGED lock
    BY <1>6 DEF Put, Break
  <2>2. call'[s].pc \in {"done", "failed"}
    BY <1>2, <1>3, <1>6 DEF Put, Break
  <2> QED BY <1>1, <2>1, <2>2, LockLeft DEF Serves
<1>7. CASE PingFails(s)
  <2>1. call[s].pc = "pinging" /\ UNCHANGED lock
    BY <1>7 DEF PingFails
  <2>2. call'[s].pc = "creating" /\ call'[s].worker = call[s].worker
    BY <1>2, <1>7 DEF PingFails, Closed, Record
  <2> QED BY <1>1, <2>1, <2>2, LockLeft DEF Serves
<1>8. ASSUME NEW w \in Worker, Enter(s, w)
      PROVE  LockServed'
  <2>1. call[s].pc = "sent" /\ lock[w] = None /\ lock' = [lock EXCEPT ![w] = s]
    BY <1>8 DEF Enter
  <2>2. call'[s].pc \in {"pinging", "creating"} /\ call'[s].worker = w
    <3>1. PICK f, k, so, a :
             /\ f = call \/ f = Disturb(k, call)
             /\ \/ call' = [f EXCEPT ![s] = [call[s] EXCEPT !.pc = "creating", !.worker = w]]
                \/ call' = [f EXCEPT ![s] = [call[s] EXCEPT !.pc = "pinging", !.worker = w,
                                              !.client = k, !.sock = so, !.alone = a]]
      <4> DEFINE j == Known(w, call[s].conn)
      <4>1. CASE j = None
        BY <1>8, <4>1 DEF Enter
      <4>2. CASE j # None
        <5>1. call' = [Disturb(j, call) EXCEPT ![s] =
                         [call[s] EXCEPT !.pc = "pinging", !.worker = w, !.client = j,
                                         !.sock = Top(j), !.alone = IsScan(s) /\ Users(j) = {}]]
          BY <1>8, <4>2 DEF Enter
        <5> HIDE DEF j
        <5> QED BY <5>1
      <4> QED BY <4>1, <4>2
    <3>2. s \in DOMAIN f
      BY <1>2, <3>1 DEF Disturb
    <3> QED BY <1>2, <3>1, <3>2 DEF Record
  <2> QED BY <1>1, <2>1, <2>2, LockTaken DEF Serves
<1>9. ASSUME NEW w \in Worker, Close(s, w)
      PROVE  LockServed'
  <2>1. call[s].pc = "sent" /\ UNCHANGED lock
    BY <1>9 DEF Close
  <2>2. call'[s].pc = "done"
    <3>1. PICK f : s \in DOMAIN f /\ call' = [f EXCEPT ![s] = Answered(f[s], "done")]
                   /\ f[s] \in Record
      <4>1. CASE Known(w, call[s].conn) = None
        BY <1>2, <1>9, <4>1 DEF Close
      <4>2. CASE Known(w, call[s].conn) # None
        <5>1. call' = [Closed(Known(w, call[s].conn), call) EXCEPT ![s] = Answered(@, "done")]
          BY <1>9, <4>2 DEF Close
        <5>2. Closed(Known(w, call[s].conn), call)[s] \in Record
              /\ s \in DOMAIN Closed(Known(w, call[s].conn), call)
          BY <1>2, MilderFormed DEF Closed
        <5> QED BY <5>1, <5>2
      <4> QED BY <4>1, <4>2
    <3> QED BY <1>3, <3>1
  <2> QED BY <1>1, <2>1, <2>2, LockLeft DEF Serves
<1>10. CASE Pinged(s) \/ Create(s) \/ Refuse(s)
  <2>1. call[s].pc \in {"pinging", "creating"} /\ lock' = [lock EXCEPT ![call[s].worker] = None]
    BY <1>10 DEF Pinged, Create, Refuse, Release
  <2>2. call[s].worker \in Worker
    BY <1>2, <2>1 DEF Formed
  <2>3. call'[s].pc \in {"ready", "failed"}
    BY <1>2, <1>3, <1>10 DEF Pinged, Create, Refuse, Record
  <2> QED BY <1>1, <2>1, <2>2, <2>3, LockGiven DEF Serves
<1>11. CASE Checked(s)
  <2>1. call[s].pc = "pinging" /\ lock' = [lock EXCEPT ![call[s].worker] = None]
    BY <1>11 DEF Checked, Release
  <2>2. call[s].worker \in Worker
    BY <1>2, <2>1 DEF Formed
  <2>3. call'[s].pc = "done"
    BY <1>2, <1>3, <1>11 DEF Checked
  <2> QED BY <1>1, <2>1, <2>2, <2>3, LockGiven DEF Serves
<1>12. ASSUME NEW w \in Worker, Absent(s, w)
       PROVE  LockServed'
  <2>1. call[s].pc = "sent" /\ UNCHANGED lock
    BY <1>12 DEF Absent, poolVars
  <2>2. call'[s].pc = "done"
    BY <1>2, <1>3, <1>12 DEF Absent
  <2> QED BY <1>1, <2>1, <2>2, LockLeft DEF Serves
<1> QED BY <1>4, <1>5, <1>6, <1>7, <1>8, <1>9, <1>10, <1>11, <1>12 DEF Work, Reach

-----------------------------------------------------------------------------
(***************************************************************************)
(* The theorems.                                                            *)
(***************************************************************************)

LEMMA Initially == Init => Inv
<1> SUFFICES ASSUME Init PROVE Inv
  OBVIOUS
<1>1. call = [s \in Slot |-> Rest] /\ \A s \in Slot : call[s] = Rest
  BY DEF Init
<1>2. Calls /\ Undisturbed
  BY <1>1, RestFormed DEF Calls, Undisturbed
<1>3. Stored /\ Injective
  BY DEF Init, Stored, Injective
<1>4. OwnClient
  BY <1>1, RestFormed DEF OwnClient
<1> QED BY <1>2, <1>3, <1>4 DEF Inv

LEMMA Stepwise == Inv /\ [Next]_vars => Inv'
<1> SUFFICES ASSUME Inv, [Next]_vars PROVE Inv'
  OBVIOUS
<1>1. ASSUME NEW s \in Slot, Ask(s) \/ Reach(s) \/ Fail(s) \/ Work(s) \/ Retry(s) \/ Return(s)
      PROVE  Inv'
  <2>1. CASE Ask(s) \/ Fail(s) \/ Return(s) \/ Refuse(s)
    BY <2>1, AskStep
  <2>2. CASE Reach(s)
    BY <2>2, EnterStep, CheckStep, CloseStep DEF Reach
  <2>3. CASE Retry(s)
    BY <2>3, RetryStep
  <2>4. CASE Work(s) /\ ~Refuse(s)
    BY <2>4, PingedStep, PingFailsStep, CheckStep, CreateStep, TakeStep, SelectedStep, ReplyStep
       DEF Work
  <2> QED BY <1>1, <2>1, <2>2, <2>3, <2>4
<1>2. ASSUME NEW k \in Client, Lose(k)
      PROVE  Inv'
  BY <1>2, LoseStep
<1>3. CASE UNCHANGED vars
  BY <1>3 DEF vars, poolVars, Inv, Calls, Stored, Injective, OwnClient, Undisturbed, AloneIn
<1> QED BY <1>1, <1>2, <1>3 DEF Next

\* The invariant holds in every state of the connection manager.
THEOREM Invariance == Spec => []Inv
<1> QED BY Initially, Stepwise, PTL DEF Spec

\* Type correctness: a call that holds a client also holds what its next
\* command needs, whatever closes the client under it.
THEOREM Typing == Spec => []TypeOK
<1>1. Inv => TypeOK
  BY DEF Inv, Calls, Record, Stored, TypeOK
<1> QED BY <1>1, Invariance, PTL

\* A worker has one client for a connection, and a call runs its commands on a
\* client of its own connection.
THEOREM Owning == Spec => []OwnClient
<1>1. Inv => OwnClient
  BY DEF Inv
<1> QED BY <1>1, Invariance, PTL

\* A scan that nothing comes between reads the database it asks for.
THEOREM ScanningAlone == Spec => []AloneScan
<1>1. Inv => AloneScan
  BY DEF Inv, Undisturbed, AloneIn, AloneScan
<1> QED BY <1>1, Invariance, PTL

\* The lock of a worker is held by the call that is in get_client or is_connected
\* there, and by nothing else: what waits for it waits for a call that still has
\* work to do.
THEOREM LockAlwaysServed == Spec => []LockServed
<1>1. Init => LockServed
  BY NoneAssumption DEF Init, Rest, LockServed
<1>2. ASSUME Inv, LockServed, [Next]_vars
      PROVE  LockServed'
  <2>1. ASSUME NEW k \in Client, Lose(k)
        PROVE  LockServed'
    <3>1. call' = Disturb(k, call) /\ UNCHANGED lock
      BY <2>1 DEF Lose
    <3>2. \A t \in Slot : call'[t].pc = call[t].pc /\ call'[t].worker = call[t].worker
      BY <1>2, <3>1 DEF Disturb, Inv, Calls, Record
    <3> QED BY <1>2, <3>1, <3>2 DEF LockServed
  <2>2. CASE UNCHANGED vars
    BY <1>2, <2>2 DEF vars, poolVars, LockServed
  <2> QED BY <1>2, <2>1, <2>2, LockStep DEF Next
<1> QED BY <1>1, <1>2, Invariance, PTL DEF Spec
=============================================================================
