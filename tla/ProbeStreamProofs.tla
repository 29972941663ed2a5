-------------------------- MODULE ProbeStreamProofs --------------------------
(***************************************************************************)
(* Proofs about ProbeStream, for any number of requests, broadcasters and   *)
(* workers.  The registry and the is_active flags tell the same story, and   *)
(* that is inductive by itself; NoGhost needs nothing else.                 *)
(***************************************************************************)
EXTENDS ProbeStream, SequenceTheorems, TLAPS

\* What the proofs carry through every step.
Inv == TypeOK /\ OneStream /\ NoGhost

\* A step that leaves the registry, the flags and the ends of the generators as
\* they are leaves OneStream and NoGhost as they are.
LEMMA RegistryStands ==
    ASSUME OneStream, NoGhost, registry' = registry, active' = active,
           registry # None => gen'[registry] \notin {"new", "done"}
    PROVE  OneStream' /\ NoGhost'
BY DEF OneStream, NoGhost

\* The steps of a generator keep the invariant.
LEMMA ServeKeeps ==
    ASSUME Inv, NEW c \in Stream, Serve(c)
    PROVE  Inv'
<1> USE NoneAssumption, BoundsAssumption
<1>1. CASE Open(c)
  <2>1. TypeOK'
    BY <1>1 DEF Inv, TypeOK, Open, Goto, results
  <2>2. OneStream'
    BY <1>1 DEF Inv, OneStream, TypeOK, Open
  <2>3. NoGhost'
    BY <1>1 DEF Inv, NoGhost, TypeOK, Open, Goto
  <2> QED BY <2>1, <2>2, <2>3 DEF Inv
<1>2. CASE Greet(c)
  <2>1. TypeOK'
    BY <1>2 DEF Inv, TypeOK, Greet, Yield, Goto, results
  <2>2. OneStream' /\ NoGhost'
    BY <1>2, RegistryStands DEF Inv, TypeOK, Greet, Yield, Goto, NoGhost
  <2> QED BY <2>1, <2>2 DEF Inv
<1>3. CASE Loop(c)
  <2>1. TypeOK'
    BY <1>3 DEF Inv, TypeOK, Loop, Goto, results
  <2>2. OneStream' /\ NoGhost'
    BY <1>3, RegistryStands DEF Inv, TypeOK, Loop, Goto, NoGhost
  <2> QED BY <2>1, <2>2 DEF Inv
<1>4. CASE Take(c)
  <2>0. /\ Head(queue[c]) \in 1..MaxResults
        /\ Tail(queue[c]) \in Seq(1..MaxResults)
        /\ Len(Tail(queue[c])) <= Capacity
    BY <1>4 DEF Inv, TypeOK, Take
  <2>1. /\ queue' \in [Stream -> Seq(1..MaxResults)]
        /\ \A d \in Stream : Len(queue'[d]) <= Capacity
    BY <1>4, <2>0 DEF Inv, TypeOK, Take
  <2>2. msg' \in [Stream -> 0..MaxResults]
    BY <1>4, <2>0 DEF Inv, TypeOK, Take
  <2>3. TypeOK'
    <3>1. gen' \in [Stream -> {"new", "greet", "loop", "poll", "send", "leave", "done"}]
      BY <1>4 DEF Inv, TypeOK, Take, Goto
    <3>2. idle' \in 0..IdleLimit + 1
      BY <1>4 DEF Inv, TypeOK, Take
    <3>3. UNCHANGED <<registry, active, polls, gone, shown, latest, cached, prober, sender>>
      BY <1>4 DEF Take, results
    <3> HIDE <1>4, BoundsAssumption
    <3> QED BY <2>1, <2>2, <3>1, <3>2, <3>3 DEF Inv, TypeOK
  <2>4. OneStream' /\ NoGhost'
    BY <1>4, RegistryStands DEF Inv, TypeOK, Take, Goto, NoGhost
  <2> QED BY <2>3, <2>4 DEF Inv
<1>5. CASE Send(c)
  <2>1. TypeOK'
    BY <1>5 DEF Inv, TypeOK, Send, Yield, Goto, results
  <2>2. OneStream' /\ NoGhost'
    BY <1>5, RegistryStands DEF Inv, TypeOK, Send, Yield, Goto, NoGhost
  <2> QED BY <2>1, <2>2 DEF Inv
<1>6. CASE TimeOut(c)
  <2>1. polls' \in [Stream -> 0..HeartbeatPolls]
    <3>1. polls[c] + 1 < HeartbeatPolls => polls[c] + 1 \in 0..HeartbeatPolls
      BY DEF Inv, TypeOK
    <3>2. ~(polls[c] + 1 >= HeartbeatPolls) => polls[c] + 1 < HeartbeatPolls
      BY DEF Inv, TypeOK
    <3>3. CASE polls[c] + 1 >= HeartbeatPolls
      <4>1. polls' = [polls EXCEPT ![c] = 0]
        BY <1>6, <3>3 DEF TimeOut
      <4> QED BY <4>1 DEF Inv, TypeOK
    <3>4. CASE ~(polls[c] + 1 >= HeartbeatPolls)
      <4>1. polls' = [polls EXCEPT ![c] = polls[c] + 1]
        BY <1>6, <3>4 DEF TimeOut
      <4> QED BY <3>1, <3>2, <3>4, <4>1 DEF Inv, TypeOK
    <3> QED BY <3>3, <3>4
  <2>2. gen' \in [Stream -> {"new", "greet", "loop", "poll", "send", "leave", "done"}]
    BY <1>6 DEF Inv, TypeOK, TimeOut, Yield, Goto
  <2>3. TypeOK'
    BY <1>6, <2>1, <2>2 DEF Inv, TypeOK, TimeOut, results
  <2>4. OneStream' /\ NoGhost'
    BY <1>6, RegistryStands DEF Inv, TypeOK, TimeOut, Yield, Goto, NoGhost
  <2> QED BY <2>3, <2>4 DEF Inv
<1>7. CASE Leave(c)
  <2>1. TypeOK'
    BY <1>7 DEF Inv, TypeOK, Leave, Goto, results
  <2>2. OneStream' /\ NoGhost'
    BY <1>7 DEF Inv, TypeOK, Leave, OneStream, NoGhost
  <2> QED BY <2>1, <2>2 DEF Inv
<1> QED BY <1>1, <1>2, <1>3, <1>4, <1>5, <1>6, <1>7 DEF Serve

\* So do the steps of a broadcast, which never touch the registry.
LEMMA BroadcastKeeps ==
    ASSUME Inv, NEW s \in Sender, Broadcast(s)
    PROVE  Inv'
<1> USE BoundsAssumption
<1>0. registry' = registry /\ active' = active /\ gen' = gen
  BY DEF Broadcast, Find, Look, Put, CacheSent, streams
<1>1. OneStream' /\ NoGhost'
  BY <1>0, RegistryStands DEF Inv, NoGhost
<1>2. sender' \in [Sender -> Broadcasts]
  <2>1. ASSUME NEW rec \in Broadcasts, Advance(s, rec)
        PROVE  sender' \in [Sender -> Broadcasts]
    BY <2>1 DEF Inv, TypeOK, Advance
  <2>2. Resting \in Broadcasts
    BY DEF Broadcasts
  <2>3. ASSUME NEW pc \in {"look", "put", "cache"}, sender[s].pc # "rest"
        PROVE  [sender[s] EXCEPT !.pc = pc] \in Broadcasts
    <3>1. sender[s] \in [pc : {"look", "put", "cache"}, conn : Stream, res : 1..MaxResults]
      BY <2>3 DEF Inv, TypeOK, Broadcasts, Resting
    <3> QED BY <3>1 DEF Broadcasts
  <2>4. \A r \in 1..latest : registry # None =>
          [pc |-> "look", conn |-> registry, res |-> r] \in Broadcasts
    BY DEF Inv, TypeOK, Broadcasts
  <2>5. CASE Find(s)
    BY <2>1, <2>2, <2>4, <2>5 DEF Find
  <2>6. CASE Look(s)
    BY <2>1, <2>2, <2>3, <2>6 DEF Look
  <2>7. CASE Put(s)
    BY <2>1, <2>2, <2>3, <2>7 DEF Put
  <2>8. CASE CacheSent(s)
    BY <2>1, <2>2, <2>8 DEF CacheSent
  <2> QED BY <2>5, <2>6, <2>7, <2>8 DEF Broadcast
<1>3. /\ queue' \in [Stream -> Seq(1..MaxResults)]
      /\ \A d \in Stream : Len(queue'[d]) <= Capacity
  <2>1. CASE Put(s)
    <3> DEFINE c == sender[s].conn
    <3>1. c \in Stream /\ sender[s].res \in 1..MaxResults
      BY <2>1, SMTT(20) DEF Inv, TypeOK, Put, Broadcasts, Resting
    <3>2. CASE Len(queue[c]) < Capacity
      <4>1. queue' = [queue EXCEPT ![c] = Append(queue[c], sender[s].res)]
        BY <2>1, <3>2 DEF Put
      <4>2. queue[c] \in Seq(1..MaxResults)
        BY <3>1 DEF Inv, TypeOK
      <4>3. Append(queue[c], sender[s].res) \in Seq(1..MaxResults)
        BY <3>1, <4>2
      <4>4. Len(Append(queue[c], sender[s].res)) <= Capacity
        BY <3>1, <3>2, <4>2
      <4> QED BY <3>1, <4>1, <4>3, <4>4 DEF Inv, TypeOK
    <3>3. CASE ~(Len(queue[c]) < Capacity)
      BY <2>1, <3>3 DEF Inv, TypeOK, Put
    <3> QED BY <3>2, <3>3
  <2>2. CASE Find(s) \/ Look(s) \/ CacheSent(s)
    BY <2>2 DEF Inv, TypeOK, Find, Look, CacheSent, streams
  <2> QED BY <2>1, <2>2 DEF Broadcast
<1>4. idle' \in 0..IdleLimit + 1 /\ cached' \in 0..MaxResults
  <2>1. sender[s].pc = "cache" => sender[s].res \in 1..MaxResults
    BY DEF Inv, TypeOK, Broadcasts, Resting
  <2> QED BY <2>1 DEF Inv, TypeOK, Broadcast, Find, Look, Put, CacheSent, streams, results
<1>5. UNCHANGED <<polls, msg, gone, shown, latest, prober>>
  BY DEF Broadcast, Find, Look, Put, CacheSent, streams, results
<1>6. TypeOK'
  BY <1>0, <1>2, <1>3, <1>4, <1>5 DEF Inv, TypeOK
<1> QED BY <1>1, <1>6 DEF Inv

\* And the clients, the clean-up thread, time and the workers.
LEMMA OthersKeep ==
    ASSUME Inv,
           (\E c \in Stream : HangUp(c)) \/ Reap \/ Tick \/ Expire
               \/ (\E p \in Prober : Execute(p))
    PROVE  Inv'
<1> USE NoneAssumption, BoundsAssumption
<1>1. ASSUME NEW c \in Stream, HangUp(c) PROVE Inv'
  <2>1. TypeOK'
    BY <1>1 DEF Inv, TypeOK, HangUp, results
  <2> QED BY <1>1, <2>1, RegistryStands DEF Inv, HangUp, NoGhost
<1>2. CASE Reap
  <2>1. TypeOK'
    BY <1>2 DEF Inv, TypeOK, Reap, results
  <2>2. OneStream' /\ NoGhost'
    BY <1>2 DEF Inv, TypeOK, Reap, OneStream, NoGhost
  <2> QED BY <2>1, <2>2 DEF Inv
<1>3. CASE Tick
  <2>1. TypeOK'
    BY <1>3 DEF Inv, TypeOK, Tick, results
  <2> QED BY <1>3, <2>1, RegistryStands DEF Inv, Tick, NoGhost
<1>4. CASE Expire
  <2>1. TypeOK'
    BY <1>4 DEF Inv, TypeOK, Expire, streams
  <2> QED BY <1>4, <2>1, RegistryStands DEF Inv, Expire, NoGhost, streams
<1>5. ASSUME NEW p \in Prober, Execute(p) PROVE Inv'
  <2>1. TypeOK'
    <3>1. CASE Commit(p)
      BY <3>1 DEF Inv, TypeOK, Commit, streams
    <3>2. CASE CacheResult(p)
      BY <3>2 DEF Inv, TypeOK, CacheResult, streams
    <3> QED BY <1>5, <3>1, <3>2 DEF Execute
  <2>2. registry' = registry /\ active' = active /\ gen' = gen
    BY <1>5 DEF Execute, Commit, CacheResult, streams
  <2> QED BY <2>1, <2>2, RegistryStands DEF Inv, NoGhost
<1> QED BY <1>1, <1>2, <1>3, <1>4, <1>5

LEMMA InvHolds == Spec => []Inv
<1>1. Init => Inv
  BY NoneAssumption, BoundsAssumption
  DEF Init, Inv, TypeOK, OneStream, NoGhost, Broadcasts, Resting
<1>2. Inv /\ [Next]_vars => Inv'
  <2> SUFFICES ASSUME Inv, [Next]_vars PROVE Inv'
    OBVIOUS
  <2>1. CASE Next
    BY <2>1, ServeKeeps, BroadcastKeeps, OthersKeep DEF Next
  <2>2. CASE UNCHANGED vars
    BY <2>2 DEF Inv, TypeOK, OneStream, NoGhost, vars, streams, results
  <2> QED BY <2>1, <2>2
<1> QED BY <1>1, <1>2, PTL DEF Spec

\* The shapes of the registry, the queues and the threads hold for any number
\* of requests, broadcasters and workers.
THEOREM StreamTypes == Spec => []TypeOK
<1>1. Inv => TypeOK
  BY DEF Inv
<1> QED BY <1>1, InvHolds, PTL

\* A probe never has two live streams: create_connection, remove_connection and
\* the clean-up thread keep the flags and the registry in step, although every
\* generator removes whatever connection has its key.
THEOREM OneStreamAlways == Spec => []OneStream
<1>1. Inv => OneStream
  BY DEF Inv
<1> QED BY <1>1, InvHolds, PTL

\* The registry never keeps a connection whose generator has ended.
THEOREM NoGhostEver == Spec => []NoGhost
<1>1. Inv => NoGhost
  BY DEF Inv
<1> QED BY <1>1, InvHolds, PTL

-----------------------------------------------------------------------------
(***************************************************************************)
(* ProbeStream implements ResultChannel.                                    *)
(***************************************************************************)

\* A generator has a message in hand exactly while it is about to send it.
InHand == \A c \in Stream : msg[c] # 0 <=> gen[c] = "send"

HandInv == Inv /\ InHand

LEMMA InHandStep ==
    ASSUME Inv, InHand, [Next]_vars
    PROVE  InHand'
<1> USE DEF InHand
<1>1. ASSUME NEW c \in Stream, Serve(c) PROVE InHand'
  <2>1. CASE Take(c)
    <3>1. Head(queue[c]) \in 1..MaxResults
      <4>1. queue[c] \in Seq(1..MaxResults) /\ queue[c] # <<>>
        BY <2>1 DEF Inv, TypeOK, Take
      <4> QED BY <4>1, HeadTailProperties
    <3>2. msg' = [msg EXCEPT ![c] = Head(queue[c])] /\ gen' = [gen EXCEPT ![c] = "send"]
      BY <2>1 DEF Take, Goto
    <3> QED BY <3>1, <3>2 DEF Inv, TypeOK
  <2>2. CASE Send(c)
    BY <2>2 DEF Inv, TypeOK, Send, Yield, Goto
  <2>3. CASE Open(c) \/ Greet(c) \/ Loop(c) \/ TimeOut(c) \/ Leave(c)
    <3>1. msg' = msg /\ gen[c] # "send"
      BY <2>3 DEF Open, Greet, Loop, TimeOut, Leave
    <3>2. \E pc \in {"greet", "loop", "poll", "leave", "done"} : gen' = [gen EXCEPT ![c] = pc]
      BY <2>3 DEF Open, Greet, Loop, TimeOut, Leave, Yield, Goto
    <3> QED BY <3>1, <3>2 DEF Inv, TypeOK
  <2> QED BY <1>1, <2>1, <2>2, <2>3 DEF Serve
<1>2. ASSUME msg' = msg, gen' = gen PROVE InHand'
  BY <1>2
<1>3. CASE (\E c \in Stream : HangUp(c)) \/ Reap \/ Tick \/ Expire
               \/ (\E p \in Prober : Execute(p)) \/ (\E s \in Sender : Broadcast(s))
  BY <1>2, <1>3 DEF HangUp, Reap, Tick, Expire, Execute, Commit, CacheResult,
                    Broadcast, Find, Look, Put, CacheSent, streams
<1> QED BY <1>1, <1>2, <1>3 DEF Next, vars, streams

\* A sequence is its head followed by its tail.
LEMMA HeadThenTail ==
    ASSUME NEW S, NEW s \in Seq(S), s # <<>>
    PROVE  <<Head(s)>> \o Tail(s) = s
<1>1. Head(s) \in S /\ Tail(s) \in Seq(S) /\ Len(s) \in Nat /\ Len(Tail(s)) = Len(s) - 1
  BY HeadTailProperties
<1>2. <<Head(s)>> \in Seq(S) /\ Len(<<Head(s)>>) = 1
  BY <1>1
<1> DEFINE t == <<Head(s)>> \o Tail(s)
<1>3. t \in Seq(S) /\ Len(t) = Len(s)
  BY <1>1, <1>2, ConcatProperties
<1>4. \A i \in 1..Len(s) : t[i] = s[i]
  BY <1>1, <1>2, ConcatProperties, HeadTailProperties
<1> QED BY <1>3, <1>4, SeqEqual

LEMMA AppendRight ==
    ASSUME NEW S, NEW s \in Seq(S), NEW t \in Seq(S), NEW e \in S
    PROVE  s \o Append(t, e) = Append(s \o t, e)
<1>1. <<e>> \in Seq(S) /\ s \o t \in Seq(S)
  BY ConcatProperties
<1>2. Append(t, e) = t \o <<e>> /\ Append(s \o t, e) = (s \o t) \o <<e>>
  BY <1>1, AppendIsConcat
<1>3. (s \o t) \o <<e>> = s \o (t \o <<e>>)
  BY <1>1, ConcatAssociative
<1> QED BY <1>2, <1>3

\* A stream holds results, and its box is its queue when nothing is in hand.
LEMMA BoxOf ==
    ASSUME Inv, NEW c \in Stream
    PROVE  /\ Box(c) \in Seq(1..MaxResults)
           /\ msg[c] = 0 => Box(c) = queue[c]
           /\ msg[c] # 0 => Head(Box(c)) = msg[c] /\ Tail(Box(c)) = queue[c] /\ Box(c) # <<>>
           /\ Len(Box(c)) >= Len(queue[c]) /\ Len(Box(c)) <= Len(queue[c]) + 1
<1>1. queue[c] \in Seq(1..MaxResults) /\ msg[c] \in 0..MaxResults
  BY DEF Inv, TypeOK
<1>2. CASE msg[c] = 0
  <2>1. Box(c) = <<>> \o queue[c]
    BY <1>2 DEF Box
  <2>2. Box(c) = queue[c]
    BY <1>1, <2>1, ConcatEmptySeq
  <2> QED BY <1>1, <1>2, <2>2
<1>3. CASE msg[c] # 0
  <2>1. Box(c) = <<msg[c]>> \o queue[c]
    BY <1>3 DEF Box
  <2>2. msg[c] \in 1..MaxResults
    BY <1>1, <1>3
  <2> QED BY <1>1, <1>3, <2>1, <2>2
<1> QED BY <1>2, <1>3

\* A step that keeps the queues and the messages in hand keeps the boxes.
LEMMA BoxesStand ==
    ASSUME queue' = queue, msg' = msg
    PROVE  [c \in Stream |-> Box(c)]' = [c \in Stream |-> Box(c)]
BY DEF Box

\* A step of a generator from one pc to another moves its stage alone.
LEMMA StageMoves ==
    ASSUME Inv, NEW c \in Stream,
           NEW pc \in {"new", "greet", "loop", "poll", "send", "leave", "done"}, Goto(c, pc)
    PROVE  /\ \A d \in Stream : d # c => Stage(d)' = Stage(d)
           /\ Stage(c)' = IF pc = "new" THEN "new" ELSE IF pc = "greet" THEN "greeting"
                           ELSE IF pc = "done" THEN "ended" ELSE "open"
           /\ [d \in Stream |-> Stage(d)]' = [[d \in Stream |-> Stage(d)] EXCEPT ![c] = Stage(c)']
<1>1. /\ gen'[c] = pc
      /\ \A d \in Stream : d # c => gen'[d] = gen[d]
  BY DEF Inv, TypeOK, Goto
<1>2. /\ \A d \in Stream : d # c => Stage(d)' = Stage(d)
      /\ Stage(c)' = IF pc = "new" THEN "new" ELSE IF pc = "greet" THEN "greeting"
                      ELSE IF pc = "done" THEN "ended" ELSE "open"
  BY <1>1 DEF Stage
<1> QED BY <1>2

\* Between two stages of the same name nothing moves.
LEMMA StageStays ==
    ASSUME Inv, NEW c \in Stream, gen[c] \in {"loop", "poll", "send", "leave"},
           NEW pc \in {"loop", "poll", "send", "leave"}, Goto(c, pc)
    PROVE  [d \in Stream |-> Stage(d)]' = [d \in Stream |-> Stage(d)]
<1>1. \A d \in Stream : Stage(d)' = Stage(d)
  BY StageMoves DEF Stage
<1> QED BY <1>1

\* The steps of a generator are steps of its stream in ResultChannel.
LEMMA ServeImplements ==
    ASSUME HandInv, NEW c \in Stream, Serve(c)
    PROVE  Channel!Next \/ UNCHANGED Channel!vars
<1> USE DEF HandInv
<1>a. UNCHANGED sender => [s \in Sender |-> Addressed(s)]' = [s \in Sender |-> Addressed(s)]
  BY DEF Addressed
<1>1. CASE Open(c)
  <2>1. active' = {c}
    BY <1>1 DEF Inv, TypeOK, OneStream, Open
  <2>2. Channel!Reaches(c, "new", "greeting")
    BY <1>1, StageMoves DEF Open, Channel!Reaches, Stage
  <2> QED BY <1>1, <1>a, <2>1, <2>2, BoxesStand DEF Open, Channel!Join, Channel!Next
<1>2. CASE Greet(c)
  <2>1. Channel!Reaches(c, "greeting", "open")
    BY <1>2, StageMoves DEF Greet, Yield, Channel!Reaches, Stage
  <2>2. \E r \in (1..MaxResults) \cup {0} : shown' = [shown EXCEPT ![c] = r]
    <3> DEFINE x == IF c \in gone THEN shown[c] ELSE cached
    <3>1. x \in (1..MaxResults) \cup {0}
      BY DEF Inv, TypeOK
    <3>2. shown' = [shown EXCEPT ![c] = x]
      BY <1>2 DEF Greet
    <3> QED BY <3>1, <3>2
  <2> QED BY <1>2, <1>a, <2>1, <2>2, BoxesStand DEF Greet, Channel!Greet, Channel!Next
<1>3. CASE Loop(c)
  <2>1. [d \in Stream |-> Stage(d)]' = [d \in Stream |-> Stage(d)]
    BY <1>3, StageStays DEF Loop
  <2> QED BY <1>3, <1>a, <2>1, BoxesStand DEF Loop, Channel!Pause, Channel!Next
<1>4. CASE Take(c)
  <2>1. [d \in Stream |-> Stage(d)]' = [d \in Stream |-> Stage(d)]
    BY <1>4, StageStays DEF Take
  <2>2. queue[c] \in Seq(1..MaxResults) /\ queue[c] # <<>> /\ msg[c] = 0
    BY <1>4 DEF Take, Inv, TypeOK, InHand
  <2>3. /\ queue'[c] = Tail(queue[c]) /\ msg'[c] = Head(queue[c])
        /\ \A d \in Stream : d # c => queue'[d] = queue[d] /\ msg'[d] = msg[d]
    BY <1>4 DEF Take, Inv, TypeOK
  <2>4. Head(queue[c]) # 0
    <3>1. Head(queue[c]) \in 1..MaxResults
      BY <2>2, HeadTailProperties
    <3> QED BY <3>1, BoundsAssumption
  <2>5. Box(c)' = <<Head(queue[c])>> \o Tail(queue[c])
    BY <2>3, <2>4 DEF Box
  <2>6. Box(c)' = Box(c)
    BY <2>2, <2>5, BoxOf, HeadThenTail
  <2>7. \A d \in Stream : Box(d)' = Box(d)
    BY <2>3, <2>6 DEF Box
  <2> QED BY <1>4, <1>a, <2>1, <2>7 DEF Take, Channel!vars
<1>5. CASE Send(c)
  <2>1. [d \in Stream |-> Stage(d)]' = [d \in Stream |-> Stage(d)] /\ Stage(c) = "open"
    BY <1>5, StageStays DEF Send, Yield, Stage
  <2>2. msg[c] # 0
    BY <1>5 DEF Send, InHand
  <2>3. /\ queue' = queue /\ msg'[c] = 0
        /\ \A d \in Stream : d # c => msg'[d] = msg[d]
    BY <1>5 DEF Send, Inv, TypeOK
  <2>4. Box(c)' = Tail(Box(c)) /\ Box(c) # <<>> /\ Head(Box(c)) = msg[c]
    <3>1. Box(c)' = <<>> \o queue[c]
      BY <2>3 DEF Box
    <3>2. <<>> \o queue[c] = queue[c]
      BY ConcatEmptySeq DEF Inv, TypeOK
    <3> QED BY <2>2, <3>1, <3>2, BoxOf
  <2>5. \A d \in Stream : d # c => Box(d)' = Box(d)
    BY <2>3 DEF Box
  <2>6. [d \in Stream |-> Box(d)]' = [[d \in Stream |-> Box(d)] EXCEPT ![c] = Tail(@)]
    BY <2>4, <2>5
  <2>7. shown' = IF c \in gone THEN shown ELSE [shown EXCEPT ![c] = msg[c]]
    BY <1>5 DEF Send, Inv, TypeOK
  <2> QED BY <1>5, <1>a, <2>1, <2>4, <2>6, <2>7 DEF Send, Channel!Deliver, Channel!Next
<1>6. CASE TimeOut(c)
  <2>1. [d \in Stream |-> Stage(d)]' = [d \in Stream |-> Stage(d)]
    BY <1>6, StageStays DEF TimeOut, Yield
  <2> QED BY <1>6, <1>a, <2>1, BoxesStand DEF TimeOut, Channel!vars
<1>7. CASE Leave(c)
  <2>1. active' = {}
    BY <1>7 DEF Inv, TypeOK, OneStream, Leave
  <2>2. Channel!Reaches(c, "open", "ended")
    BY <1>7, StageMoves DEF Leave, Channel!Reaches, Stage
  <2> QED BY <1>7, <1>a, <2>1, <2>2, BoxesStand DEF Leave, Channel!End, Channel!Next
<1> QED BY <1>1, <1>2, <1>3, <1>4, <1>5, <1>6, <1>7 DEF Serve

\* A broadcast that goes on to another step changes what it has addressed alone.
LEMMA Addressing ==
    ASSUME Inv, NEW s \in Sender, NEW rec, Advance(s, rec)
    PROVE  [t \in Sender |-> Addressed(t)]' =
             [[t \in Sender |-> Addressed(t)] EXCEPT ![s] =
                IF rec.pc \in {"look", "put"} THEN [to |-> rec.conn, what |-> rec.res]
                ELSE [to |-> None, what |-> 0]]
<1>1. sender'[s] = rec /\ \A t \in Sender : t # s => sender'[t] = sender[t]
  BY DEF Inv, TypeOK, Advance
<1>2. \A t \in Sender : t # s => Addressed(t)' = Addressed(t)
  BY <1>1 DEF Addressed
<1>3. Addressed(s)' = IF rec.pc \in {"look", "put"} THEN [to |-> rec.conn, what |-> rec.res]
                      ELSE [to |-> None, what |-> 0]
  BY <1>1 DEF Addressed
<1> QED BY <1>2, <1>3

\* What a broadcast under way carries.
LEMMA Carried ==
    ASSUME Inv, NEW s \in Sender, sender[s].pc # "rest"
    PROVE  /\ sender[s] \in [pc : {"look", "put", "cache"}, conn : Stream, res : 1..MaxResults]
           /\ sender[s].conn \in Stream /\ sender[s].res \in 1..MaxResults
BY DEF Inv, TypeOK, Broadcasts, Resting

\* A result put into the queue is at the end of the box.
LEMMA BoxGrows ==
    ASSUME Inv, NEW c \in Stream, NEW r \in 1..MaxResults, msg' = msg,
           queue' = [queue EXCEPT ![c] = Append(@, r)]
    PROVE  [d \in Stream |-> Box(d)]' = [[d \in Stream |-> Box(d)] EXCEPT ![c] = Append(@, r)]
<1> DEFINE hand == IF msg[c] = 0 THEN <<>> ELSE <<msg[c]>>
<1>1. hand \in Seq(1..MaxResults) /\ queue[c] \in Seq(1..MaxResults) /\ Box(c) = hand \o queue[c]
  <2>1. msg[c] \in 0..MaxResults /\ queue[c] \in Seq(1..MaxResults)
    BY DEF Inv, TypeOK
  <2>2. msg[c] # 0 => msg[c] \in 1..MaxResults
    BY <2>1, BoundsAssumption
  <2>3. hand \in Seq(1..MaxResults)
    <3>1. CASE msg[c] = 0
      BY <3>1
    <3>2. CASE msg[c] # 0
      BY <2>2, <3>2
    <3> QED BY <3>1, <3>2
  <2> QED BY <2>1, <2>3 DEF Box
<1>2. /\ queue'[c] = Append(queue[c], r)
      /\ \A d \in Stream : d # c => queue'[d] = queue[d]
  BY DEF Inv, TypeOK
<1>3. Box(c)' = hand \o Append(queue[c], r)
  BY <1>2 DEF Box
<1>4. hand \o Append(queue[c], r) = Append(hand \o queue[c], r)
  <2> HIDE DEF hand
  <2> QED BY <1>1, AppendRight
<1>5. \A d \in Stream : d # c => Box(d)' = Box(d)
  BY <1>2 DEF Box
<1> QED BY <1>1, <1>3, <1>4, <1>5

\* The steps of a broadcast address, put or give up what it has to send.
LEMMA BroadcastImplements ==
    ASSUME HandInv, NEW s \in Sender, Broadcast(s)
    PROVE  Channel!Next \/ UNCHANGED Channel!vars
<1> USE DEF HandInv, Channel!Nothing
<1> DEFINE post == [t \in Sender |-> Addressed(t)]
           box == [d \in Stream |-> Box(d)]
<1>a. UNCHANGED gen => [d \in Stream |-> Stage(d)]' = [d \in Stream |-> Stage(d)]
  BY DEF Stage
<1>b. Resting.pc = "rest"
  BY DEF Resting
<1>1. CASE Find(s)
  <2>1. post[s] = [to |-> None, what |-> 0]
    BY <1>1 DEF Find, Addressed
  <2>2. PICK r \in 1..latest : Advance(s, IF registry = None THEN Resting
                                          ELSE [pc |-> "look", conn |-> registry, res |-> r])
    BY <1>1 DEF Find
  <2>3. UNCHANGED <<active, gen, gone, shown, box>>
    BY <1>1, BoxesStand DEF Find, streams
  <2>4. CASE registry = None
    <3>1. post' = [post EXCEPT ![s] = [to |-> None, what |-> 0]]
      BY <1>b, <2>2, <2>4, Addressing
    <3>2. post' = post
      BY <2>1, <3>1
    <3> QED BY <1>a, <2>3, <3>2 DEF Channel!vars
  <2>5. CASE registry # None
    <3>1. post' = [post EXCEPT ![s] = [to |-> registry, what |-> r]]
      BY <2>2, <2>5, Addressing
    <3>2. registry \in active /\ r \in 1..MaxResults
      BY <2>5, BoundsAssumption DEF Inv, TypeOK, OneStream
    <3> QED BY <1>a, <2>1, <2>3, <3>1, <3>2 DEF Channel!Address, Channel!Next
  <2> QED BY <2>4, <2>5
<1>2. CASE Look(s)
  <2>0. sender[s].pc = "look" /\ UNCHANGED <<active, gen, gone, shown, box>>
    BY <1>2, BoxesStand DEF Look, streams
  <2>1. post[s] = [to |-> sender[s].conn, what |-> sender[s].res]
    BY <2>0 DEF Addressed
  <2>2. CASE sender[s].conn \in active
    <3>1. Advance(s, [sender[s] EXCEPT !.pc = "put"])
      BY <1>2, <2>2 DEF Look
    <3> DEFINE rec == [sender[s] EXCEPT !.pc = "put"]
    <3>2. rec.pc = "put" /\ rec.conn = sender[s].conn /\ rec.res = sender[s].res
      BY <2>0, Carried
    <3>3. post' = [post EXCEPT ![s] = [to |-> sender[s].conn, what |-> sender[s].res]]
      BY <3>1, <3>2, Addressing
    <3>4. post' = post
      BY <2>1, <3>3
    <3> QED BY <1>a, <2>0, <3>4 DEF Channel!vars
  <2>3. CASE sender[s].conn \notin active
    <3>1. post' = [post EXCEPT ![s] = [to |-> None, what |-> 0]]
      BY <1>2, <1>b, <2>3, Addressing DEF Look
    <3>2. post[s].to \notin active
      BY <2>1, <2>3
    <3>3. Channel!Refuse(s)
      BY <1>a, <2>0, <3>1, <3>2 DEF Channel!Refuse
    <3> QED BY <3>3 DEF Channel!Next
  <2> QED BY <2>2, <2>3
<1>3. CASE Put(s)
  <2> DEFINE c == sender[s].conn
  <2>0. /\ sender[s].pc = "put" /\ UNCHANGED <<active, gen, gone, shown, msg>>
        /\ c \in Stream /\ sender[s].res \in 1..MaxResults
    BY <1>3, Carried DEF Put
  <2>1. post[s] = [to |-> c, what |-> sender[s].res]
    BY <2>0 DEF Addressed
  <2>2. c # None /\ post[s] # [to |-> None, what |-> 0]
    BY <2>0, <2>1, NoneAssumption
  <2>3. CASE Len(queue[c]) < Capacity
    <3>1. box' = [box EXCEPT ![c] = Append(@, sender[s].res)]
      BY <1>3, <2>0, <2>3, BoxGrows DEF Put
    <3>2. post' = [post EXCEPT ![s] = [to |-> None, what |-> 0]]
      <4> DEFINE rec == [sender[s] EXCEPT !.pc = "cache"]
      <4>1. Advance(s, rec) /\ rec.pc = "cache"
        BY <1>3, <2>0, <2>3, Carried DEF Put
      <4> HIDE DEF rec
      <4> QED BY <4>1, Addressing
    <3>3. Len(box[c]) <= Capacity
      <4>1. Len(queue[c]) \in Nat /\ Len(box[c]) \in Nat
        BY <2>0, BoxOf DEF Inv, TypeOK
      <4> QED BY <2>0, <2>3, <4>1, BoxOf, BoundsAssumption
    <3>4. post[s].to = c /\ post[s].what = sender[s].res
      BY <2>1
    <3>5. Channel!Accept(s)
      BY <1>a, <2>0, <2>2, <3>1, <3>2, <3>3, <3>4 DEF Channel!Accept
    <3> QED BY <3>5 DEF Channel!Next
  <2>4. CASE ~(Len(queue[c]) < Capacity)
    <3>1. queue' = queue /\ Advance(s, Resting)
      BY <1>3, <2>4 DEF Put
    <3>2. post' = [post EXCEPT ![s] = [to |-> None, what |-> 0]]
      BY <1>b, <3>1, Addressing
    <3>3. Len(box[c]) >= Capacity
      <4>1. Len(queue[c]) \in Nat /\ Len(box[c]) \in Nat
        BY <2>0, BoxOf DEF Inv, TypeOK
      <4> QED BY <2>0, <2>4, <4>1, BoxOf, BoundsAssumption
    <3>4. Len(box[post[s].to]) >= Capacity
      BY <2>1, <3>3
    <3>5. Channel!Refuse(s)
      BY <1>a, <2>0, <3>1, <3>2, <3>4, BoxesStand DEF Channel!Refuse
    <3> QED BY <3>5 DEF Channel!Next
  <2> QED BY <2>3, <2>4
<1>4. CASE CacheSent(s)
  <2>1. post' = [post EXCEPT ![s] = [to |-> None, what |-> 0]]
    BY <1>4, <1>b, Addressing DEF CacheSent
  <2>2. post[s] = [to |-> None, what |-> 0]
    BY <1>4 DEF CacheSent, Addressed
  <2>3. post' = post
    BY <2>1, <2>2
  <2> QED BY <1>4, <1>a, <2>3, BoxesStand DEF CacheSent, streams, Channel!vars
<1> QED BY <1>1, <1>2, <1>3, <1>4 DEF Broadcast

\* And the others close a stream, hang up, or do nothing that a client could tell.
LEMMA OthersImplement ==
    ASSUME HandInv,
           (\E c \in Stream : HangUp(c)) \/ Reap \/ Tick \/ Expire
               \/ (\E p \in Prober : Execute(p))
    PROVE  Channel!Next \/ UNCHANGED Channel!vars
<1> USE DEF HandInv
<1>a. UNCHANGED gen => [d \in Stream |-> Stage(d)]' = [d \in Stream |-> Stage(d)]
  BY DEF Stage
<1>b. UNCHANGED sender => [s \in Sender |-> Addressed(s)]' = [s \in Sender |-> Addressed(s)]
  BY DEF Addressed
<1>1. ASSUME NEW c \in Stream, HangUp(c) PROVE Channel!Next
  <2>1. Stage(c) \in {"greeting", "open"}
    BY <1>1 DEF HangUp, Stage
  <2> QED BY <1>1, <1>a, <1>b, <2>1, BoxesStand DEF HangUp, Channel!HangUp, Channel!Next
<1>2. CASE Reap
  <2>1. active' = {}
    BY <1>2 DEF Inv, TypeOK, OneStream, Reap
  <2> QED BY <1>2, <1>a, <1>b, <2>1, BoxesStand DEF Reap, Channel!Close, Channel!Next
<1>3. CASE Tick \/ Expire \/ \E p \in Prober : Execute(p)
  <2>1. UNCHANGED <<active, queue, gen, msg, gone, shown, sender>>
    BY <1>3 DEF Tick, Expire, Execute, Commit, CacheResult, streams
  <2> QED BY <1>a, <1>b, <2>1, BoxesStand DEF Channel!vars
<1> QED BY <1>1, <1>2, <1>3

\* Each accepted result is sent to its client once and in order, and none is
\* lost while the client is there: any number of streams, broadcasters and
\* results, queues of any length.
THEOREM ChannelKept == Spec => KeepsChannel
<1>1. Init => Channel!Init
  <2> SUFFICES ASSUME Init PROVE Channel!Init
    OBVIOUS
  <2>1. \A c \in Stream : Box(c) = <<>> /\ Stage(c) = "new"
    <3>1. <<>> \in Seq(Nat) /\ <<>> \o <<>> = <<>>
      BY ConcatEmptySeq, EmptySeq
    <3>2. \A c \in Stream : Box(c) = <<>> \o <<>>
      BY DEF Init, Box
    <3> QED BY <3>1, <3>2 DEF Init, Stage
  <2>2. \A s \in Sender : Addressed(s) = [to |-> None, what |-> 0]
    BY DEF Init, Addressed, Resting
  <2> QED BY <2>1, <2>2 DEF Init, Channel!Init, Channel!Nothing
<1>2. Init => InHand
  BY DEF Init, InHand
<1>3. Inv /\ InHand /\ [Next]_vars => InHand'
  BY InHandStep
<1>4. Inv /\ InHand /\ [Next]_vars => [Channel!Next]_(Channel!vars)
  <2> SUFFICES ASSUME HandInv, [Next]_vars PROVE [Channel!Next]_(Channel!vars)
    BY DEF HandInv
  <2>1. CASE Next
    BY <2>1, ServeImplements, BroadcastImplements, OthersImplement DEF Next
  <2>2. CASE UNCHANGED vars
    <3>1. /\ [s \in Sender |-> Addressed(s)]' = [s \in Sender |-> Addressed(s)]
          /\ [c \in Stream |-> Stage(c)]' = [c \in Stream |-> Stage(c)]
      BY <2>2 DEF vars, streams, Addressed, Stage
    <3> QED BY <2>2, <3>1, BoxesStand DEF vars, streams, Channel!vars
  <2> QED BY <2>1, <2>2
<1> QED BY <1>1, <1>2, <1>3, <1>4, InvHolds, PTL DEF Spec, KeepsChannel, Channel!Spec
=============================================================================
