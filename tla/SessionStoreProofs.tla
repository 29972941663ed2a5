------------------------- MODULE SessionStoreProofs -------------------------
(***************************************************************************)
(* The safety of a sign-in for any number of requests and any lives of the  *)
(* session and the tokens.  Inv says of the requests under way what the     *)
(* properties need: after a clean logout none of them holds the session it  *)
(* has read, and a life that an update has read covers the cookie.          *)
(***************************************************************************)
EXTENDS SessionStore, TLAPS

Gone == clean => ~Present /\ \A r \in Request : pc[r] \notin Writing

Covered ==
    ~out => /\ session.ttl >= cookie
            /\ \A r \in Request : pc[r] = "save" /\ held[r] > 0 => held[r] >= cookie

Listed == \A t \in revoked : black[t] = life[t]

Inv == TypeOK /\ Gone /\ Covered /\ Listed

LEMMA LessFacts ==
    ASSUME NEW n \in Nat, NEW m \in Nat
    PROVE  /\ Less(n) \in Nat /\ Less(n) <= n
           /\ n >= m => Less(n) >= Less(m)
BY DEF Less

LEMMA LessRange ==
    ASSUME NEW m \in Nat, NEW n \in 0 .. m
    PROVE  Less(n) \in 0 .. m
BY DEF Less

\* A session that is written is one in the sense of TypeOK.
LEMMA Session ==
    ASSUME NEW n \in 0 .. TTL, NEW a \in Nat
    PROVE  [ttl |-> n, age |-> a] \in [ttl : 0 .. TTL, age : Nat]
OBVIOUS

LEMMA InitInv == Init => Inv
<1> SUFFICES ASSUME Init PROVE Inv
  OBVIOUS
<1>1. TypeOK
  <2>1. TTL \in 0 .. TTL /\ 0 \in Nat /\ 0 \in 0 .. TTL /\ 0 \in 0 .. 1
    BY LifeAssumption
  <2>2. session \in [ttl : 0 .. TTL, age : Nat]
    BY <2>1, Session DEF Init
  <2>3. /\ access \in Access /\ cookie \in 0 .. TTL /\ faults \in 0 .. MaxFaults
    BY LifeAssumption DEF Init
  <2>6. /\ life \in [Token -> Nat] /\ black \in [Token -> Nat]
        /\ \A t \in Access : life[t] <= AccessLife
        /\ life[RefreshToken] <= RefreshLife
    BY LifeAssumption, TokenAssumption DEF Init, Token
  <2>7. given \in [Request -> Token]
    BY DEF Init, Token
  <2>5. out \in BOOLEAN /\ clean \in BOOLEAN /\ revoked \subseteq Token
    BY Zenon DEF Init
  <2>4. stamp \in [Request -> 0 .. 1] /\ held \in [Request -> 0 .. TTL]
    BY <2>1 DEF Init
  <2> QED BY <2>2, <2>3, <2>4, <2>5, <2>6, <2>7 DEF Init, TypeOK
<1>2. Gone /\ Covered /\ Listed
  BY LifeAssumption DEF Init, Gone, Covered, Listed
<1> QED BY <1>1, <1>2 DEF Inv

\* The steps of a request, and what a request that goes somewhere carries.
Steps == {"rest", "verify", "extend1", "write1", "extend2", "write2", "refresh", "check",
          "load", "ttl", "save", "logout", "revoke"}

LEMMA Going ==
    ASSUME TypeOK, NEW r \in Request, NEW p \in Steps, Goto(r, p)
    PROVE  pc' \in [Request -> Steps] /\ given' \in [Request -> Token]
BY DEF Goto, TypeOK, Steps, Token

\* A step that only goes on keeps the types.
LEMMA GoingOn ==
    ASSUME TypeOK, pc' \in [Request -> Steps], given' \in [Request -> Token],
           UNCHANGED <<session, tokens, stamp, held, faults, history>>
    PROVE  TypeOK'
BY DEF TypeOK, Steps, tokens, history

\* A new access token has a life, and is not revoked.
LEMMA Issued ==
    ASSUME TypeOK, Issue
    PROVE  /\ access' \in Access /\ life' \in [Token -> Nat] /\ revoked' \subseteq Token
           /\ \A t \in Access : life'[t] <= AccessLife
           /\ life'[RefreshToken] <= RefreshLife
<1>1. PICK t \in Access : /\ access' = t /\ life' = [life EXCEPT ![t] = AccessLife]
                          /\ revoked' = revoked \ {t}
  BY DEF Issue
<1>2. t \in Token /\ t # RefreshToken /\ AccessLife \in Nat
  BY TokenAssumption, LifeAssumption DEF Token
<1>3. life' \in [Token -> Nat]
  BY <1>1, <1>2 DEF TypeOK
<1>4. \A u \in Token : life'[u] = IF u = t THEN AccessLife ELSE life[u]
  BY <1>1 DEF TypeOK
<1>5. \A u \in Access : life'[u] <= AccessLife
  BY <1>2, <1>4 DEF TypeOK, Token
<1>6. life'[RefreshToken] <= RefreshLife
  BY <1>2, <1>4 DEF TypeOK, Token
<1> QED BY <1>1, <1>3, <1>5, <1>6 DEF TypeOK

\* Every step of a request keeps the types.
LEMMA StepTypes ==
    ASSUME TypeOK, NEW r \in Request, Send(r) \/ Step(r) \/ Fail(r)
    PROVE  TypeOK'
<1> USE LifeAssumption
<1>1. CASE Send(r)
  <2>1. pc' \in [Request -> Steps]
    BY <1>1 DEF Send, TypeOK, Steps
  <2>2. given' \in [Request -> Token]
    BY <1>1 DEF Send, TypeOK, Token
  <2> QED BY <1>1, <2>1, <2>2, GoingOn DEF Send
<1>2. CASE Verify(r)
  <2>1. \E p \in Steps : Goto(r, p)
    BY <1>2 DEF Verify, Steps
  <2> QED BY <1>2, <2>1, Going, GoingOn DEF Verify
<1>3. CASE ExtendRead(r)
  <2>1. \E p \in Steps : Goto(r, p)
    BY <1>3 DEF ExtendRead, Steps
  <2> QED BY <1>3, <2>1, Going, GoingOn DEF ExtendRead
<1>4. CASE ExtendWrite(r)
  <2>1. session' \in [ttl : 0 .. TTL, age : Nat] /\ stamp' \in [Request -> 0 .. 1]
    BY <1>4 DEF ExtendWrite, TypeOK
  <2>2. \E p \in Steps : Goto(r, p)
    BY <1>4 DEF ExtendWrite, Steps
  <2>3. pc' \in [Request -> Steps] /\ given' \in [Request -> Token]
    BY <2>2, Going
  <2> QED BY <1>4, <2>1, <2>3 DEF ExtendWrite, TypeOK, tokens, history, Steps
<1>5. CASE Refresh(r)
  <2>1. \E p \in Steps : Goto(r, p)
    BY <1>5 DEF Refresh, Steps
  <2> QED BY <1>5, <2>1, Going, GoingOn DEF Refresh
<1>6. CASE Check(r)
  <2>1. \E p \in Steps : Goto(r, p)
    BY <1>6 DEF Check, Steps
  <2>2. pc' \in [Request -> Steps] /\ given' \in [Request -> Token]
    BY <2>1, Going
  <2>3. CASE UNCHANGED <<access, life, revoked>>
    BY <1>6, <2>2, <2>3 DEF Check, TypeOK, Steps
  <2>4. CASE Issue
    BY <1>6, <2>2, <2>4, Issued DEF Check, TypeOK, Steps
  <2> QED BY <1>6, <2>3, <2>4 DEF Check
<1>7. CASE Load(r)
  <2>1. \E p \in Steps : Goto(r, p)
    BY <1>7 DEF Load, Steps
  <2> QED BY <1>7, <2>1, Going, GoingOn DEF Load
<1>8. CASE ReadTTL(r)
  <2>1. session.ttl \in 0 .. TTL
    BY DEF TypeOK
  <2>2. held' \in [Request -> 0 .. TTL]
    BY <1>8, <2>1 DEF ReadTTL, TypeOK
  <2>3. pc' \in [Request -> Steps] /\ given' \in [Request -> Token]
    BY <1>8, Going DEF ReadTTL, Steps
  <2> QED BY <1>8, <2>2, <2>3 DEF ReadTTL, TypeOK, tokens, history, Steps
<1>9. CASE Save(r)
  <2>1. session' \in [ttl : 0 .. TTL, age : Nat]
    BY <1>9 DEF Save, TypeOK
  <2>2. stamp' \in [Request -> 0 .. 1] /\ held' \in [Request -> 0 .. TTL]
    BY <1>9 DEF Save, TypeOK
  <2>3. pc' \in [Request -> Steps] /\ given' \in [Request -> Token]
    BY <1>9, Going DEF Save, Steps
  <2> QED BY <1>9, <2>1, <2>2, <2>3 DEF Save, TypeOK, tokens, history, Steps
<1>10. CASE Delete(r)
  <2>1. session' \in [ttl : 0 .. TTL, age : Nat]
    BY <1>10, Session DEF Delete, Absent
  <2>2. pc' \in [Request -> Steps] /\ given' \in [Request -> Token]
    BY <1>10, Going DEF Delete, Steps
  <2> QED BY <1>10, <2>1, <2>2 DEF Delete, TypeOK, tokens, Steps
<1>11. CASE Revoke(r)
  <2>1. given[r] \in Token /\ life[given[r]] \in Nat
    BY DEF TypeOK
  <2>2. black' \in [Token -> Nat] /\ revoked' \subseteq Token
    BY <1>11, <2>1 DEF Revoke, TypeOK
  <2>3. cookie' \in 0 .. TTL
    BY <1>11 DEF Revoke
  <2>4. pc' \in [Request -> Steps] /\ given' \in [Request -> Token]
    BY <1>11, Going DEF Revoke, Steps
  <2> QED BY <1>11, <2>2, <2>3, <2>4 DEF Revoke, TypeOK, Steps
<1>12. CASE Fail(r)
  <2>1. Rescue(pc[r]) \in Steps
    BY DEF Rescue, Steps
  <2>2. pc' \in [Request -> Steps] /\ given' \in [Request -> Token]
    BY <1>12, <2>1, Going DEF Fail
  <2>3. stamp' \in [Request -> 0 .. 1] /\ held' \in [Request -> 0 .. TTL]
        /\ faults' \in 0 .. MaxFaults /\ cookie' \in 0 .. TTL
    BY <1>12 DEF Fail, TypeOK
  <2> QED BY <1>12, <2>2, <2>3 DEF Fail, TypeOK, history, Steps
<1> QED
  BY <1>1, <1>2, <1>3, <1>4, <1>5, <1>6, <1>7, <1>8, <1>9, <1>10, <1>11, <1>12 DEF Step

\* After a clean logout nothing brings the session back: whoever reads it finds
\* none, and only a request that has found one writes.
LEMMA StepGone ==
    ASSUME TypeOK, Gone, NEW r \in Request, Send(r) \/ Step(r) \/ Fail(r)
    PROVE  Gone'
<1>1. CASE Delete(r)
  <2>1. session'.ttl = 0
    BY <1>1 DEF Delete, Absent
  <2>2. ASSUME clean', NEW q \in Request PROVE pc'[q] \notin Writing
    BY <1>1, <2>2 DEF Delete, Goto, TypeOK, Writing
  <2> QED BY <2>1, <2>2 DEF Gone, Present, Writing
<1>2. CASE ~ Delete(r)
  <2>0. clean' = clean
    BY <1>2 DEF Step, Send, Verify, ExtendRead, ExtendWrite, Refresh, Check, Load, ReadTTL,
       Save, Revoke, Fail, history
  <2> SUFFICES ASSUME clean
               PROVE  session' = session /\ \A q \in Request : pc'[q] \notin Writing
    BY <2>0 DEF Gone, Present, Writing
  <2>1. ~ Present /\ \A q \in Request : pc[q] \notin Writing
    BY DEF Gone
  <2>2. session' = session
    BY <1>2, <2>1 DEF Step, Send, Verify, ExtendRead, ExtendWrite, Refresh, Check, Load,
       ReadTTL, Save, Revoke, Fail, Writing
  <2>3. pc'[r] \notin Writing
    <3>1. pc'[r] \in {"verify", "refresh", "logout", "rest", "extend1", "extend2",
                      "check", "load", "revoke"}
      BY <1>2, <2>1 DEF Step, Send, Verify, ExtendRead, ExtendWrite, Refresh, Check, Load,
         ReadTTL, Save, Revoke, Fail, Rescue, Goto, Writing, TypeOK
    <3> QED BY <3>1 DEF Writing
  <2>4. \A q \in Request \ {r} : pc'[q] = pc[q]
    BY <1>2 DEF Step, Send, Verify, ExtendRead, ExtendWrite, Refresh, Check, Load, ReadTTL,
       Save, Revoke, Fail, Goto, TypeOK
  <2> QED BY <2>1, <2>2, <2>3, <2>4
<1> QED BY <1>1, <1>2

\* Whatever is written over the session before the logout, its life covers the
\* cookie's: an extension gives it the whole life, and an update the life it
\* has read, which covered a cookie that has only grown older.
LEMMA StepCovered ==
    ASSUME TypeOK, Covered, NEW r \in Request, Send(r) \/ Step(r) \/ Fail(r)
    PROVE  Covered'
<1> USE LifeAssumption
<1>1. CASE Delete(r)
  BY <1>1 DEF Delete, Covered
<1>2. CASE ~ Delete(r)
  <2>0. out' = out
    BY <1>2 DEF Step, Send, Verify, ExtendRead, ExtendWrite, Refresh, Check, Load, ReadTTL,
       Save, Revoke, Fail, history
  <2> SUFFICES ASSUME ~ out
               PROVE  /\ session'.ttl >= cookie'
                      /\ \A q \in Request :
                           pc'[q] = "save" /\ held'[q] > 0 => held'[q] >= cookie'
    BY <2>0 DEF Covered
  <2>1. /\ session.ttl >= cookie /\ session.ttl \in 0 .. TTL /\ cookie \in 0 .. TTL
        /\ \A q \in Request : pc[q] = "save" /\ held[q] > 0 => held[q] >= cookie
        /\ \A q \in Request : held[q] \in 0 .. TTL
    BY DEF Covered, TypeOK
  <2>2. cookie' \in {0, cookie}
    BY <1>2 DEF Step, Send, Verify, ExtendRead, ExtendWrite, Refresh, Check, Load, ReadTTL,
       Save, Revoke, Fail, tokens
  <2>3. \A q \in Request \ {r} : pc'[q] = pc[q] /\ held'[q] = held[q]
    BY <1>2 DEF Step, Send, Verify, ExtendRead, ExtendWrite, Refresh, Check, Load, ReadTTL,
       Save, Revoke, Fail, Goto, TypeOK
  <2>4. session'.ttl >= cookie
    <3>1. CASE ExtendWrite(r)
      BY <2>1, <3>1 DEF ExtendWrite
    <3>2. CASE Save(r)
      BY <2>1, <3>2 DEF Save
    <3>3. CASE ~ ExtendWrite(r) /\ ~ Save(r)
      BY <1>2, <2>1, <3>3 DEF Step, Send, Verify, ExtendRead, Refresh, Check, Load,
         ReadTTL, Revoke, Fail
    <3> QED BY <3>1, <3>2, <3>3
  <2>5. pc'[r] = "save" /\ held'[r] > 0 => held'[r] >= cookie
    <3>1. CASE ReadTTL(r)
      BY <2>1, <3>1 DEF ReadTTL, TypeOK
    <3>2. CASE ~ ReadTTL(r)
      <4>1. pc'[r] # "save"
        BY <1>2, <3>2 DEF Step, Send, Verify, ExtendRead, ExtendWrite, Refresh, Check, Load,
           Save, Revoke, Fail, Rescue, Goto, TypeOK
      <4> QED BY <4>1
    <3> QED BY <3>1, <3>2
  <2>6. session'.ttl \in Nat /\ \A q \in Request : held'[q] \in Nat
    BY StepTypes DEF TypeOK
  <2>7. session'.ttl >= cookie'
    BY <2>1, <2>2, <2>4, <2>6
  <2>8. ASSUME NEW q \in Request, pc'[q] = "save", held'[q] > 0
        PROVE  held'[q] >= cookie'
    <3>1. held'[q] >= cookie
      BY <2>1, <2>3, <2>5, <2>8
    <3> QED BY <2>1, <2>2, <2>6, <3>1
  <2> QED BY <2>7, <2>8
<1> QED BY <1>1, <1>2

\* A key in the blacklist is given what its token has left, and a token that is
\* issued is not in it.
LEMMA StepListed ==
    ASSUME TypeOK, Listed, NEW r \in Request, Send(r) \/ Step(r) \/ Fail(r)
    PROVE  Listed'
<1>1. CASE Revoke(r)
  <2>1. given[r] \in Token /\ revoked \subseteq Token /\ life' = life
    BY <1>1 DEF TypeOK, Revoke
  <2>2. CASE UNCHANGED <<black, revoked>>
    BY <2>1, <2>2 DEF Listed
  <2>3. CASE /\ black' = [black EXCEPT ![given[r]] = life[given[r]]]
             /\ revoked' = revoked \cup {given[r]}
    BY <2>1, <2>3 DEF Listed, TypeOK
  <2> QED BY <1>1, <2>2, <2>3 DEF Revoke
<1>2. CASE Check(r)
  <2>1. CASE UNCHANGED <<access, life, revoked>>
    BY <1>2, <2>1 DEF Check, Listed
  <2>2. CASE Issue
    <3>1. PICK t \in Access : life' = [life EXCEPT ![t] = AccessLife] /\ revoked' = revoked \ {t}
      BY <2>2 DEF Issue
    <3>2. \A u \in Token \ {t} : life'[u] = life[u]
      BY <3>1 DEF TypeOK
    <3> QED BY <1>2, <3>1, <3>2 DEF Check, Listed, TypeOK
  <2> QED BY <1>2, <2>1, <2>2 DEF Check
<1>3. CASE ~ Check(r) /\ ~ Revoke(r)
  <2>1. UNCHANGED <<life, black, revoked>>
    BY <1>3 DEF Step, Send, Verify, ExtendRead, ExtendWrite, Refresh, Load, ReadTTL, Save,
       Delete, Fail, tokens, history
  <2> QED BY <2>1 DEF Listed
<1> QED BY <1>1, <1>2, <1>3

\* An hour makes the session and the cookie older by the same, and the token
\* and its key in the blacklist.
LEMMA TickInv == Inv /\ Tick => Inv'
<1> SUFFICES ASSUME Inv, Tick PROVE Inv'
  OBVIOUS
<1> USE LifeAssumption
<1>0. TypeOK /\ Gone /\ Covered /\ Listed
  BY DEF Inv
<1>1. /\ session.ttl \in 0 .. TTL /\ session.age \in Nat
      /\ life \in [Token -> Nat] /\ black \in [Token -> Nat]
      /\ cookie \in 0 .. TTL
  BY <1>0 DEF TypeOK
<1>2. session' \in [ttl : 0 .. TTL, age : Nat] /\ session'.ttl = Less(session.ttl)
  BY <1>1 DEF Tick, Absent, Less
<1>3. /\ life' \in [Token -> Nat] /\ black' \in [Token -> Nat]
      /\ \A t \in Token : life'[t] <= life[t]
      /\ cookie' \in 0 .. TTL
  BY <1>1, LessRange, LessFacts DEF Tick
<1>9. /\ \A t \in Access : life'[t] <= AccessLife
      /\ life'[RefreshToken] <= RefreshLife
  <2>1. \A t \in Token : life[t] \in Nat /\ life'[t] \in Nat
    BY <1>1, <1>3
  <2> QED BY <1>0, <1>3, <2>1 DEF TypeOK, Token
<1>4. TypeOK'
  BY <1>0, <1>2, <1>3, <1>9 DEF Tick, TypeOK, history
<1>5. Gone'
  <2>1. session.ttl = 0 => session'.ttl = 0
    BY <1>2 DEF Less
  <2> QED BY <1>0, <1>1, <1>2, <2>1 DEF Gone, Present, Tick, history, Less
<1>6. Covered'
  <2> SUFFICES ASSUME ~ out
               PROVE  /\ session'.ttl >= cookie'
                      /\ \A q \in Request :
                           pc'[q] = "save" /\ held'[q] > 0 => held'[q] >= cookie'
    BY DEF Covered, Tick, history
  <2>1. session'.ttl >= cookie'
    BY <1>0, <1>1, <1>2, LessFacts DEF Covered, Tick
  <2>2. ASSUME NEW q \in Request, pc'[q] = "save", held'[q] > 0
        PROVE  held'[q] >= cookie'
    <3>1. held'[q] = held[q] /\ held[q] \in 0 .. TTL /\ held[q] >= cookie
      BY <1>0, <2>2 DEF Covered, Tick, TypeOK
    <3>2. cookie' \in Nat /\ cookie' <= cookie
      BY <1>1, LessFacts DEF Tick
    <3> QED BY <1>1, <3>1, <3>2
  <2> QED BY <2>1, <2>2
<1>7. Listed'
  BY <1>0 DEF Listed, Tick, history, TypeOK
<1> QED BY <1>4, <1>5, <1>6, <1>7 DEF Inv

LEMMA NextInv == Inv /\ [Next]_vars => Inv'
<1> SUFFICES ASSUME Inv, [Next]_vars PROVE Inv'
  OBVIOUS
<1>1. ASSUME NEW r \in Request, Send(r) \/ Step(r) \/ Fail(r) PROVE Inv'
  BY <1>1, StepTypes, StepGone, StepCovered, StepListed DEF Inv
<1>2. CASE Tick
  BY <1>2, TickInv
<1>3. CASE UNCHANGED vars
  BY <1>3 DEF vars, tokens, history, Inv, TypeOK, Gone, Covered, Listed, Present
<1> QED BY <1>1, <1>2, <1>3 DEF Next

THEOREM InvAlways == Spec => []Inv
BY InitInv, NextInv, PTL DEF Spec

\* The model is typed: the lives stay within those the configuration gives.
THEOREM SessionTypes == Spec => []TypeOK
<1>1. Inv => TypeOK
  BY DEF Inv
<1> QED BY <1>1, InvAlways, PTL

\* delete_session is final whatever the other requests do, when none of them is
\* between its read and its write of the session.
THEOREM CleanLogoutIsFinal == Spec => []LogoutHolds
<1>1. Inv => LogoutHolds
  BY DEF Inv, Gone, LogoutHolds
<1> QED BY <1>1, InvAlways, PTL

\* A browser whose cookie has not expired finds its session until the logout,
\* however extend_session and update_session overwrite each other.
THEOREM CookieIsCovered == Spec => []SessionCoversCookie
<1>1. Inv => SessionCoversCookie
  BY DEF Inv, Covered, SessionCoversCookie
<1> QED BY <1>1, InvAlways, PTL

\* Only is_blacklisted leads to a new access token, and it finds the key of every
\* token that has been revoked and still lives, of whichever kind it is.
THEOREM BlacklistHolds == Spec => RevokedNeverRefreshes
<1> DEFINE Refused(r) == /\ given[r] \in revoked /\ life[given[r]] > 0
                         /\ pc'[r] # pc[r]
                         => \A t \in Token : life'[t] <= life[t]
<1>1. Inv /\ [Next]_vars => \A r \in Request : Refused(r)
  <2> SUFFICES ASSUME Inv, [Next]_vars, NEW r \in Request,
                      given[r] \in revoked, life[given[r]] > 0, pc'[r] # pc[r]
               PROVE  \A t \in Token : life'[t] <= life[t]
    OBVIOUS
  <2>1. black[given[r]] > 0 /\ life \in [Token -> Nat]
    BY DEF Inv, TypeOK, Listed
  <2>2. Send(r) \/ Step(r) \/ Fail(r)
    <3>1. ASSUME NEW q \in Request \ {r}, Send(q) \/ Step(q) \/ Fail(q)
          PROVE  pc'[r] = pc[r]
      BY <3>1 DEF Step, Send, Verify, ExtendRead, ExtendWrite, Refresh, Check, Load,
         ReadTTL, Save, Delete, Revoke, Fail, Goto, Inv, TypeOK
    <3>2. ~ Tick /\ ~ UNCHANGED vars
      BY DEF Tick, vars
    <3> QED BY <3>1, <3>2 DEF Next
  <2>3. life' = life
    <3>1. CASE Check(r)
      BY <2>1, <3>1 DEF Check
    <3>2. CASE ~ Check(r)
      BY <2>2, <3>2 DEF Step, Send, Verify, ExtendRead, ExtendWrite, Refresh, Load,
         ReadTTL, Save, Delete, Revoke, Fail, tokens
    <3> QED BY <3>1, <3>2
  <2> QED BY <2>1, <2>3
<1>2. Spec => [][\A r \in Request : Refused(r)]_vars
  BY <1>1, InvAlways, PTL DEF Spec
<1> QED BY <1>2 DEF RevokedNeverRefreshes
=============================================================================
