--------------------------- MODULE ApiClientProofs ---------------------------
(***************************************************************************)
(* The safety of the API client for any number of calls and keys.  The      *)
(* conjunction of the invariants of ApiClient is inductive.                 *)
(***************************************************************************)
EXTENDS ApiClient, TLAPS

Inv == TypeOK /\ OneRefresh /\ QueueServed /\ JoinersServed /\ StoreMatchesPage

\* The store is typed wherever it is whole.
LEMMA WholeStore ==
    SignedIn \in [token : BOOLEAN, refreshToken : BOOLEAN, isAuthenticated : BOOLEAN]
    /\ SignedOut \in [token : BOOLEAN, refreshToken : BOOLEAN, isAuthenticated : BOOLEAN]
BY DEF SignedIn, SignedOut

LEMMA NoEntryTyped == NoEntry \in [call : Call \cup {None}, age : 0 .. 2]
BY DEF NoEntry

\* What the end of the promises in S does to the calls and to pendingRequests.
LEMMA Settling ==
    ASSUME NEW S \in SUBSET Call, TypeOK, JoinersServed, Settle(S)
    PROVE  /\ at' \in [Call -> {"idle", "sent", "csrf", "queued", "waiting", "joined"}]
           /\ leader' \in [Call -> Call]
           /\ pending' \in [Key -> [call : Call \cup {None}, age : 0 .. 2]]
           /\ \A c \in Call : at'[c] = IF c \in Over(S) THEN "idle" ELSE at[c]
           /\ JoinersServed'
<1>1. /\ at' \in [Call -> {"idle", "sent", "csrf", "queued", "waiting", "joined"}]
      /\ leader' \in [Call -> Call]
  BY DEF Settle, TypeOK
<1>2. pending' \in [Key -> [call : Call \cup {None}, age : 0 .. 2]]
  BY NoEntryTyped DEF Settle, TypeOK
<1>3. \A c \in Call : at'[c] = IF c \in Over(S) THEN "idle" ELSE at[c]
  BY DEF Settle
<1>4. ASSUME NEW k \in Key, pending'[k].call # None
      PROVE  InFlight(pending[k].call)' /\ KeyOf[pending'[k].call] = k
  <2>1. pending'[k] = pending[k] /\ ~ \E c \in S : KeyOf[c] = k
    BY <1>4 DEF Settle, NoEntry
  <2>2. /\ pending[k].call \in Call
        /\ InFlight(pending[k].call) /\ KeyOf[pending[k].call] = k
    BY <1>4, <2>1 DEF JoinersServed, TypeOK
  <2>3. pending[k].call \notin Over(S)
    BY <2>1, <2>2 DEF Over, InFlight
  <2> QED BY <1>3, <2>1, <2>2, <2>3 DEF InFlight
<1>5. ASSUME NEW c \in Call, at'[c] = "joined"
      PROVE  InFlight(leader[c])' /\ KeyOf[leader'[c]] = KeyOf[c]
  <2>1. c \notin Over(S) /\ at[c] = "joined" /\ leader'[c] = leader[c]
    BY <1>3, <1>5 DEF Settle
  <2>2. leader[c] \in Call /\ InFlight(leader[c]) /\ KeyOf[leader[c]] = KeyOf[c]
    BY <2>1 DEF JoinersServed, TypeOK
  <2>3. leader[c] \notin Over(S)
    BY <2>1, <2>2 DEF Over, InFlight
  <2> QED BY <1>3, <2>1, <2>2, <2>3 DEF InFlight
<1>6. JoinersServed'
  BY <1>4, <1>5 DEF JoinersServed
<1> QED BY <1>1, <1>2, <1>3, <1>6

\* A call in flight that goes on to another place in flight.
LEMMA Moving ==
    ASSUME Inv, NEW c \in Call, InFlight(c),
           NEW x \in {"sent", "csrf", "queued", "waiting"},
           at' = [at EXCEPT ![c] = x], UNCHANGED <<leader, pending>>
    PROVE  JoinersServed'
<1>1. \A d \in Call : InFlight(d) <=> InFlight(d)'
  BY DEF Inv, TypeOK, InFlight
<1>2. \A d \in Call : at'[d] = "joined" <=> at[d] = "joined"
  BY DEF Inv, TypeOK, InFlight
<1>3. ASSUME NEW k \in Key, pending'[k].call # None
      PROVE  InFlight(pending[k].call)' /\ KeyOf[pending'[k].call] = k
  BY <1>1, <1>3 DEF Inv, TypeOK, JoinersServed
<1>4. ASSUME NEW d \in Call, at'[d] = "joined"
      PROVE  InFlight(leader[d])' /\ KeyOf[leader'[d]] = KeyOf[d]
  BY <1>1, <1>2, <1>4 DEF Inv, TypeOK, JoinersServed
<1> QED BY <1>3, <1>4 DEF JoinersServed

\* The catch clause leaves no refresh, no queue and no sign-in.
LEMMA Ending ==
    ASSUME Inv, NEW c \in Call, refresh[c] # "none", EndRefresh(c)
    PROVE  Inv'
<1>1. at[c] = "waiting" /\ \A d \in Call : refresh[d] # "none" => d = c
  BY DEF Inv, OneRefresh
<1>2. /\ at' \in [Call -> {"idle", "sent", "csrf", "queued", "waiting", "joined"}]
      /\ leader' \in [Call -> Call]
      /\ pending' \in [Key -> [call : Call \cup {None}, age : 0 .. 2]]
      /\ \A d \in Call : at'[d] = IF d \in Over(Queued \cup {c}) THEN "idle" ELSE at[d]
      /\ JoinersServed'
  BY Settling DEF EndRefresh, Inv, Queued
<1>3. \A d \in Call : refresh'[d] = "none"
  BY <1>1 DEF EndRefresh, Inv, TypeOK
<1>4. store' = SignedOut /\ page' \in {"app", "leaving", "login"} /\ isRefreshing' = FALSE
  BY DEF EndRefresh, Expel, Inv, TypeOK
<1>5. TypeOK'
  BY <1>2, <1>4, WholeStore DEF TypeOK, EndRefresh, Inv
<1>6. \A d \in Call : at'[d] # "waiting" /\ at'[d] # "queued"
  BY <1>1, <1>2 DEF Over, Queued, Inv, OneRefresh
<1>7. OneRefresh' /\ QueueServed'
  BY <1>3, <1>4, <1>6 DEF OneRefresh, QueueServed, Queued
<1>8. StoreMatchesPage'
  BY DEF EndRefresh, Expel, StoreMatchesPage, SignedIn, SignedOut
<1> QED BY <1>2, <1>5, <1>7, <1>8 DEF Inv

\* A step of the refresh request that does not end it.
LEMMA Refreshing ==
    ASSUME Inv, NEW c \in Call, refresh[c] # "none",
           NEW x \in {"sent", "csrf", "queued"},
           refresh' = [refresh EXCEPT ![c] = x],
           UNCHANGED <<calls, isRefreshing, store, page>>
    PROVE  Inv'
<1>1. TypeOK'
  BY DEF Inv, TypeOK, calls
<1>2. \A d \in Call : refresh'[d] # "none" <=> refresh[d] # "none"
  BY DEF Inv, TypeOK
<1>3. OneRefresh' /\ QueueServed'
  BY <1>2 DEF Inv, OneRefresh, QueueServed, Queued, calls
<1>4. JoinersServed' /\ StoreMatchesPage'
  BY DEF Inv, JoinersServed, InFlight, StoreMatchesPage, SignedIn, SignedOut, calls
<1> QED BY <1>1, <1>3, <1>4 DEF Inv

-----------------------------------------------------------------------------
LEMMA AskInv == ASSUME Inv, NEW c \in Call, Ask(c) PROVE Inv'
<1>1. KeyOf[c] \in Key /\ at[c] = "idle"
  BY KeyAssumption DEF Ask
<1>2. TypeOK' /\ StoreMatchesPage'
  <2>1. CASE Joins(c)
    BY <1>1, <2>1 DEF Ask, Joins, Inv, TypeOK, StoreMatchesPage, SignedIn, SignedOut
  <2>2. CASE ~Joins(c)
    BY <1>1, <2>2 DEF Ask, Inv, TypeOK, StoreMatchesPage, SignedIn, SignedOut
  <2> QED BY <2>1, <2>2
<1>3. /\ at'[c] \in {"sent", "joined"}
      /\ \A d \in Call : d # c => at'[d] = at[d] /\ leader'[d] = leader[d]
  BY DEF Ask, Inv, TypeOK
<1>4. OneRefresh' /\ QueueServed'
  <2>1. \A d \in Call : /\ at'[d] = "waiting" <=> at[d] = "waiting"
                        /\ at'[d] = "queued" <=> at[d] = "queued"
    BY <1>1, <1>3
  <2> QED BY <2>1 DEF Ask, Inv, OneRefresh, QueueServed, Queued
<1>5. \A d \in Call : InFlight(d) => d # c /\ InFlight(d)'
  BY <1>1, <1>3 DEF InFlight
<1>6. ASSUME NEW k \in Key, pending'[k].call # None
      PROVE  InFlight(pending[k].call)' /\ KeyOf[pending'[k].call] = k
  <2>1. CASE pending'[k] = pending[k]
    BY <1>5, <1>6, <2>1 DEF Inv, TypeOK, JoinersServed
  <2>2. CASE pending'[k] # pending[k]
    <3>1. k = KeyOf[c] /\ pending'[k].call = c /\ at'[c] = "sent"
      BY <1>1, <2>2 DEF Ask, Inv, TypeOK
    <3> QED BY <3>1 DEF InFlight
  <2> QED BY <2>1, <2>2
<1>7. ASSUME NEW d \in Call, at'[d] = "joined"
      PROVE  InFlight(leader[d])' /\ KeyOf[leader'[d]] = KeyOf[d]
  <2>1. CASE d = c
    <3>1. Joins(c) /\ leader'[c] = pending[KeyOf[c]].call
      BY <1>7, <2>1 DEF Ask, Inv, TypeOK
    <3>2. InFlight(leader'[c]) /\ KeyOf[leader'[c]] = KeyOf[c] /\ leader'[c] \in Call
      BY <1>1, <1>2, <3>1 DEF Joins, Inv, JoinersServed, TypeOK
    <3> QED BY <1>5, <2>1, <3>2
  <2>2. CASE d # c
    BY <1>3, <1>5, <1>7, <2>2 DEF Inv, JoinersServed, TypeOK
  <2> QED BY <2>1, <2>2
<1> QED BY <1>2, <1>4, <1>6, <1>7 DEF Inv, JoinersServed

\* An answer that ends call c alone.
LEMMA OverInv ==
    ASSUME Inv, NEW c \in Call, at[c] \in {"sent", "csrf"}, Settle({c}),
           UNCHANGED <<refresh, isRefreshing, store, page>>
    PROVE  Inv'
<1>1. /\ at' \in [Call -> {"idle", "sent", "csrf", "queued", "waiting", "joined"}]
      /\ leader' \in [Call -> Call]
      /\ pending' \in [Key -> [call : Call \cup {None}, age : 0 .. 2]]
      /\ \A d \in Call : at'[d] = IF d \in Over({c}) THEN "idle" ELSE at[d]
      /\ JoinersServed'
  BY Settling DEF Inv
<1>2. TypeOK' /\ StoreMatchesPage'
  BY <1>1 DEF Inv, TypeOK, StoreMatchesPage, SignedIn, SignedOut
<1>3. \A d \in Call : /\ at'[d] = "waiting" <=> at[d] = "waiting"
                      /\ at'[d] = "queued" <=> at[d] = "queued"
  BY <1>1 DEF Over
<1>4. OneRefresh' /\ QueueServed'
  BY <1>3 DEF Inv, OneRefresh, QueueServed, Queued
<1> QED BY <1>1, <1>2, <1>4 DEF Inv

\* A request that goes out again, or for a CSRF token.
LEMMA CsrfInv ==
    ASSUME Inv, NEW c \in Call, at[c] \in {"sent", "csrf"},
           NEW x \in {"sent", "csrf"}, at' = [at EXCEPT ![c] = x],
           UNCHANGED <<leader, pending, refresh, isRefreshing, store, page>>
    PROVE  Inv'
<1>1. TypeOK' /\ StoreMatchesPage'
  BY DEF Inv, TypeOK, StoreMatchesPage, SignedIn, SignedOut
<1>2. \A d \in Call : /\ at'[d] = "waiting" <=> at[d] = "waiting"
                      /\ at'[d] = "queued" <=> at[d] = "queued"
  BY DEF Inv, TypeOK
<1>3. OneRefresh' /\ QueueServed'
  BY <1>2 DEF Inv, OneRefresh, QueueServed, Queued
<1>4. JoinersServed'
  BY Moving DEF InFlight
<1> QED BY <1>1, <1>3, <1>4 DEF Inv

LEMMA QueueInv == ASSUME Inv, NEW c \in Call, Queue(c) PROVE Inv'
<1>1. TypeOK' /\ StoreMatchesPage'
  BY DEF Queue, Inv, TypeOK, StoreMatchesPage, SignedIn, SignedOut
<1>2. \A d \in Call : at'[d] = "waiting" <=> at[d] = "waiting"
  BY DEF Queue, Inv, TypeOK
<1>3. OneRefresh'
  BY <1>2 DEF Queue, Inv, OneRefresh
<1>4. QueueServed'
  BY DEF Queue, Inv, OneRefresh, QueueServed
<1>5. JoinersServed'
  BY Moving DEF Queue, InFlight
<1> QED BY <1>1, <1>3, <1>4, <1>5 DEF Inv

LEMMA StartRefreshInv == ASSUME Inv, NEW c \in Call, StartRefresh(c) PROVE Inv'
<1>1. TypeOK' /\ StoreMatchesPage'
  BY DEF StartRefresh, Inv, TypeOK, StoreMatchesPage, SignedIn, SignedOut
<1>2. \A d \in Call : refresh[d] = "none" /\ at[d] # "waiting"
  BY DEF StartRefresh, Inv, OneRefresh, TypeOK
<1>3. /\ at'[c] = "waiting" /\ refresh'[c] = "sent"
      /\ \A d \in Call : d # c => at'[d] = at[d] /\ refresh'[d] = refresh[d]
  BY DEF StartRefresh, Inv, TypeOK
<1>4. OneRefresh'
  BY <1>2, <1>3 DEF StartRefresh, OneRefresh
<1>5. QueueServed'
  BY <1>3 DEF QueueServed
<1>6. JoinersServed'
  BY Moving DEF StartRefresh, InFlight
<1> QED BY <1>1, <1>4, <1>5, <1>6 DEF Inv

LEMMA GiveUpInv == ASSUME Inv, NEW c \in Call, GiveUp(c) PROVE Inv'
<1>1. /\ at' \in [Call -> {"idle", "sent", "csrf", "queued", "waiting", "joined"}]
      /\ leader' \in [Call -> Call]
      /\ pending' \in [Key -> [call : Call \cup {None}, age : 0 .. 2]]
      /\ \A d \in Call : at'[d] = IF d \in Over(Queued \cup {c}) THEN "idle" ELSE at[d]
      /\ JoinersServed'
  BY Settling DEF GiveUp, Inv, Queued
<1>2. store' = SignedOut /\ page' \in {"app", "leaving", "login"}
  BY DEF GiveUp, Expel, Inv, TypeOK
<1>3. TypeOK'
  BY <1>1, <1>2, WholeStore DEF GiveUp, TypeOK, Inv
<1>4. \A d \in Call : at[d] # "waiting" /\ refresh[d] = "none"
  BY DEF GiveUp, Inv, OneRefresh, TypeOK
<1>5. \A d \in Call : at'[d] # "waiting" /\ at'[d] # "queued"
  BY <1>1, <1>4 DEF Over, Queued
<1>6. OneRefresh' /\ QueueServed'
  BY <1>4, <1>5 DEF GiveUp, OneRefresh, QueueServed, Queued
<1>7. StoreMatchesPage'
  BY DEF GiveUp, Expel, StoreMatchesPage, SignedIn, SignedOut
<1> QED BY <1>1, <1>3, <1>6, <1>7 DEF Inv

LEMMA AnswerRefreshInv ==
    ASSUME Inv, NEW c \in Call, AnswerRefresh(c) \/ FetchRefreshCsrf(c)
    PROVE  Inv'
<1>1. refresh[c] # "none"
  BY DEF AnswerRefresh, GrantRefresh, FailRefresh, RefuseRefresh,
         RefuseRefreshCsrf, FetchRefreshCsrf
<1>2. CASE EndRefresh(c)
  BY <1>1, <1>2, Ending
<1>3. CASE /\ \E x \in {"sent", "csrf", "queued"} : refresh' = [refresh EXCEPT ![c] = x]
           /\ UNCHANGED <<calls, isRefreshing, store, page>>
  BY <1>1, <1>3, Refreshing
<1> QED BY <1>2, <1>3 DEF AnswerRefresh, GrantRefresh, FailRefresh, RefuseRefresh,
                          RefuseRefreshCsrf, FetchRefreshCsrf

\* The entry of a key grows old, or is dropped.
LEMMA AgingInv ==
    ASSUME Inv, NEW k \in Key, Grow(k) \/ CleanUp(k)
    PROVE  Inv'
<1>1. \A j \in Key : pending'[j].call \in {pending[j].call, None}
  BY DEF Grow, CleanUp, NoEntry, Inv, TypeOK
<1>2. pending' \in [Key -> [call : Call \cup {None}, age : 0 .. 2]]
  <2>1. CASE Grow(k)
    BY <2>1 DEF Grow, Inv, TypeOK
  <2>2. CASE CleanUp(k)
    BY <2>2, NoEntryTyped DEF CleanUp, Inv, TypeOK
  <2> QED BY <2>1, <2>2
<1>3. UNCHANGED <<at, leader, refresh, isRefreshing, store, page>>
  BY DEF Grow, CleanUp
<1>4. TypeOK' /\ OneRefresh' /\ QueueServed' /\ StoreMatchesPage'
  BY <1>2, <1>3 DEF Inv, TypeOK, OneRefresh, QueueServed, Queued, StoreMatchesPage,
                    SignedIn, SignedOut
<1>5. JoinersServed'
  BY <1>1, <1>3 DEF Inv, JoinersServed, InFlight
<1> QED BY <1>4, <1>5 DEF Inv

LEMMA UserInv == ASSUME Inv, SignIn \/ SignOut PROVE Inv'
<1>1. UNCHANGED <<calls, refresh, isRefreshing>>
  BY DEF SignIn, SignOut
<1>2. store' \in {SignedIn, SignedOut} /\ page' \in {"app", "login"}
  BY DEF SignIn, SignOut
<1>3. TypeOK'
  BY <1>1, <1>2, WholeStore DEF Inv, TypeOK, calls
<1>4. StoreMatchesPage'
  BY DEF SignIn, SignOut, StoreMatchesPage
<1>5. OneRefresh' /\ QueueServed' /\ JoinersServed'
  BY <1>1 DEF Inv, OneRefresh, QueueServed, Queued, JoinersServed, InFlight, calls
<1> QED BY <1>3, <1>4, <1>5 DEF Inv

\* A page that has just been loaded.
LEMMA RestInv ==
    ASSUME Rest, StoreMatchesPage', page' \in {"app", "leaving", "login"}
    PROVE  Inv'
<1>1. TypeOK'
  BY WholeStore, NoEntryTyped DEF Rest, TypeOK, StoreMatchesPage
<1>2. OneRefresh' /\ QueueServed' /\ JoinersServed'
  BY DEF Rest, OneRefresh, QueueServed, Queued, JoinersServed, NoEntry
<1> QED BY <1>1, <1>2 DEF Inv

LEMMA InitInv == Init => Inv
<1> SUFFICES ASSUME Init PROVE Inv
  OBVIOUS
<1>1. TypeOK
  BY WholeStore, NoEntryTyped DEF Init, TypeOK
<1>2. OneRefresh /\ QueueServed /\ JoinersServed /\ StoreMatchesPage
  BY DEF Init, OneRefresh, QueueServed, Queued, JoinersServed, NoEntry, StoreMatchesPage
<1> QED BY <1>1, <1>2 DEF Inv

LEMMA StepInv == Inv /\ [Next]_vars => Inv'
<1> SUFFICES ASSUME Inv, [Next]_vars PROVE Inv'
  OBVIOUS
<1>1. ASSUME NEW c \in Call, Ask(c) PROVE Inv'
  BY <1>1, AskInv
<1>2. ASSUME NEW c \in Call, AnswerCall(c) PROVE Inv'
  <2>1. CASE Answer(c)
    BY <2>1, OverInv DEF Answer
  <2>2. CASE RefuseCsrf(c)
    BY <2>2, CsrfInv DEF RefuseCsrf
  <2>3. CASE Queue(c)
    BY <2>3, QueueInv
  <2>4. CASE StartRefresh(c)
    BY <2>4, StartRefreshInv
  <2>5. CASE GiveUp(c)
    BY <2>5, GiveUpInv
  <2> QED BY <1>2, <2>1, <2>2, <2>3, <2>4, <2>5 DEF AnswerCall
<1>3. ASSUME NEW c \in Call, AnswerRefresh(c) \/ FetchRefreshCsrf(c) PROVE Inv'
  BY <1>3, AnswerRefreshInv
<1>4. ASSUME NEW c \in Call, FetchCsrf(c) PROVE Inv'
  <2>1. CASE Settle({c})
    BY <1>4, <2>1, OverInv DEF FetchCsrf
  <2>2. CASE at' = [at EXCEPT ![c] = "sent"] /\ UNCHANGED <<leader, pending>>
    BY <1>4, <2>2, CsrfInv DEF FetchCsrf
  <2> QED BY <1>4, <2>1, <2>2 DEF FetchCsrf
<1>5. ASSUME NEW k \in Key, Grow(k) \/ CleanUp(k) PROVE Inv'
  BY <1>5, AgingInv
<1>6. CASE SignIn \/ SignOut
  BY <1>6, UserInv
<1>7. CASE Load
  BY <1>7, RestInv DEF Load, Inv, TypeOK, StoreMatchesPage
<1>8. CASE UNCHANGED vars
  BY <1>8 DEF Inv, TypeOK, OneRefresh, QueueServed, Queued, JoinersServed, InFlight,
              StoreMatchesPage, SignedIn, SignedOut, vars, calls
<1> QED BY <1>1, <1>2, <1>3, <1>4, <1>5, <1>6, <1>7, <1>8 DEF Next, AnswerCsrf

\* Every reachable state of the client, with any number of calls and keys, is
\* typed and satisfies the conjunction of its invariants.
THEOREM ClientTypes == Spec => []TypeOK
<1>1. Inv => TypeOK
  BY DEF Inv
<1> QED BY <1>1, InitInv, StepInv, PTL DEF Spec

\* However many calls the server refuses at once, one refresh is under way.
THEOREM OneRefreshAlways == Spec => []OneRefresh
<1>1. Inv => OneRefresh
  BY DEF Inv
<1> QED BY <1>1, InitInv, StepInv, PTL DEF Spec

\* No call waits for a refresh that nobody is making.
THEOREM QueueIsServed == Spec => []QueueServed
<1>1. Inv => QueueServed
  BY DEF Inv
<1> QED BY <1>1, InitInv, StepInv, PTL DEF Spec

\* No call is given a promise that is over.
THEOREM JoinersAreServed == Spec => []JoinersServed
<1>1. Inv => JoinersServed
  BY DEF Inv
<1> QED BY <1>1, InitInv, StepInv, PTL DEF Spec

\* The app is shown to who is signed in, and to nobody else.
THEOREM StoreAlwaysMatchesPage == Spec => []StoreMatchesPage
<1>1. Inv => StoreMatchesPage
  BY DEF Inv
<1> QED BY <1>1, InitInv, StepInv, PTL DEF Spec

-----------------------------------------------------------------------------
(***************************************************************************)
(* ApiClient implements SingleFlight.                                       *)
(***************************************************************************)
Flying == {c \in Call : refresh[c] # "none"}

\* An end of the refresh, and every step that leaves both sides as they are.
LEMMA NobodyLeft ==
    ASSUME Inv, (\A c \in Call : refresh'[c] = "none"), Queued' = {}
    PROVE  Refresh!Next \/ (Flying' = Flying /\ Queued' = Queued)
<1>1. Flying' = {}
  BY DEF Flying
<1>2. Flying = {} => Queued = {}
  BY DEF Flying, Inv, QueueServed
<1> QED BY <1>1, <1>2 DEF Flying, Refresh!Next, Refresh!End

LEMMA EndingLeavesNobody ==
    ASSUME Inv, NEW c \in Call, refresh[c] # "none", EndRefresh(c)
    PROVE  (\A d \in Call : refresh'[d] = "none") /\ Queued' = {}
<1>1. \A d \in Call : refresh'[d] = "none"
  BY DEF EndRefresh, Inv, TypeOK, OneRefresh
<1>2. Inv'
  BY Ending
<1> QED BY <1>1, <1>2 DEF Inv, QueueServed

\* A call is queued only by a refusal, and no other step of a call touches the
\* queue or the refresh.
LEMMA CallSteps ==
    ASSUME Inv, NEW c \in Call, Ask(c) \/ AnswerCall(c) \/ FetchCsrf(c)
    PROVE  Refresh!Next \/ (Flying' = Flying /\ Queued' = Queued)
<1>1. CASE Queue(c)
  <2>1. Queued' = Queued \cup {c} /\ Flying' = Flying
    BY <1>1 DEF Queue, Queued, Flying, Inv, TypeOK
  <2>2. Flying # {} /\ c \notin Flying
    BY <1>1 DEF Queue, Flying, Inv, OneRefresh
  <2> QED BY <2>1, <2>2 DEF Flying, Refresh!Next, Refresh!Wait
<1>2. CASE StartRefresh(c)
  <2>1. Flying = {} /\ Flying' = {c}
    BY <1>2 DEF StartRefresh, Flying, Inv, TypeOK, OneRefresh
  <2>2. Queued' = Queued
    BY <1>2 DEF StartRefresh, Queued, Inv, TypeOK
  <2> QED BY <2>1, <2>2 DEF Flying, Refresh!Next, Refresh!Begin
<1>3. CASE GiveUp(c)
  <2>1. \A d \in Call : refresh'[d] = "none"
    BY <1>3 DEF GiveUp, Inv, OneRefresh, TypeOK
  <2>2. Queued' = {}
    BY <2>1, <1>3, GiveUpInv DEF Inv, QueueServed
  <2> QED BY <2>1, <2>2, NobodyLeft
<1>4. CASE Settle({c}) /\ refresh' = refresh /\ at[c] \notin {"queued"}
  <2>1. Over({c}) \cap Queued = {}
    BY <1>4 DEF Over, Queued
  <2>2. Queued' = Queued
    BY <1>4, <2>1 DEF Settle, Queued
  <2> QED BY <1>4, <2>2 DEF Flying
<1>5. CASE /\ refresh' = refresh /\ at[c] # "queued"
           /\ \E x \in {"joined", "sent", "csrf"} : at' = [at EXCEPT ![c] = x]
  <2>1. Queued' = Queued
    BY <1>5 DEF Queued, Inv, TypeOK
  <2> QED BY <1>5, <2>1 DEF Flying
<1> QED BY <1>1, <1>2, <1>3, <1>4, <1>5
        DEF Ask, AnswerCall, Answer, RefuseCsrf, FetchCsrf

\* The calls that are refused while a refresh is under way wait for its end and
\* no longer, for any number of calls.
THEOREM SingleFlightKept == Spec => KeepsSingleFlight
<1>1. Init => Refresh!Init
  BY DEF Init, Refresh!Init, Queued
<1>2. Inv /\ [Next]_vars => [Refresh!Next]_<<Flying, Queued>>
  <2> SUFFICES ASSUME Inv, [Next]_vars
               PROVE  Refresh!Next \/ (Flying' = Flying /\ Queued' = Queued)
    OBVIOUS
  <2>1. ASSUME NEW c \in Call, Ask(c) \/ AnswerCall(c) \/ FetchCsrf(c)
        PROVE  Refresh!Next \/ (Flying' = Flying /\ Queued' = Queued)
    BY <2>1, CallSteps
  <2>2. ASSUME NEW c \in Call, AnswerRefresh(c) \/ FetchRefreshCsrf(c)
        PROVE  Refresh!Next \/ (Flying' = Flying /\ Queued' = Queued)
    <3>1. refresh[c] # "none"
      BY <2>2 DEF AnswerRefresh, GrantRefresh, FailRefresh, RefuseRefresh,
                  RefuseRefreshCsrf, FetchRefreshCsrf
    <3>2. CASE EndRefresh(c)
      BY <3>1, <3>2, EndingLeavesNobody, NobodyLeft
    <3>3. CASE /\ \E x \in {"sent", "csrf", "queued"} : refresh' = [refresh EXCEPT ![c] = x]
               /\ at' = at
      BY <3>1, <3>3 DEF Flying, Queued, Inv, TypeOK
    <3> QED BY <2>2, <3>2, <3>3 DEF AnswerRefresh, GrantRefresh, FailRefresh,
                   RefuseRefresh, RefuseRefreshCsrf, FetchRefreshCsrf, calls
  <2>3. CASE Load
    <3>1. (\A c \in Call : refresh'[c] = "none") /\ Queued' = {}
      BY <2>3 DEF Load, Rest, Queued
    <3> QED BY <3>1, NobodyLeft
  <2>4. CASE UNCHANGED <<at, refresh>>
    BY <2>4 DEF Flying, Queued
  <2>5. CASE SignIn \/ SignOut \/ UNCHANGED vars
             \/ \E k \in Key : Grow(k) \/ CleanUp(k)
    BY <2>4, <2>5 DEF SignIn, SignOut, Grow, CleanUp, vars, calls
  <2> QED BY <2>1, <2>2, <2>3, <2>5 DEF Next, AnswerCsrf
<1> QED BY <1>1, <1>2, InitInv, StepInv, PTL
        DEF Spec, KeepsSingleFlight, Refresh!Spec, Flying
=============================================================================
