------------------------------ MODULE ApiClient ------------------------------
(***************************************************************************)
(* The browser's API client: the response interceptor of ApiClient          *)
(* (services/api.ts), which refreshes the access token when a call is       *)
(* refused, the request deduplicator every call goes through                *)
(* (utils/request-deduplicator.ts) and the sign-in it reads and clears      *)
(* (store/auth.ts).                                                         *)
(*                                                                          *)
(* JavaScript runs a handler to its next network await without              *)
(* interruption, so an action is the code between two of them: "await       *)
(* import('../store/auth')" of a module that is loaded resumes before any   *)
(* answer is handled.  The server may answer a request in any way; axios'   *)
(* timeout makes it answer.  What a call returns is not modelled: a call    *)
(* that is over is idle again.                                              *)
(*                                                                          *)
(* The assignment to this.token (api.ts:152) throws: the class has a getter *)
(* of that name and no setter, and class bodies are strict.  The lines      *)
(* after it are never reached, and the catch clause ends every refresh that *)
(* the server grants.  So no call is sent again after a refresh, and the    *)
(* _retry mark of a call is never read.                                     *)
(***************************************************************************)
EXTENDS Naturals

CONSTANTS
    Call,    \* the places in the page that make a call
    Key,     \* method, URL and data of a call
    KeyOf,   \* the key of each call
    None

ASSUME NoneAssumption == None \notin Call
ASSUME KeyAssumption == KeyOf \in [Call -> Key]

VARIABLES
    at,            \* where each call is
    leader,        \* the call whose promise a joined call returns
    pending,       \* pendingRequests: the call of each key and its age
    refresh,       \* the refresh request a waiting call has made
    isRefreshing,
    store,         \* the auth store
    page           \* what the browser shows

calls == <<at, leader, pending>>
vars == <<calls, refresh, isRefreshing, store, page>>

NoEntry == [call |-> None, age |-> 0]
SignedOut == [token |-> FALSE, refreshToken |-> FALSE, isAuthenticated |-> FALSE]
SignedIn == [token |-> TRUE, refreshToken |-> TRUE, isAuthenticated |-> TRUE]

Rest ==
    /\ at' = [c \in Call |-> "idle"]
    /\ leader' = [c \in Call |-> c]
    /\ pending' = [k \in Key |-> NoEntry]
    /\ refresh' = [c \in Call |-> "none"]
    /\ isRefreshing' = FALSE

Init ==
    /\ at = [c \in Call |-> "idle"]
    /\ leader = [c \in Call |-> c]
    /\ pending = [k \in Key |-> NoEntry]
    /\ refresh = [c \in Call |-> "none"]
    /\ isRefreshing = FALSE
    /\ store = SignedOut
    /\ page = "login"

InFlight(c) == at[c] \notin {"idle", "joined"}

\* failedQueue, without a refresh request that waits in it.
Queued == {c \in Call : at[c] = "queued"}

\* A refresh request that was refused waits in the queue only it can empty.
Blocked == \E c \in Call : refresh[c] = "queued"

-----------------------------------------------------------------------------
(***************************************************************************)
(* The deduplicator.  An age of 0 is less than CACHE_DURATION, 2 is more    *)
(* than twice that.                                                         *)
(***************************************************************************)

\* Mutant of Joins: an entry is looked for by its age alone.
JoinsAny(c) == pending[KeyOf[c]].age = 0

Joins(c) == pending[KeyOf[c]].call # None /\ pending[KeyOf[c]].age = 0

Ask(c) ==
    /\ at[c] = "idle"
    /\ page # "login"
    /\ \/ /\ Joins(c)
          /\ at' = [at EXCEPT ![c] = "joined"]
          /\ leader' = [leader EXCEPT ![c] = pending[KeyOf[c]].call]
          /\ UNCHANGED pending
       \/ /\ ~Joins(c)
          /\ at' = [at EXCEPT ![c] = "sent"]
          /\ pending' = [pending EXCEPT ![KeyOf[c]] = [call |-> c, age |-> 0]]
          /\ UNCHANGED leader
    /\ UNCHANGED <<refresh, isRefreshing, store, page>>

Over(S) == S \cup {c \in Call : at[c] = "joined" /\ leader[c] \in S}

\* Mutant of Settle: the promise stays in pendingRequests until it has aged.
SettleUndeleted(S) ==
    /\ at' = [c \in Call |-> IF c \in Over(S) THEN "idle" ELSE at[c]]
    /\ leader' = [c \in Call |-> IF c \in Over(S) THEN c ELSE leader[c]]
    /\ UNCHANGED pending

\* The promises of the calls in S end, and with them the calls that share
\* them.  The finally clause deletes whatever the key holds by now.
Settle(S) ==
    /\ at' = [c \in Call |-> IF c \in Over(S) THEN "idle" ELSE at[c]]
    /\ leader' = [c \in Call |-> IF c \in Over(S) THEN c ELSE leader[c]]
    /\ pending' = [k \in Key |->
                     IF \E c \in S : KeyOf[c] = k THEN NoEntry ELSE pending[k]]

Grow(k) ==
    /\ pending[k].call # None
    /\ pending[k].age < 2
    /\ pending' = [pending EXCEPT ![k].age = @ + 1]
    /\ UNCHANGED <<at, leader, refresh, isRefreshing, store, page>>

CleanUp(k) ==
    /\ pending[k].age = 2
    /\ pending' = [pending EXCEPT ![k] = NoEntry]
    /\ UNCHANGED <<at, leader, refresh, isRefreshing, store, page>>

-----------------------------------------------------------------------------
(***************************************************************************)
(* The answers to a call.                                                   *)
(***************************************************************************)

\* Data, or an error the interceptor passes on.
Answer(c) ==
    /\ at[c] = "sent"
    /\ Settle({c})
    /\ UNCHANGED <<refresh, isRefreshing, store, page>>

\* 400 CSRF: the client fetches a new CSRF token and sends the request again, as
\* often as it is refused: the request carries no mark of it (api.ts:99-108).
RefuseCsrf(c) ==
    /\ at[c] = "sent"
    /\ at' = [at EXCEPT ![c] = "csrf"]
    /\ UNCHANGED <<leader, pending, refresh, isRefreshing, store, page>>

FetchCsrf(c) ==
    /\ at[c] = "csrf"
    /\ \/ at' = [at EXCEPT ![c] = "sent"] /\ UNCHANGED <<leader, pending>>
       \/ Settle({c})
    /\ UNCHANGED <<refresh, isRefreshing, store, page>>

\* logout(), and the move to /login unless the page is there.
Expel ==
    /\ store' = SignedOut
    /\ page' = IF page = "login" THEN page ELSE "leaving"

\* 401 while a refresh is under way.
Queue(c) ==
    /\ at[c] = "sent"
    /\ isRefreshing
    /\ at' = [at EXCEPT ![c] = "queued"]
    /\ UNCHANGED <<leader, pending, refresh, isRefreshing, store, page>>

StartRefresh(c) ==
    /\ at[c] = "sent"
    /\ ~isRefreshing
    /\ store.refreshToken
    /\ isRefreshing' = TRUE
    /\ at' = [at EXCEPT ![c] = "waiting"]
    /\ refresh' = [refresh EXCEPT ![c] = "sent"]
    /\ UNCHANGED <<leader, pending, store, page>>

\* 401 with nobody signed in: processQueue and logout.
GiveUp(c) ==
    /\ at[c] = "sent"
    /\ ~isRefreshing
    /\ ~store.refreshToken
    /\ Settle(Queued \cup {c})
    /\ Expel
    /\ UNCHANGED <<refresh, isRefreshing>>

-----------------------------------------------------------------------------
(***************************************************************************)
(* The answers to the refresh request of call c.  It is sent through the    *)
(* same interceptor, and isRefreshing is set.                               *)
(***************************************************************************)

\* Mutant of EndRefresh: the catch clause does not call processQueue.
EndRefreshAlone(c) ==
    /\ Settle({c})
    /\ refresh' = [refresh EXCEPT ![c] = "none"]
    /\ isRefreshing' = FALSE
    /\ Expel

\* Mutant of EndRefresh: isRefreshing is not reset.
EndRefreshUnset(c) ==
    /\ Settle(Queued \cup {c})
    /\ refresh' = [refresh EXCEPT ![c] = "none"]
    /\ Expel
    /\ UNCHANGED isRefreshing

\* The catch clause: processQueue, logout and the move to /login; finally.
EndRefresh(c) ==
    /\ Settle(Queued \cup {c})
    /\ refresh' = [refresh EXCEPT ![c] = "none"]
    /\ isRefreshing' = FALSE
    /\ Expel

\* Mutant of GrantRefresh: this.token can be assigned, so the call and the
\* queued ones are sent again.
GrantRefreshSet(c) ==
    /\ refresh[c] = "sent"
    /\ store' = [store EXCEPT !.token = TRUE]
    /\ at' = [d \in Call |-> IF d \in Queued \cup {c} THEN "sent" ELSE at[d]]
    /\ refresh' = [refresh EXCEPT ![c] = "none"]
    /\ isRefreshing' = FALSE
    /\ UNCHANGED <<leader, pending, page>>

\* A new access token: setToken stores it, and the next line throws.
GrantRefresh(c) == refresh[c] = "sent" /\ EndRefresh(c)

\* An error other than 401.
FailRefresh(c) == refresh[c] = "sent" /\ EndRefresh(c)

\* 401: the request waits for the refresh that it is.
RefuseRefresh(c) ==
    /\ refresh[c] = "sent"
    /\ isRefreshing
    /\ refresh' = [refresh EXCEPT ![c] = "queued"]
    /\ UNCHANGED <<calls, isRefreshing, store, page>>

RefuseRefreshCsrf(c) ==
    /\ refresh[c] = "sent"
    /\ refresh' = [refresh EXCEPT ![c] = "csrf"]
    /\ UNCHANGED <<calls, isRefreshing, store, page>>

FetchRefreshCsrf(c) ==
    /\ refresh[c] = "csrf"
    /\ \/ /\ refresh' = [refresh EXCEPT ![c] = "sent"]
          /\ UNCHANGED <<calls, isRefreshing, store, page>>
       \/ EndRefresh(c)

-----------------------------------------------------------------------------
(***************************************************************************)
(* The user and the browser.                                                *)
(***************************************************************************)
SignIn ==
    /\ page = "login"
    /\ store' = SignedIn
    /\ page' = "app"
    /\ UNCHANGED <<calls, refresh, isRefreshing>>

\* The page's own move to /login keeps the calls that are in flight.
SignOut ==
    /\ page = "app"
    /\ store' = SignedOut
    /\ page' = "login"
    /\ UNCHANGED <<calls, refresh, isRefreshing>>

\* location.href, or the user, loads the page anew; localStorage holds the
\* sign-in.
Load ==
    /\ Rest
    /\ page' = IF page = "leaving" THEN "login" ELSE page
    /\ UNCHANGED store

AnswerCall(c) ==
    Answer(c) \/ RefuseCsrf(c) \/ Queue(c) \/ StartRefresh(c) \/ GiveUp(c)
AnswerRefresh(c) ==
    GrantRefresh(c) \/ FailRefresh(c) \/ RefuseRefresh(c) \/ RefuseRefreshCsrf(c)
AnswerCsrf(c) == FetchCsrf(c) \/ FetchRefreshCsrf(c)

Next ==
    \/ \E c \in Call : Ask(c) \/ AnswerCall(c) \/ AnswerRefresh(c) \/ AnswerCsrf(c)
    \/ \E k \in Key : Grow(k) \/ CleanUp(k)
    \/ SignIn \/ SignOut \/ Load

Spec == Init /\ [][Next]_vars

\* axios ends a request that has no answer after 180 s; a page the browser
\* leaves is unloaded.  Nothing is asked of the user or of the timers.
FairSpec ==
    /\ Spec
    /\ \A c \in Call : /\ WF_vars(AnswerCall(c))
                       /\ WF_vars(AnswerRefresh(c))
                       /\ WF_vars(AnswerCsrf(c))
    /\ WF_vars(page = "leaving" /\ Load)

-----------------------------------------------------------------------------
\* Type invariant: calls, promises, refresh requests and the auth store keep
\* their shapes.
TypeOK ==
    /\ at \in [Call -> {"idle", "sent", "csrf", "queued", "waiting", "joined"}]
    /\ leader \in [Call -> Call]
    /\ pending \in [Key -> [call : Call \cup {None}, age : 0 .. 2]]
    /\ refresh \in [Call -> {"none", "sent", "csrf", "queued"}]
    /\ isRefreshing \in BOOLEAN
    /\ store \in [token : BOOLEAN, refreshToken : BOOLEAN, isAuthenticated : BOOLEAN]
    /\ page \in {"app", "leaving", "login"}

\* However many calls are refused together, one refresh is under way at most,
\* it belongs to the call that waits for it, and isRefreshing says so.
OneRefresh ==
    /\ \A c, d \in Call : refresh[c] # "none" /\ refresh[d] # "none" => c = d
    /\ \A c \in Call : refresh[c] # "none" <=> at[c] = "waiting"
    /\ isRefreshing <=> \E c \in Call : refresh[c] # "none"

\* A call waits in failedQueue only while there is a refresh whose end empties
\* it: processQueue is called before isRefreshing is reset, on every path.
QueueServed == Queued # {} => \E c \in Call : refresh[c] # "none"

\* Nobody is given a promise that is over: an entry of pendingRequests and the
\* promise a joined call returns belong to a call in flight with that key.
JoinersServed ==
    /\ \A k \in Key : pending[k].call # None =>
                        InFlight(pending[k].call) /\ KeyOf[pending[k].call] = k
    /\ \A c \in Call : at[c] = "joined" =>
                        InFlight(leader[c]) /\ KeyOf[leader[c]] = KeyOf[c]

\* The app is shown to who is signed in, whole, and the login page to who is
\* not: no answer that comes after a sign-out, or after another sign-in, brings
\* back a half of the sign-in or leaves a page without one.
StoreMatchesPage == store = IF page = "app" THEN SignedIn ELSE SignedOut

Refresh == INSTANCE SingleFlight WITH
    flying <- {c \in Call : refresh[c] # "none"}, waiting <- Queued

\* The refresh keeps the promise of SingleFlight: failedQueue is joined only while
\* a refresh is under way and emptied only by its end, whatever the server
\* answers to the refresh and to the calls, and in which order.
KeepsSingleFlight == Refresh!Spec

\* What a call waits for: the promise it has joined, and in the queue the refresh.
WaitsFor(c, d) ==
    d = leader[c] \/ (at[leader[c]] = "queued" /\ refresh[d] # "none")

\* The CSRF token of what call c waits for has been refused.
CsrfRefused(c) == \E d \in Call : WaitsFor(c, d) /\ "csrf" \in {at[d], refresh[d]}

\* A call ends, but for two ways to hang.  A refresh request was refused: it, and
\* every call refused after it, waits until the page is loaded anew.  Or the CSRF
\* token of the call itself, of the one it has joined, or of the refresh it is
\* queued behind is refused for ever, each new token like the one before.
CallsSettle ==
    \A c \in Call :
        \/ at[c] # "idle" ~> (at[c] = "idle" \/ Blocked)
        \/ []<>CsrfRefused(c)

\* What api.ts:168-178 is for: a refresh ends, with the sign-in if it failed.
\* It does not when the refresh request itself is refused, even if its CSRF token
\* is not refused for ever.
RefreshEnds ==
    \/ isRefreshing ~> ~isRefreshing
    \/ []<>(\E c \in Call : refresh[c] = "csrf")
=============================================================================
