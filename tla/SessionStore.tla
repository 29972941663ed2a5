---------------------------- MODULE SessionStore ----------------------------
(*****************************************************************************)
(* One sign-in: its session in Redis (services/session_service.py), the      *)
(* blacklist of its tokens (services/token_blacklist_service.py) and the     *)
(* requests that verify it, refresh its access token and end it              *)
(* (services/auth_service.py, core/auth_middleware.py, api/auth.py).         *)
(*                                                                           *)
(* Every command a request sends to Redis is a step; what it computes, and   *)
(* asks of PostgreSQL about the user and the tenant, belongs to the step     *)
(* before.                                                                   *)
(*                                                                           *)
(* A refresh and a logout take the token they are about from the body, where *)
(* it is the refresh token, or else from the Authorization header, where it  *)
(* is the access token.  Nothing looks at the kind of a token: it is decoded *)
(* and its own key is sought in the blacklist.                               *)
(*                                                                           *)
(* A tick is an hour, the time after which a session is extended.  A request *)
(* that has stamped a session is over within the tick that follows.          *)
(*****************************************************************************)
EXTENDS Naturals

CONSTANTS
    Request,      \* the server's threads
    Access,       \* bound: the access tokens that live at a time
    RefreshToken, \* the token the login issues to refresh with
    TTL,          \* SESSION_TTL and the cookie's max_age
    Threshold,    \* EXTENSION_THRESHOLD
    AccessLife,   \* JWT_ACCESS_TOKEN_EXPIRES
    RefreshLife,  \* JWT_REFRESH_TOKEN_EXPIRES
    MaxFaults     \* bound: errors of Redis

ASSUME LifeAssumption ==
    /\ TTL \in Nat \ {0} /\ Threshold \in Nat \ {0} /\ AccessLife \in Nat \ {0}
    /\ RefreshLife \in Nat \ {0} /\ MaxFaults \in Nat
ASSUME TokenAssumption == Access # {} /\ RefreshToken \notin Access

VARIABLES
    session,   \* the session's key: the life it has left and the age of last_active
    access,    \* the newest access token
    life,      \* what is left of each token
    black,     \* what is left of its key in the blacklist
    cookie,    \* what is left of the browser's cookie
    pc,        \* where each request is
    given,     \* the token each request carries, until it has been dealt with
    stamp,     \* the age of the last_active a request is about to write
    held,      \* the life of the session that an update has read
    faults,
    out,       \* history: a logout has deleted the session
    clean,     \* history: and no request was about to write it then
    revoked    \* history: the tokens that were blacklisted

tokens == <<access, life, black, cookie>>
history == <<out, clean, revoked>>
vars == <<session, tokens, pc, given, stamp, held, faults, history>>

Token == Access \cup {RefreshToken}

Absent == [ttl |-> 0, age |-> 0]
Present == session.ttl > 0

\* Requests that hold what they have read of the session.
Writing == {"write1", "write2", "ttl", "save"}

\* After a login: its cookie is set once.
Init ==
    /\ session = [ttl |-> TTL, age |-> 0]
    /\ access \in Access
    /\ life = [t \in Token |-> IF t = RefreshToken THEN RefreshLife
                               ELSE IF t = access THEN AccessLife ELSE 0]
    /\ black = [t \in Token |-> 0]
    /\ cookie = TTL
    /\ pc = [r \in Request |-> "rest"]
    /\ given = [r \in Request |-> RefreshToken]
    /\ stamp = [r \in Request |-> 0]
    /\ held = [r \in Request |-> 0]
    /\ faults = 0
    /\ out = FALSE
    /\ clean = FALSE
    /\ revoked = {}

Goto(r, p) ==
    /\ pc' = [pc EXCEPT ![r] = p]
    /\ given' = [given EXCEPT ![r] = IF p \in {"verify", "refresh", "check", "logout", "revoke"}
                                     THEN @ ELSE RefreshToken]

\* A request leaves the browser, with the session's name in its cookie.  A
\* logout whose body is not JSON stops before it does anything.
Send(r) ==
    /\ pc[r] = "rest"
    /\ cookie > 0
    /\ \E p \in {"verify", "refresh", "logout"} : pc' = [pc EXCEPT ![r] = p]
    /\ \E t \in {access, RefreshToken} : given' = [given EXCEPT ![r] = t]
    /\ UNCHANGED <<session, tokens, stamp, held, faults, history>>

-----------------------------------------------------------------------------
(***************************************************************************)
(* verify_auth: verify_request extends the session, and so does the         *)
(* middleware after it.                                                     *)
(***************************************************************************)
Verify(r) ==
    /\ pc[r] = "verify"
    /\ Goto(r, IF Present /\ life[given[r]] > 0 THEN "extend1" ELSE "rest")
    /\ UNCHANGED <<session, tokens, stamp, held, faults, history>>

\* extend_session reads the session.
ExtendRead(r) ==
    /\ pc[r] \in {"extend1", "extend2"}
    /\ LET due == Present /\ session.age >= Threshold
       IN  Goto(r, CASE pc[r] = "extend1" /\ due  -> "write1"
                     [] pc[r] = "extend1" /\ ~due -> "extend2"
                     [] pc[r] = "extend2" /\ due  -> "write2"
                     [] OTHER                     -> "rest")
    /\ UNCHANGED <<session, tokens, stamp, held, faults, history>>

\* Mutant of ExtendWrite: another life is added to what is left.
ExtendWriteMore(r) ==
    /\ pc[r] \in {"write1", "write2"}
    /\ session' = [ttl |-> session.ttl + TTL, age |-> stamp[r]]
    /\ Goto(r, IF pc[r] = "write1" THEN "extend2" ELSE "rest")
    /\ stamp' = [stamp EXCEPT ![r] = 0]
    /\ UNCHANGED <<tokens, held, faults, history>>

ExtendWrite(r) ==
    /\ pc[r] \in {"write1", "write2"}
    /\ session' = [ttl |-> TTL, age |-> stamp[r]]
    /\ Goto(r, IF pc[r] = "write1" THEN "extend2" ELSE "rest")
    /\ stamp' = [stamp EXCEPT ![r] = 0]
    /\ UNCHANGED <<tokens, held, faults, history>>

-----------------------------------------------------------------------------
(***************************************************************************)
(* refresh_token, and the update_session it ends with.                      *)
(***************************************************************************)
Refresh(r) ==
    /\ pc[r] = "refresh"
    /\ Goto(r, IF Present /\ life[given[r]] > 0 THEN "check" ELSE "rest")
    /\ UNCHANGED <<session, tokens, stamp, held, faults, history>>

\* A new access token takes the name of one that is over.
Issue ==
    \E t \in Access :
        /\ life[t] = 0 /\ black[t] = 0 /\ \A q \in Request : given[q] # t
        /\ access' = t
        /\ life' = [life EXCEPT ![t] = AccessLife]
        /\ revoked' = revoked \ {t}

\* Mutant of Check: the access token is issued before the blacklist is read.
CheckLate(r) ==
    /\ pc[r] = "check"
    /\ Issue
    /\ Goto(r, IF black[given[r]] > 0 THEN "rest" ELSE "load")
    /\ UNCHANGED <<session, black, cookie, stamp, held, faults, out, clean>>

\* is_blacklisted of the token that was sent, and a new access token.  The token
\* is decoded again, so one that has expired by now counts as not blacklisted.
Check(r) ==
    /\ pc[r] = "check"
    /\ \/ /\ black[given[r]] > 0
          /\ Goto(r, "rest")
          /\ UNCHANGED <<access, life, revoked>>
       \/ /\ black[given[r]] = 0
          /\ Issue
          /\ Goto(r, "load")
    /\ UNCHANGED <<session, black, cookie, stamp, held, faults, out, clean>>

\* update_session reads the session.
Load(r) ==
    /\ pc[r] = "load"
    /\ Goto(r, IF Present THEN "ttl" ELSE "rest")
    /\ UNCHANGED <<session, tokens, stamp, held, faults, history>>

\* TTL is negative for a key that is gone, and rounds the last half second of a
\* key to 0.
ReadTTL(r) ==
    /\ pc[r] = "ttl"
    /\ \E n \in {session.ttl} \cup (IF session.ttl = 1 THEN {0} ELSE {}) :
         held' = [held EXCEPT ![r] = n]
    /\ Goto(r, "save")
    /\ UNCHANGED <<session, tokens, stamp, faults, history>>

\* Mutant of Save: without a life to keep, the session gets the threshold's.
SaveShort(r) ==
    /\ pc[r] = "save"
    /\ session' = [ttl |-> Threshold, age |-> stamp[r]]
    /\ held' = [held EXCEPT ![r] = 0]
    /\ stamp' = [stamp EXCEPT ![r] = 0]
    /\ Goto(r, "rest")
    /\ UNCHANGED <<tokens, faults, history>>

Save(r) ==
    /\ pc[r] = "save"
    /\ session' = [ttl |-> IF held[r] > 0 THEN held[r] ELSE TTL, age |-> stamp[r]]
    /\ held' = [held EXCEPT ![r] = 0]
    /\ stamp' = [stamp EXCEPT ![r] = 0]
    /\ Goto(r, "rest")
    /\ UNCHANGED <<tokens, faults, history>>

-----------------------------------------------------------------------------
(***************************************************************************)
(* logout.  What it reads of the session first is only logged.              *)
(***************************************************************************)

\* Mutant of Delete: the session is marked as over and left to expire.
DeleteLater(r) ==
    /\ pc[r] = "logout"
    /\ out' = TRUE
    /\ clean' = \A q \in Request : pc[q] \notin Writing
    /\ Goto(r, "revoke")
    /\ UNCHANGED <<session, tokens, stamp, held, faults, revoked>>

Delete(r) ==
    /\ pc[r] = "logout"
    /\ session' = Absent
    /\ out' = TRUE
    /\ clean' = \A q \in Request : pc[q] \notin Writing
    /\ Goto(r, "revoke")
    /\ UNCHANGED <<tokens, stamp, held, faults, revoked>>

\* add_to_blacklist of the token that was sent, for as long as it lives; a
\* request may carry none.  The other token is not revoked.  The answer clears
\* the cookie.
Revoke(r) ==
    /\ pc[r] = "revoke"
    /\ \/ /\ black' = [black EXCEPT ![given[r]] = life[given[r]]]
          /\ revoked' = revoked \cup {given[r]}
       \/ UNCHANGED <<black, revoked>>
    /\ cookie' = 0
    /\ Goto(r, "rest")
    /\ UNCHANGED <<session, access, life, stamp, held, faults, out, clean>>

-----------------------------------------------------------------------------
\* Where a request goes when a command fails: the error ends a verification or
\* a refresh that has not decided yet, and everything else goes on without it.
\* A command that took effect before its answer was lost goes on the same way.
Rescue(p) ==
    CASE p \in {"extend1", "write1"} -> "extend2"
      [] p = "logout"                -> "revoke"
      [] OTHER                       -> "rest"

Fail(r) ==
    /\ pc[r] # "rest"
    /\ faults < MaxFaults
    /\ faults' = faults + 1
    /\ Goto(r, Rescue(pc[r]))
    /\ stamp' = [stamp EXCEPT ![r] = 0]
    /\ held' = [held EXCEPT ![r] = 0]
    /\ cookie' = IF pc[r] = "revoke" THEN 0 ELSE cookie
    /\ UNCHANGED <<session, access, life, black, history>>

Less(n) == IF n > 0 THEN n - 1 ELSE 0

Tick ==
    /\ \A r \in Request : stamp[r] = 0
    /\ session' = IF session.ttl > 1
                    THEN [ttl |-> session.ttl - 1, age |-> session.age + 1]
                    ELSE Absent
    /\ life' = [t \in Token |-> Less(life[t])]
    /\ black' = [t \in Token |-> Less(black[t])]
    /\ cookie' = Less(cookie)
    /\ stamp' = [r \in Request |-> IF pc[r] \in Writing THEN 1 ELSE 0]
    /\ UNCHANGED <<access, pc, given, held, faults, history>>

Step(r) ==
    \/ Verify(r) \/ ExtendRead(r) \/ ExtendWrite(r)
    \/ Refresh(r) \/ Check(r) \/ Load(r) \/ ReadTTL(r) \/ Save(r)
    \/ Delete(r) \/ Revoke(r)

Next ==
    \/ \E r \in Request : Send(r) \/ Step(r) \/ Fail(r)
    \/ Tick

Spec == Init /\ [][Next]_vars

-----------------------------------------------------------------------------
\* Type invariant: no life is longer than it was given, and every request is at
\* a known step.
TypeOK ==
    /\ session \in [ttl : 0 .. TTL, age : Nat]
    /\ access \in Access
    /\ life \in [Token -> Nat] /\ black \in [Token -> Nat]
    /\ \A t \in Access : life[t] <= AccessLife
    /\ life[RefreshToken] <= RefreshLife
    /\ cookie \in 0 .. TTL
    /\ pc \in [Request -> {"rest", "verify", "extend1", "write1", "extend2", "write2",
                           "refresh", "check", "load", "ttl", "save", "logout", "revoke"}]
    /\ given \in [Request -> Token]
    /\ stamp \in [Request -> 0 .. 1]
    /\ held \in [Request -> 0 .. TTL]
    /\ faults \in 0 .. MaxFaults
    /\ out \in BOOLEAN /\ clean \in BOOLEAN /\ revoked \subseteq Token

\* A logout is final unless a request was between its read and its write of the
\* session when the key was deleted: only such a request can bring it back.
LogoutHolds == clean => ~Present

\* Until the logout the session lives as long as the browser's cookie, whatever
\* overlapping extensions and updates have written over it: an update may undo
\* an extension, and never by more than the cookie allows.
SessionCoversCookie == ~out => session.ttl >= cookie

\* A request that carries a token a logout has revoked gets no access token for
\* it while it lives, be it the refresh token or an access token, whenever the
\* request was sent and even when a late write has brought the session back.  It
\* is all that is revoked: the token that the logout did not carry still refreshes.
RevokedNeverRefreshes ==
    [][\A r \in Request :
         /\ given[r] \in revoked /\ life[given[r]] > 0
         /\ pc'[r] # pc[r]
         => \A t \in Token : life'[t] <= life[t]]_vars

\* A logout deletes the session for good.
LogoutIsFinal == out => ~Present
=============================================================================
