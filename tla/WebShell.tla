------------------------------ MODULE WebShell ------------------------------
(***************************************************************************)
(* The WebShell page of a host: the one WebShellService of the browser      *)
(* (services/webshell.ts), the hook between it and a mounted page           *)
(* (hooks/useWebShell.ts) and what the page shows and lets the user click   *)
(* (pages/Hosts/WebShell.tsx, components/WebShell/WebShellTerminal.tsx).    *)
(*                                                                          *)
(* The service has one currentSession, one socket and one state; a call of  *)
(* connect that has not ended, and every socket that was ever opened and    *)
(* not closed, goes on writing to them.  So a call and its socket are one   *)
(* element of Attempt, and "cur" is the attempt whose socket the service    *)
(* holds.  JavaScript runs a handler to its next await: an action is a      *)
(* click or an event with all that follows it, and an answered POST is gone *)
(* on with before anything else happens (Quiet).                            *)
(*                                                                          *)
(* The server answers as it likes: a terminal that was asked for is created *)
(* or refused, and what is typed may be refused.  socket.io opens, loses    *)
(* and reopens connections at any time.  Events of a socket that is not     *)
(* open are lost.                                                           *)
(*                                                                          *)
(* One host; output, sizes and texts of errors are left out.                *)
(***************************************************************************)
EXTENDS Naturals

CONSTANTS
    Attempt,   \* calls of connect, each with the socket it opens
    Page,      \* mounted instances of the page, one at a time
    MaxAsks,   \* bound on the terminals asked for on a socket and not answered
    None

ASSUME NoneAssumption == None \notin Attempt \cup Page
ASSUME MaxAsksAssumption == MaxAsks \in Nat \ {0}

VARIABLES
    at,        \* where each call of connect is
    by,        \* the page that made it
    session,   \* the attempt whose POST made its session
    sock,      \* each attempt's socket
    asks,      \* creations of its session's terminal asked for and not answered
    risk,      \* something else was sent that an error may answer
    made,      \* the server has told the socket that its terminal is there
    cur,       \* socket and currentSession of the service
    term,      \* isTerminalCreated
    state,     \* the service's state
    subs,      \* subscriptions of each page to the service's events
    mounted,
    hook,      \* connectionState of the hook, which lets input through
    shown      \* connectionState of the page, which enables the buttons

calls == <<at, by, session>>
links == <<sock, asks, risk, made>>
service == <<cur, term, state, subs>>
page == <<mounted, hook, shown>>
vars == <<calls, links, service, page>>

State == {"disconnected", "connecting", "connected", "reconnecting", "error"}
Sock == {"none", "opening", "open", "lost", "retrying"}

Init ==
    /\ at = [a \in Attempt |-> "idle"]
    /\ by = [a \in Attempt |-> None]
    /\ session = [a \in Attempt |-> a]
    /\ sock = [a \in Attempt |-> "none"]
    /\ asks = [a \in Attempt |-> 0]
    /\ risk = [a \in Attempt |-> FALSE]
    /\ made = [a \in Attempt |-> FALSE]
    /\ cur = None
    /\ term = FALSE
    /\ state = "disconnected"
    /\ subs = [p \in Page |-> 0]
    /\ mounted = None
    /\ hook = "disconnected"
    /\ shown = "disconnected"

Live(a) == at[a] # "idle" \/ sock[a] # "none" \/ cur = a
Unused(a) == ~Live(a) /\ \A b \in Attempt : Live(b) => session[b] # a

\* Nothing else runs while the continuation of an answered POST is queued.
Quiet == \A a \in Attempt : at[a] # "granted"

\* The mounted page listens to the service's events.
Hears == mounted # None /\ subs[mounted] > 0

\* What connect takes for "already connected", and what sendTerminalData asks
\* for before it sends.
Ready == cur # None /\ sock[cur] = "open" /\ term

-----------------------------------------------------------------------------
(***************************************************************************)
(* Parts of the handlers.                                                   *)
(***************************************************************************)

\* setState, and a call of connect that is refused at the same time: the hook
\* shows a refusal whether or not it listens.
Announce(s, refused) ==
    /\ state' = s
    /\ shown' = IF Hears /\ state # s THEN s ELSE shown
    /\ hook' = IF refused \/ (Hears /\ state # s) THEN s ELSE hook
    /\ UNCHANGED mounted

\* A call of connect ends.
End(a) ==
    /\ at' = [at EXCEPT ![a] = "idle"]
    /\ by' = [by EXCEPT ![a] = None]
    /\ UNCHANGED session

\* An error ends the call of connect that waits for this socket.
Refuses(a) == at[a] = "waiting" /\ by[a] = mounted
EndIfWaiting(a) == IF at[a] = "waiting" THEN End(a) ELSE UNCHANGED calls

\* A socket's connection is gone, with all that was under way on it.
Cut(a, s) ==
    /\ sock' = [sock EXCEPT ![a] = s]
    /\ asks' = [asks EXCEPT ![a] = 0]
    /\ risk' = [risk EXCEPT ![a] = FALSE]
    /\ made' = [made EXCEPT ![a] = FALSE]

\* WebShellService.disconnect.
Disconnect ==
    /\ IF cur = None THEN UNCHANGED links ELSE Cut(cur, "none")
    /\ cur' = None
    /\ term' = FALSE
    /\ state' = "disconnected"
    /\ subs' = [p \in Page |-> 0]

\* disconnect tells the page before it clears the listeners: setState when the
\* state changes, the disconnect event of an open socket in any case.
Told == Hears /\ (state # "disconnected" \/ sock[cur] = "open")

\* Mutant of Joined: the listeners of an earlier call are kept.
JoinedTwice(p) == [subs EXCEPT ![p] = @ + 1]

\* The hook cleans up its listeners and subscribes.
Joined(p) == [subs EXCEPT ![p] = 1]

-----------------------------------------------------------------------------
(***************************************************************************)
(* What the user does.                                                      *)
(***************************************************************************)

\* A new page takes the name of one that has no call under way; what that one
\* may have left subscribed has nothing to show its state on.
Mount(p) ==
    /\ Quiet
    /\ mounted = None
    /\ \A a \in Attempt : by[a] # p
    /\ mounted' = p
    /\ subs' = [subs EXCEPT ![p] = 0]
    /\ UNCHANGED <<calls, links, cur, term, state, hook, shown>>

Unmount == mounted' = None /\ hook' = "disconnected" /\ shown' = "disconnected"

\* Any way out of the page but the disconnect buttons.
Leave ==
    /\ Quiet
    /\ mounted # None
    /\ subs' = [subs EXCEPT ![mounted] = 0]
    /\ Unmount
    /\ UNCHANGED <<calls, links, cur, term, state>>

\* A button that disconnects and leaves the page.
ClickDisconnect ==
    /\ Quiet
    /\ mounted # None
    /\ Disconnect
    /\ Unmount
    /\ UNCHANGED calls

\* The buttons "连接" and "重连".
CanConnect == Quiet /\ mounted # None /\ shown \notin {"connecting", "connected"}

\* Mutant of Resume: the state at hand is not passed to a new subscriber.
ResumeSilent ==
    /\ CanConnect /\ Ready
    /\ subs' = Joined(mounted)
    /\ UNCHANGED <<calls, links, cur, term, state, page>>

\* connect returns at once and the hook subscribes.
Resume ==
    /\ CanConnect /\ Ready
    /\ subs' = Joined(mounted)
    /\ hook' = state
    /\ shown' = state
    /\ UNCHANGED <<calls, links, cur, term, state, mounted>>

\* connect closes the socket there is and posts for a session; the request
\* deduplicator lets it join a post that is under way.
Connect(a) ==
    /\ CanConnect /\ ~Ready /\ Unused(a)
    /\ at' = [at EXCEPT ![a] = "posting"]
    /\ by' = [by EXCEPT ![a] = mounted]
    /\ \E s \in {a} \cup {session[b] : b \in {b \in Attempt : at[b] = "posting"}} :
          session' = [session EXCEPT ![a] = s]
    /\ IF cur = None
       THEN /\ hook' = "connecting"
            /\ UNCHANGED <<links, service, shown>>
       ELSE /\ Disconnect
            /\ hook' = IF Told THEN "disconnected" ELSE "connecting"
            /\ shown' = IF Told THEN "disconnected" ELSE shown
    /\ UNCHANGED mounted

\* Typing and resizing; input needs Ready, a new size an open socket.
Send ==
    /\ Quiet
    /\ mounted # None /\ hook = "connected"
    /\ cur # None /\ sock[cur] = "open"
    /\ risk' = [risk EXCEPT ![cur] = TRUE]
    /\ UNCHANGED <<calls, sock, asks, made, service, page>>

-----------------------------------------------------------------------------
(***************************************************************************)
(* The course of a call of connect.                                         *)
(***************************************************************************)

Posting(s) == {a \in Attempt : at[a] = "posting" /\ session[a] = s}

Posted(s) ==
    /\ Quiet
    /\ at[s] = "posting" /\ session[s] = s
    /\ at' = [a \in Attempt |-> IF a \in Posting(s) THEN "granted" ELSE at[a]]
    /\ UNCHANGED <<by, session, links, service, page>>

PostFails(s) ==
    /\ Quiet
    /\ at[s] = "posting" /\ session[s] = s
    /\ at' = [a \in Attempt |-> IF a \in Posting(s) THEN "idle" ELSE at[a]]
    /\ by' = [a \in Attempt |-> IF a \in Posting(s) THEN None ELSE by[a]]
    /\ hook' = IF \E a \in Posting(s) : by[a] = mounted THEN "error" ELSE hook
    /\ UNCHANGED <<session, links, service, mounted, shown>>

\* The session's socket takes the place of the one there is, which is not
\* closed; the caller of the post goes on before those who joined it.
GoOn(a) ==
    /\ at[a] = "granted"
    /\ a = session[a] \/ at[session[a]] # "granted"
    /\ at' = [at EXCEPT ![a] = "waiting"]
    /\ sock' = [sock EXCEPT ![a] = "opening"]
    /\ cur' = a
    /\ Announce("connecting", FALSE)
    /\ UNCHANGED <<by, session, asks, risk, made, term, subs>>

\* The 30 seconds of a call are over.
Timeout(a) ==
    /\ Quiet
    /\ at[a] = "waiting"
    /\ End(a)
    /\ hook' = IF Refuses(a) THEN "error" ELSE hook
    /\ UNCHANGED <<links, service, mounted, shown>>

-----------------------------------------------------------------------------
(***************************************************************************)
(* Events of the sockets.                                                   *)
(***************************************************************************)

\* createTerminal asks for the terminal of a's session over the service's
\* socket, whichever that is.
AskFor(a, n) ==
    IF session[cur] = session[a]
    THEN /\ asks[cur] + n <= MaxAsks
         /\ asks' = [asks EXCEPT ![cur] = @ + n]
         /\ UNCHANGED risk
    ELSE /\ risk' = [risk EXCEPT ![cur] = TRUE]
         /\ UNCHANGED asks

\* Mutant of Opened: createTerminal does not look whether the socket is open.
OpenedAny(a) ==
    /\ Quiet
    /\ sock[a] \in {"opening", "retrying"}
    /\ sock' = [sock EXCEPT ![a] = "open"]
    /\ IF cur # None THEN AskFor(a, 1) ELSE UNCHANGED <<asks, risk>>
    /\ UNCHANGED <<calls, made, service, page>>

\* The connect event.  Of a reopened socket the reconnect event comes first;
\* it asks as well, unless the socket is the service's own, which is not
\* connected yet.
Opened(a) ==
    /\ Quiet
    /\ sock[a] \in {"opening", "retrying"}
    /\ sock' = [sock EXCEPT ![a] = "open"]
    /\ IF cur = a \/ (cur # None /\ sock[cur] = "open")
       THEN AskFor(a, IF cur # a /\ sock[a] = "retrying" THEN 2 ELSE 1)
       ELSE UNCHANGED <<asks, risk>>
    /\ UNCHANGED <<calls, made, service, page>>

\* connect_error: socket.io tries again unless the server denies the socket.
OpenFails(a) ==
    /\ Quiet
    /\ sock[a] \in {"opening", "retrying"}
    /\ \E s \in {"lost", "none"} : sock' = [sock EXCEPT ![a] = s]
    /\ EndIfWaiting(a)
    /\ Announce("error", Refuses(a))
    /\ UNCHANGED <<asks, risk, made, cur, term, subs>>

\* Mutant of Lost: only the service's own socket is listened to.
LostOwn(a) ==
    /\ Quiet
    /\ sock[a] = "open"
    /\ Cut(a, "lost")
    /\ IF a = cur
       THEN /\ term' = FALSE
            /\ state' = "disconnected"
            /\ hook' = IF Hears THEN "disconnected" ELSE hook
            /\ shown' = IF Hears THEN "disconnected" ELSE shown
       ELSE UNCHANGED <<term, state, hook, shown>>
    /\ UNCHANGED <<calls, cur, subs, mounted>>

\* The disconnect event of any socket is announced, changed or not.
Lost(a) ==
    /\ Quiet
    /\ sock[a] = "open"
    /\ Cut(a, "lost")
    /\ term' = FALSE
    /\ state' = "disconnected"
    /\ hook' = IF Hears THEN "disconnected" ELSE hook
    /\ shown' = IF Hears THEN "disconnected" ELSE shown
    /\ UNCHANGED <<calls, cur, subs, mounted>>

Retry(a) ==
    /\ Quiet
    /\ sock[a] = "lost"
    /\ sock' = [sock EXCEPT ![a] = "retrying"]
    /\ Announce("reconnecting", FALSE)
    /\ UNCHANGED <<calls, asks, risk, made, cur, term, subs>>

\* reconnect_failed.
GiveUp(a) ==
    /\ Quiet
    /\ sock[a] = "lost"
    /\ sock' = [sock EXCEPT ![a] = "none"]
    /\ Announce("error", FALSE)
    /\ UNCHANGED <<calls, asks, risk, made, cur, term, subs>>

\* webshell_terminal_created; the page that waits for it subscribes, mounted
\* or not.
Created(a) ==
    /\ Quiet
    /\ sock[a] = "open" /\ asks[a] > 0
    /\ asks' = [asks EXCEPT ![a] = @ - 1]
    /\ made' = [made EXCEPT ![a] = TRUE]
    /\ term' = TRUE
    /\ EndIfWaiting(a)
    /\ IF at[a] = "waiting"
       THEN /\ subs' = Joined(by[a])
            /\ state' = "connected"
            /\ hook' = IF (Hears /\ state # "connected") \/ Refuses(a) THEN "connected" ELSE hook
            /\ shown' = IF (Hears /\ state # "connected") \/ Refuses(a) THEN "connected" ELSE shown
            /\ UNCHANGED mounted
       ELSE Announce("connected", FALSE) /\ UNCHANGED subs
    /\ UNCHANGED <<sock, risk, cur>>

\* webshell_error, for a terminal that is not created or for input.
Refused(a) ==
    /\ Quiet
    /\ sock[a] = "open"
    /\ \/ asks[a] > 0 /\ asks' = [asks EXCEPT ![a] = @ - 1] /\ UNCHANGED risk
       \/ risk[a] /\ risk' = [risk EXCEPT ![a] = FALSE] /\ UNCHANGED asks
    /\ EndIfWaiting(a)
    /\ Announce("error", Refuses(a))
    /\ UNCHANGED <<sock, made, cur, term, subs>>

-----------------------------------------------------------------------------
User ==
    \/ \E p \in Page : Mount(p)
    \/ Leave \/ ClickDisconnect \/ Resume \/ Send
    \/ \E a \in Attempt : Connect(a)

Event(a) ==
    \/ Posted(a) \/ PostFails(a) \/ GoOn(a) \/ Timeout(a)
    \/ Opened(a) \/ OpenFails(a) \/ Lost(a) \/ Retry(a) \/ GiveUp(a)
    \/ Created(a) \/ Refused(a)

Next == User \/ \E a \in Attempt : Event(a)

Spec == Init /\ [][Next]_vars

-----------------------------------------------------------------------------
\* The shapes of the state; only an open socket has requests under way, and a
\* call under way belongs to a page (services/webshell.ts:26-33).
TypeOK ==
    /\ at \in [Attempt -> {"idle", "posting", "granted", "waiting"}]
    /\ by \in [Attempt -> Page \cup {None}]
    /\ \A a \in Attempt : at[a] # "idle" <=> by[a] # None
    /\ session \in [Attempt -> Attempt]
    /\ sock \in [Attempt -> Sock]
    /\ asks \in [Attempt -> 0..MaxAsks]
    /\ risk \in [Attempt -> BOOLEAN]
    /\ made \in [Attempt -> BOOLEAN]
    /\ \A a \in Attempt : asks[a] > 0 \/ risk[a] \/ made[a] => sock[a] = "open"
    /\ cur \in Attempt \cup {None}
    /\ term \in BOOLEAN
    /\ state \in State
    /\ subs \in [Page -> Nat]
    /\ mounted \in Page \cup {None}
    /\ hook \in State
    /\ shown \in State

\* A page that is subscribed shows the service's state, whichever socket or
\* call last wrote it; the hook, which calls of connect set as well, never
\* lets input through in another state (hooks/useWebShell.ts:92-97, 117, 167).
PageShowsService ==
    /\ Hears => shown = state
    /\ mounted # None /\ hook = "connected" => Hears /\ state = "connected"

\* However calls of connect overlap, a page is subscribed once, so output is
\* written once (hooks/useWebShell.ts:84-90).
OneSubscription == \A p \in Page : subs[p] <= 1

\* The service is connected, and lets input through, only while a socket on which
\* a terminal was created is open, although sockets it no longer holds write its
\* state too (services/webshell.ts:109-120, 155-163).  Whether the terminal still
\* lives is not said: a bridge that dies reports nothing to the client.
ConnectedHasTerminal ==
    state = "connected" \/ term => \E a \in Attempt : sock[a] = "open" /\ made[a]
=============================================================================
