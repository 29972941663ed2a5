--------------------------- MODULE WebShellProofs ---------------------------
(***************************************************************************)
(* The safety of the WebShell page for any number of overlapping calls of   *)
(* connect, sockets and pages.  The invariants of WebShell are inductive    *)
(* once two facts are added: a call that has no answer yet has no socket,   *)
(* and the hook of a page that is not mounted is as at the start.           *)
(***************************************************************************)
EXTENDS WebShell, TLAPS

CallsTyped ==
    /\ at \in [Attempt -> {"idle", "posting", "granted", "waiting"}]
    /\ by \in [Attempt -> Page \cup {None}]
    /\ \A a \in Attempt : at[a] # "idle" <=> by[a] # None
    /\ session \in [Attempt -> Attempt]

LinksTyped ==
    /\ sock \in [Attempt -> Sock]
    /\ asks \in [Attempt -> 0..MaxAsks]
    /\ risk \in [Attempt -> BOOLEAN]
    /\ made \in [Attempt -> BOOLEAN]

OpenOnly == \A a \in Attempt : asks[a] > 0 \/ risk[a] \/ made[a] => sock[a] = "open"

ServiceTyped ==
    /\ cur \in Attempt \cup {None}
    /\ term \in BOOLEAN
    /\ state \in State
    /\ subs \in [Page -> Nat]

PageTyped ==
    /\ mounted \in Page \cup {None}
    /\ hook \in State
    /\ shown \in State

\* A call whose POST is not answered has no socket.
NoSocketYet == \A a \in Attempt : at[a] \in {"posting", "granted"} => sock[a] = "none"

\* Between two pages the hook is as at the start.
Unmounted == mounted = None => hook = "disconnected"

Inv ==
    /\ CallsTyped /\ LinksTyped /\ OpenOnly /\ ServiceTyped /\ PageTyped
    /\ NoSocketYet /\ Unmounted
    /\ PageShowsService /\ OneSubscription /\ ConnectedHasTerminal

-----------------------------------------------------------------------------
\* A call that ends is idle and belongs to no page.
LEMMA Ending ==
    ASSUME CallsTyped, NoSocketYet, NEW a \in Attempt, End(a),
           \A b \in Attempt : b = a \/ sock[b] # "none" \/ sock'[b] = sock[b]
    PROVE  CallsTyped' /\ NoSocketYet'
<1>1. /\ at' \in [Attempt -> {"idle", "posting", "granted", "waiting"}]
      /\ by' \in [Attempt -> Page \cup {None}]
      /\ session' \in [Attempt -> Attempt]
  BY DEF End, CallsTyped
<1>2. \A b \in Attempt : /\ at'[b] = IF b = a THEN "idle" ELSE at[b]
                         /\ by'[b] = IF b = a THEN None ELSE by[b]
  BY DEF End, CallsTyped
<1>3. \A b \in Attempt : at'[b] # "idle" <=> by'[b] # None
  BY <1>2 DEF CallsTyped
<1>4. NoSocketYet'
  BY <1>2 DEF NoSocketYet
<1> QED BY <1>1, <1>3, <1>4 DEF CallsTyped

\* A connection that goes takes with it what was under way on it.
LEMMA Cutting ==
    ASSUME LinksTyped, OpenOnly, NEW a \in Attempt, NEW s \in Sock, Cut(a, s)
    PROVE  /\ LinksTyped' /\ OpenOnly'
           /\ \A b \in Attempt : sock'[b] = IF b = a THEN s ELSE sock[b]
<1>1. /\ sock' \in [Attempt -> Sock]
      /\ asks' \in [Attempt -> 0..MaxAsks]
  BY MaxAsksAssumption DEF Cut, LinksTyped
<1>2. risk' \in [Attempt -> BOOLEAN] /\ made' \in [Attempt -> BOOLEAN]
  BY DEF Cut, LinksTyped
<1>3. \A b \in Attempt : sock'[b] = IF b = a THEN s ELSE sock[b]
  BY DEF Cut, LinksTyped
<1>4. ASSUME NEW b \in Attempt, asks'[b] > 0 \/ risk'[b] \/ made'[b]
      PROVE  sock'[b] = "open"
  <2>1. b # a
    BY <1>4 DEF Cut, LinksTyped
  <2>2. asks'[b] = asks[b] /\ risk'[b] = risk[b] /\ made'[b] = made[b]
    BY <2>1 DEF Cut, LinksTyped
  <2> QED BY <1>3, <1>4, <2>1, <2>2 DEF OpenOnly
<1> QED BY <1>1, <1>2, <1>3, <1>4 DEF LinksTyped, OpenOnly

\* A socket that is not open changes to a state that is not open, or opens.
LEMMA Moving ==
    ASSUME LinksTyped, OpenOnly, NEW a \in Attempt, NEW s \in Sock, sock[a] # "open",
           sock' = [sock EXCEPT ![a] = s], UNCHANGED <<asks, risk, made>>
    PROVE  /\ LinksTyped' /\ OpenOnly'
           /\ \A b \in Attempt : sock'[b] = IF b = a THEN s ELSE sock[b]
           /\ ConnectedHasTerminal /\ UNCHANGED term /\ (state' = "connected" => state = "connected")
                => ConnectedHasTerminal'
<1>1. sock' \in [Attempt -> Sock] /\ \A b \in Attempt : sock'[b] = IF b = a THEN s ELSE sock[b]
  BY DEF LinksTyped
<1>2. LinksTyped' /\ OpenOnly'
  BY <1>1 DEF LinksTyped, OpenOnly
<1>3. ASSUME ConnectedHasTerminal, UNCHANGED term, state' = "connected" => state = "connected"
      PROVE  ConnectedHasTerminal'
  BY <1>1, <1>3 DEF ConnectedHasTerminal
<1> QED BY <1>1, <1>2, <1>3

\* setState to anything but connected; a refusal reaches a mounted page only.
LEMMA Announcing ==
    ASSUME ServiceTyped, PageTyped, Unmounted, PageShowsService,
           NEW s \in State, s # "connected", NEW refused \in BOOLEAN, refused => mounted # None,
           Announce(s, refused), UNCHANGED <<cur, term, subs>>
    PROVE  ServiceTyped' /\ PageTyped' /\ Unmounted' /\ PageShowsService' /\ state' = s
<1>1. state' = s /\ mounted' = mounted /\ Hears' = Hears
  BY DEF Announce, Hears
<1>2. ServiceTyped' /\ PageTyped'
  BY <1>1 DEF Announce, ServiceTyped, PageTyped
<1>3. Unmounted'
  BY <1>1 DEF Announce, Unmounted, Hears
<1>4. PageShowsService'
  BY <1>1 DEF Announce, PageShowsService
<1> QED BY <1>1, <1>2, <1>3, <1>4

\* disconnect leaves no subscription and a state that is not connected.
LEMMA Disconnecting ==
    ASSUME Inv, Disconnect
    PROVE  /\ LinksTyped' /\ OpenOnly' /\ ServiceTyped' /\ OneSubscription' /\ ConnectedHasTerminal'
           /\ ~Hears' \/ mounted' # mounted
           /\ \A p \in Page : subs'[p] = 0
           /\ \A b \in Attempt : sock'[b] = "none" \/ sock'[b] = sock[b]
<1>1. /\ LinksTyped' /\ OpenOnly'
      /\ \A b \in Attempt : sock'[b] = "none" \/ sock'[b] = sock[b]
  <2>1. CASE cur = None
    BY <2>1 DEF Disconnect, Inv, links, LinksTyped, OpenOnly
  <2>2. CASE cur # None
    BY <2>2, Cutting DEF Disconnect, Inv, ServiceTyped, Sock
  <2> QED BY <2>1, <2>2
<1>2. \A p \in Page : subs'[p] = 0
  BY DEF Disconnect
<1>3. ServiceTyped' /\ OneSubscription' /\ ConnectedHasTerminal'
  <2>1. cur' = None /\ term' = FALSE /\ state' = "disconnected" /\ subs' \in [Page -> Nat]
    BY DEF Disconnect
  <2>2. ServiceTyped'
    BY <2>1 DEF ServiceTyped, State
  <2>3. OneSubscription'
    BY <1>2 DEF OneSubscription
  <2>4. ConnectedHasTerminal'
    BY <2>1, Zenon DEF ConnectedHasTerminal
  <2> QED BY <2>2, <2>3, <2>4
<1>4. mounted' = mounted => ~Hears'
  BY <1>2 DEF Hears, Inv, PageTyped
<1> QED BY <1>1, <1>2, <1>3, <1>4

-----------------------------------------------------------------------------
LEMMA Initially == Init => Inv
<1> SUFFICES ASSUME Init PROVE Inv
  OBVIOUS
<1>1. CallsTyped /\ PageTyped
  BY DEF Init, CallsTyped, PageTyped, State
<1>4. ServiceTyped
  BY DEF Init, ServiceTyped, State
<1>5. OpenOnly
  BY DEF Init, OpenOnly
<1>2. LinksTyped
  BY MaxAsksAssumption DEF Init, LinksTyped, Sock
<1>3. NoSocketYet /\ Unmounted /\ PageShowsService /\ OneSubscription /\ ConnectedHasTerminal
  BY DEF Init, NoSocketYet, Unmounted, PageShowsService, OneSubscription, ConnectedHasTerminal, Hears
<1> QED BY <1>1, <1>2, <1>3, <1>4, <1>5 DEF Inv

\* Mounting and leaving a page.
LEMMA Pages ==
    ASSUME Inv, (\E p \in Page : Mount(p)) \/ Leave \/ ClickDisconnect
    PROVE  Inv'
<1> USE DEF Inv
<1>1. ASSUME NEW p \in Page, Mount(p)
      PROVE  Inv'
  <2>1. UNCHANGED <<calls, links, cur, term, state>>
    BY <1>1 DEF Mount
  <2>2. CallsTyped' /\ LinksTyped' /\ OpenOnly' /\ NoSocketYet'
    BY <2>1 DEF calls, links, CallsTyped, LinksTyped, OpenOnly, NoSocketYet
  <2>3. ConnectedHasTerminal'
    BY <2>1 DEF links, ConnectedHasTerminal
  <2>4. ServiceTyped' /\ OneSubscription'
    BY <1>1, <2>1 DEF Mount, ServiceTyped, OneSubscription
  <2>5. mounted' = p /\ ~Hears' /\ hook' = "disconnected" /\ p # None
    BY <1>1, NoneAssumption DEF Mount, Hears, ServiceTyped, Unmounted
  <2>6. PageTyped' /\ Unmounted' /\ PageShowsService'
    BY <1>1, <2>5 DEF Mount, PageTyped, Unmounted, PageShowsService, State
  <2> QED BY <2>2, <2>3, <2>4, <2>6
<1>2. CASE Leave
  <2>1. UNCHANGED <<calls, links, cur, term, state>>
    BY <1>2 DEF Leave
  <2>2. CallsTyped' /\ LinksTyped' /\ OpenOnly' /\ NoSocketYet'
    BY <2>1 DEF calls, links, CallsTyped, LinksTyped, OpenOnly, NoSocketYet
  <2>3. ConnectedHasTerminal'
    BY <2>1 DEF links, ConnectedHasTerminal
  <2>4. ServiceTyped' /\ OneSubscription'
    <3>1. mounted \in Page /\ subs' = [subs EXCEPT ![mounted] = 0]
      BY <1>2 DEF Leave, PageTyped
    <3>2. subs' \in [Page -> Nat] /\ OneSubscription'
      BY <3>1 DEF ServiceTyped, OneSubscription
    <3> QED BY <2>1, <3>2 DEF ServiceTyped
  <2>5. PageTyped' /\ Unmounted' /\ PageShowsService'
    BY <1>2 DEF Leave, Unmount, PageTyped, Unmounted, PageShowsService, Hears, State
  <2> QED BY <2>2, <2>3, <2>4, <2>5
<1>3. CASE ClickDisconnect
  <2>1. /\ LinksTyped' /\ OpenOnly' /\ ServiceTyped' /\ OneSubscription' /\ ConnectedHasTerminal'
        /\ \A b \in Attempt : sock'[b] = "none" \/ sock'[b] = sock[b]
    BY <1>3, Disconnecting DEF ClickDisconnect
  <2>2. CallsTyped' /\ NoSocketYet'
    BY <1>3, <2>1 DEF ClickDisconnect, calls, CallsTyped, NoSocketYet
  <2>3. PageTyped' /\ Unmounted' /\ PageShowsService'
    BY <1>3 DEF ClickDisconnect, Unmount, PageTyped, Unmounted, PageShowsService, Hears, State
  <2> QED BY <2>1, <2>2, <2>3
<1> QED BY <1>1, <1>2, <1>3

\* Connecting and typing.
LEMMA Clicks ==
    ASSUME Inv, Resume \/ Send \/ (\E a \in Attempt : Connect(a))
    PROVE  Inv'
<1> USE DEF Inv
<1>1. CASE Resume
  <2>1. UNCHANGED <<calls, links, cur, term, state, mounted>> /\ mounted \in Page
    BY <1>1 DEF Resume, CanConnect, PageTyped
  <2>2. CallsTyped' /\ LinksTyped' /\ OpenOnly' /\ NoSocketYet'
    BY <2>1 DEF calls, links, CallsTyped, LinksTyped, OpenOnly, NoSocketYet
  <2>3. ConnectedHasTerminal'
    BY <2>1 DEF links, ConnectedHasTerminal
  <2>4. subs' \in [Page -> Nat] /\ subs'[mounted] = 1 /\ OneSubscription'
    BY <1>1, <2>1 DEF Resume, Joined, ServiceTyped, OneSubscription
  <2>5. ServiceTyped' /\ PageTyped'
    BY <1>1, <2>1, <2>4 DEF Resume, ServiceTyped, PageTyped
  <2>6. Hears'
    BY <2>1, <2>4, NoneAssumption DEF Hears
  <2>7. Unmounted' /\ PageShowsService'
    BY <1>1, <2>1, <2>6, NoneAssumption DEF Resume, Unmounted, PageShowsService
  <2> QED BY <2>2, <2>3, <2>4, <2>5, <2>7
<1>2. CASE Send
  <2>1. UNCHANGED <<calls, sock, asks, made, service, page>>
    BY <1>2 DEF Send
  <2>2. risk' \in [Attempt -> BOOLEAN] /\ \A a \in Attempt : risk'[a] => risk[a] \/ sock[a] = "open"
    BY <1>2 DEF Send, LinksTyped
  <2>3. CallsTyped' /\ LinksTyped' /\ OpenOnly' /\ NoSocketYet'
    BY <2>1, <2>2 DEF calls, CallsTyped, LinksTyped, OpenOnly, NoSocketYet
  <2>4. ConnectedHasTerminal'
    BY <2>1 DEF service, ConnectedHasTerminal
  <2> QED
    BY <2>1, <2>3, <2>4 DEF service, page, ServiceTyped, PageTyped, Unmounted, PageShowsService,
         OneSubscription, Hears
<1>3. ASSUME NEW a \in Attempt, Connect(a)
      PROVE  Inv'
  <2>1. mounted \in Page /\ mounted # None /\ sock[a] = "none"
    BY <1>3 DEF Connect, CanConnect, PageTyped, Unused, Live
  <2>2. PICK s \in {a} \cup {session[b] : b \in {b \in Attempt : at[b] = "posting"}} :
              session' = [session EXCEPT ![a] = s]
    BY <1>3 DEF Connect
  <2>3. s \in Attempt
    BY <2>2 DEF CallsTyped
  <2>4. /\ at' \in [Attempt -> {"idle", "posting", "granted", "waiting"}]
        /\ by' \in [Attempt -> Page \cup {None}]
        /\ session' \in [Attempt -> Attempt]
        /\ \A b \in Attempt : at'[b] = (IF b = a THEN "posting" ELSE at[b])
                            /\ by'[b] = (IF b = a THEN mounted ELSE by[b])
    BY <1>3, <2>1, <2>2, <2>3 DEF Connect, CallsTyped
  <2>5. CallsTyped'
    BY <2>1, <2>4 DEF CallsTyped
  <2>6. CASE cur = None
    <3>1. UNCHANGED <<links, service, shown, mounted>> /\ hook' = "connecting"
      BY <1>3, <2>6 DEF Connect
    <3>2. LinksTyped' /\ OpenOnly' /\ NoSocketYet'
      BY <2>1, <2>4, <3>1 DEF links, LinksTyped, OpenOnly, NoSocketYet
    <3>3. ConnectedHasTerminal'
      BY <3>1 DEF links, service, ConnectedHasTerminal
    <3> QED
      BY <2>1, <2>5, <3>1, <3>2, <3>3 DEF service, ServiceTyped, PageTyped, Unmounted,
           PageShowsService, OneSubscription, Hears, State
  <2>7. CASE cur # None
    <3>1. /\ Disconnect /\ mounted' = mounted
          /\ hook' \in {"disconnected", "connecting"} /\ shown' \in {"disconnected", shown}
      BY <1>3, <2>7 DEF Connect
    <3>2. /\ LinksTyped' /\ OpenOnly' /\ ServiceTyped' /\ OneSubscription' /\ ConnectedHasTerminal'
          /\ ~Hears'
          /\ \A b \in Attempt : sock'[b] = "none" \/ sock'[b] = sock[b]
      BY <3>1, Disconnecting
    <3>3. NoSocketYet'
      BY <2>1, <2>4, <3>2 DEF NoSocketYet
    <3>4. PageTyped' /\ Unmounted' /\ PageShowsService'
      BY <2>1, <3>1, <3>2 DEF PageTyped, Unmounted, PageShowsService, State
    <3> QED BY <2>5, <3>2, <3>3, <3>4
  <2> QED BY <2>6, <2>7
<1> QED BY <1>1, <1>2, <1>3

\* The POST of a session is answered, and its callers go on.
LEMMA Posts ==
    ASSUME Inv, NEW a \in Attempt, Posted(a) \/ PostFails(a) \/ GoOn(a) \/ Timeout(a)
    PROVE  Inv'
<1> USE DEF Inv
<1>1. CASE Posted(a)
  <2>1. UNCHANGED <<by, session, links, service, page>>
    BY <1>1 DEF Posted
  <2>2. /\ at' \in [Attempt -> {"idle", "posting", "granted", "waiting"}]
        /\ \A b \in Attempt : at'[b] = IF b \in Posting(a) THEN "granted" ELSE at[b]
    BY <1>1 DEF Posted, CallsTyped
  <2>3. CallsTyped' /\ NoSocketYet'
    BY <2>1, <2>2 DEF CallsTyped, NoSocketYet, Posting, links
  <2>4. LinksTyped' /\ OpenOnly' /\ ConnectedHasTerminal'
    BY <2>1 DEF links, service, LinksTyped, OpenOnly, ConnectedHasTerminal
  <2> QED
    BY <2>1, <2>3, <2>4 DEF service, page, ServiceTyped, PageTyped, Unmounted, PageShowsService,
         OneSubscription, Hears
<1>2. CASE PostFails(a)
  <2>1. UNCHANGED <<session, links, service, mounted, shown>>
    BY <1>2 DEF PostFails
  <2>2. /\ at' \in [Attempt -> {"idle", "posting", "granted", "waiting"}]
        /\ by' \in [Attempt -> Page \cup {None}]
        /\ \A b \in Attempt : /\ at'[b] = (IF b \in Posting(a) THEN "idle" ELSE at[b])
                            /\ by'[b] = (IF b \in Posting(a) THEN None ELSE by[b])
    BY <1>2 DEF PostFails, CallsTyped
  <2>3. CallsTyped' /\ NoSocketYet'
    BY <2>1, <2>2 DEF CallsTyped, NoSocketYet, links
  <2>4. LinksTyped' /\ OpenOnly' /\ ConnectedHasTerminal'
    BY <2>1 DEF links, service, LinksTyped, OpenOnly, ConnectedHasTerminal
  <2>5. hook' = hook \/ (hook' = "error" /\ mounted # None)
    BY <1>2 DEF PostFails, Posting, CallsTyped
  <2> QED
    BY <2>1, <2>3, <2>4, <2>5 DEF service, ServiceTyped, PageTyped, Unmounted, PageShowsService,
         OneSubscription, Hears, State
<1>3. CASE GoOn(a)
  <2>1. UNCHANGED <<by, session, asks, risk, made, term, subs>> /\ at[a] = "granted" /\ cur' = a
    BY <1>3 DEF GoOn
  <2>2. sock[a] = "none" /\ sock' = [sock EXCEPT ![a] = "opening"]
    BY <1>3, <2>1 DEF GoOn, NoSocketYet
  <2>3. Announce("connecting", FALSE)
    BY <1>3 DEF GoOn
  <2>4. ServiceTyped' /\ PageTyped' /\ Unmounted' /\ PageShowsService' /\ state' = "connecting"
    <3>1. state' = "connecting" /\ mounted' = mounted /\ Hears' = Hears
      BY <2>1, <2>3 DEF Announce, Hears
    <3>2. ServiceTyped'
      BY <2>1, <3>1 DEF ServiceTyped, State
    <3>3. PageTyped' /\ Unmounted' /\ PageShowsService'
      BY <2>3, <3>1 DEF Announce, PageTyped, Unmounted, PageShowsService, State, Hears
    <3> QED BY <3>1, <3>2, <3>3
  <2>5. LinksTyped' /\ OpenOnly' /\ ConnectedHasTerminal'
    BY <2>1, <2>2, <2>4, Moving DEF Sock
  <2>6. /\ at' \in [Attempt -> {"idle", "posting", "granted", "waiting"}]
        /\ \A b \in Attempt : /\ at'[b] = (IF b = a THEN "waiting" ELSE at[b])
                            /\ sock'[b] = (IF b = a THEN "opening" ELSE sock[b])
    BY <1>3, <2>2 DEF GoOn, CallsTyped, LinksTyped
  <2>7. CallsTyped' /\ NoSocketYet'
    BY <2>1, <2>6 DEF CallsTyped, NoSocketYet
  <2> QED BY <2>1, <2>4, <2>5, <2>7 DEF OneSubscription
<1>4. CASE Timeout(a)
  <2>1. UNCHANGED <<links, service, mounted, shown>> /\ End(a)
    BY <1>4 DEF Timeout
  <2>2. CallsTyped' /\ NoSocketYet'
    BY <2>1, Ending DEF links
  <2>3. LinksTyped' /\ OpenOnly' /\ ConnectedHasTerminal'
    BY <2>1 DEF links, service, LinksTyped, OpenOnly, ConnectedHasTerminal
  <2>4. hook' = hook \/ (hook' = "error" /\ mounted # None)
    BY <1>4 DEF Timeout, Refuses, CallsTyped
  <2> QED
    BY <2>1, <2>2, <2>3, <2>4 DEF service, ServiceTyped, PageTyped, Unmounted, PageShowsService,
         OneSubscription, Hears, State
<1> QED BY <1>1, <1>2, <1>3, <1>4

\* What an error does to the call that waits for the socket.
LEMMA Failing ==
    ASSUME Inv, NEW a \in Attempt, EndIfWaiting(a), Announce("error", Refuses(a)),
           UNCHANGED <<cur, term, subs>>,
           \A b \in Attempt : b = a \/ sock'[b] = sock[b],
           sock[a] # "none"
    PROVE  /\ CallsTyped' /\ NoSocketYet' /\ ServiceTyped' /\ PageTyped' /\ Unmounted'
           /\ PageShowsService' /\ OneSubscription' /\ state' = "error"
<1> USE DEF Inv
<1>1. CallsTyped' /\ NoSocketYet'
  <2>1. CASE at[a] = "waiting"
    BY <2>1, Ending DEF EndIfWaiting
  <2>2. CASE at[a] # "waiting"
    <3>1. UNCHANGED calls
      BY <2>2 DEF EndIfWaiting
    <3>2. at[a] \notin {"posting", "granted"}
      BY DEF NoSocketYet
    <3> QED BY <3>1, <3>2 DEF calls, CallsTyped, NoSocketYet
  <2> QED BY <2>1, <2>2
<1>2. Refuses(a) \in BOOLEAN /\ (Refuses(a) => mounted # None)
  BY DEF Refuses, CallsTyped
<1>3. ServiceTyped' /\ PageTyped' /\ Unmounted' /\ PageShowsService' /\ state' = "error"
  BY <1>2, Announcing DEF State
<1>4. OneSubscription'
  BY DEF OneSubscription
<1> QED BY <1>1, <1>3, <1>4

\* A socket opens, does not open, is tried again or given up.
LEMMA Opening ==
    ASSUME Inv, NEW a \in Attempt, Opened(a) \/ OpenFails(a) \/ Retry(a) \/ GiveUp(a)
    PROVE  Inv'
<1> USE DEF Inv
<1>1. CASE Opened(a)
  <2>1. UNCHANGED <<calls, made, service, page>> /\ sock[a] \in {"opening", "retrying"}
    BY <1>1 DEF Opened
  <2>2. /\ sock' \in [Attempt -> Sock]
        /\ \A b \in Attempt : sock'[b] = IF b = a THEN "open" ELSE sock[b]
    BY <1>1 DEF Opened, LinksTyped, Sock
  <2>3. /\ asks' \in [Attempt -> 0..MaxAsks] /\ risk' \in [Attempt -> BOOLEAN]
        /\ \A b \in Attempt : asks'[b] # asks[b] \/ risk'[b] # risk[b] => sock'[b] = "open"
    <3>1. CASE cur = a \/ (cur # None /\ sock[cur] = "open")
      <4>1. PICK n \in {1, 2} : AskFor(a, n)
        BY <1>1, <3>1 DEF Opened
      <4>2. cur \in Attempt /\ sock'[cur] = "open"
        BY <2>2, <3>1 DEF ServiceTyped
      <4>3. CASE session[cur] = session[a]
        <5>1. asks[cur] + n \in 0..MaxAsks
          BY <4>1, <4>2, <4>3, MaxAsksAssumption DEF AskFor, LinksTyped
        <5>2. asks' = [asks EXCEPT ![cur] = asks[cur] + n] /\ risk' = risk
          BY <4>1, <4>3 DEF AskFor
        <5> QED BY <4>2, <5>1, <5>2 DEF LinksTyped
      <4>4. CASE session[cur] # session[a]
        BY <4>1, <4>2, <4>4 DEF AskFor, LinksTyped
      <4> QED BY <4>3, <4>4
    <3>2. CASE ~(cur = a \/ (cur # None /\ sock[cur] = "open"))
      BY <1>1, <3>2 DEF Opened, LinksTyped
    <3> QED BY <3>1, <3>2
  <2>4. LinksTyped' /\ OpenOnly'
    BY <2>1, <2>2, <2>3 DEF LinksTyped, OpenOnly
  <2>5. ConnectedHasTerminal'
    BY <2>1, <2>2 DEF service, ConnectedHasTerminal
  <2>6. CallsTyped' /\ NoSocketYet'
    BY <2>1, <2>2 DEF calls, CallsTyped, NoSocketYet
  <2> QED
    BY <2>1, <2>4, <2>5, <2>6 DEF service, page, ServiceTyped, PageTyped, Unmounted,
         PageShowsService, OneSubscription, Hears
<1>2. CASE OpenFails(a)
  <2>1. PICK s \in {"lost", "none"} : sock' = [sock EXCEPT ![a] = s]
    BY <1>2 DEF OpenFails
  <2>2. /\ sock[a] \in {"opening", "retrying"} /\ EndIfWaiting(a) /\ Announce("error", Refuses(a))
        /\ UNCHANGED <<asks, risk, made, cur, term, subs>>
    BY <1>2 DEF OpenFails
  <2> s \in Sock /\ sock[a] # "open"
    BY <2>2 DEF Sock
  <2>3. LinksTyped' /\ OpenOnly' /\ \A b \in Attempt : b = a \/ sock'[b] = sock[b]
    BY <2>1, <2>2, Moving
  <2>4. /\ CallsTyped' /\ NoSocketYet' /\ ServiceTyped' /\ PageTyped' /\ Unmounted'
        /\ PageShowsService' /\ OneSubscription' /\ state' = "error"
    BY <2>2, <2>3, Failing
  <2>5. ConnectedHasTerminal'
    BY <2>1, <2>2, <2>4, Moving
  <2> QED BY <2>3, <2>4, <2>5
<1>3. ASSUME NEW s \in {"retrying", "none"}, NEW t \in {"reconnecting", "error"},
             sock[a] = "lost", sock' = [sock EXCEPT ![a] = s], Announce(t, FALSE),
             UNCHANGED <<calls, asks, risk, made, cur, term, subs>>
      PROVE  Inv'
  <2>1. ServiceTyped' /\ PageTyped' /\ Unmounted' /\ PageShowsService' /\ state' = t
    BY <1>3, Announcing DEF State
  <2> s \in Sock /\ sock[a] # "open"
    BY <1>3 DEF Sock
  <2>2. /\ LinksTyped' /\ OpenOnly' /\ ConnectedHasTerminal'
        /\ \A b \in Attempt : sock'[b] = IF b = a THEN s ELSE sock[b]
    BY <1>3, <2>1, Moving
  <2>3. CallsTyped' /\ NoSocketYet'
    BY <1>3, <2>2 DEF calls, CallsTyped, NoSocketYet
  <2> QED BY <1>3, <2>1, <2>2, <2>3 DEF OneSubscription
<1>4. CASE Retry(a)
  BY <1>3, <1>4 DEF Retry
<1>5. CASE GiveUp(a)
  BY <1>3, <1>5 DEF GiveUp
<1> QED BY <1>1, <1>2, <1>4, <1>5

\* An open socket is lost, or brings the server's answer.
LEMMA Answers ==
    ASSUME Inv, NEW a \in Attempt, Lost(a) \/ Created(a) \/ Refused(a)
    PROVE  Inv'
<1> USE DEF Inv
<1>1. sock[a] = "open" /\ at[a] \in {"idle", "waiting"}
  BY DEF Lost, Created, Refused, NoSocketYet, CallsTyped
<1>2. CASE Lost(a)
  <2>1. /\ UNCHANGED <<calls, cur, subs, mounted>> /\ term' = FALSE /\ state' = "disconnected"
        /\ hook' = (IF Hears THEN "disconnected" ELSE hook)
        /\ shown' = (IF Hears THEN "disconnected" ELSE shown)
    BY <1>2 DEF Lost
  <2>2. /\ LinksTyped' /\ OpenOnly'
        /\ \A b \in Attempt : sock'[b] = IF b = a THEN "lost" ELSE sock[b]
    BY <1>2, Cutting DEF Lost, Sock
  <2>3. CallsTyped' /\ NoSocketYet'
    BY <1>1, <2>1, <2>2 DEF calls, CallsTyped, NoSocketYet
  <2>4. ServiceTyped' /\ PageTyped' /\ Unmounted' /\ PageShowsService' /\ OneSubscription'
    BY <2>1 DEF ServiceTyped, PageTyped, Unmounted, PageShowsService, OneSubscription, Hears, State
  <2>5. ConnectedHasTerminal'
    BY <2>1, Zenon DEF ConnectedHasTerminal
  <2> QED BY <2>2, <2>3, <2>4, <2>5
<1>3. CASE Created(a)
  <2>1. /\ UNCHANGED <<sock, risk, cur, mounted>> /\ term' = TRUE /\ state' = "connected"
        /\ asks[a] > 0 /\ asks' = [asks EXCEPT ![a] = @ - 1] /\ made' = [made EXCEPT ![a] = TRUE]
    BY <1>3 DEF Created, Announce
  <2>2. /\ asks' \in [Attempt -> 0..MaxAsks]
        /\ \A b \in Attempt : asks'[b] > 0 => asks[b] > 0
    BY <2>1, MaxAsksAssumption DEF LinksTyped
  <2>3. /\ made' \in [Attempt -> BOOLEAN] /\ made'[a] = TRUE
        /\ \A b \in Attempt : b # a => made'[b] = made[b]
    BY <2>1 DEF LinksTyped
  <2>4. LinksTyped' /\ OpenOnly' /\ ConnectedHasTerminal'
    BY <1>1, <2>1, <2>2, <2>3 DEF LinksTyped, OpenOnly, ConnectedHasTerminal
  <2>5. CASE at[a] = "waiting"
    <3>1. CallsTyped' /\ NoSocketYet'
      BY <1>3, <2>1, <2>5, Ending DEF Created, EndIfWaiting
    <3>2. by[a] \in Page /\ subs' = [subs EXCEPT ![by[a]] = 1]
      BY <1>3, <2>5 DEF Created, Joined, CallsTyped
    <3>3. /\ subs' \in [Page -> Nat] /\ OneSubscription'
          /\ Hears' <=> (Hears \/ Refuses(a))
      BY <2>1, <2>5, <3>2, NoneAssumption DEF ServiceTyped, PageTyped, OneSubscription, Hears, Refuses
    <3>4. /\ hook' = (IF (Hears /\ state # "connected") \/ Refuses(a) THEN "connected" ELSE hook)
          /\ shown' = (IF (Hears /\ state # "connected") \/ Refuses(a) THEN "connected" ELSE shown)
      BY <1>3, <2>5 DEF Created
    <3>5. ServiceTyped' /\ PageTyped' /\ Unmounted' /\ PageShowsService'
      <4>1. ServiceTyped' /\ PageTyped'
        BY <2>1, <3>3, <3>4 DEF ServiceTyped, PageTyped, State
      <4>2. Refuses(a) => mounted # None
        BY <3>2, NoneAssumption DEF Refuses
      <4>3. Unmounted' /\ PageShowsService'
        BY <2>1, <3>3, <3>4, <4>2 DEF Unmounted, PageShowsService, Hears
      <4> QED BY <4>1, <4>3
    <3> QED BY <2>4, <3>1, <3>3, <3>5
  <2>6. CASE at[a] # "waiting"
    <3>1. UNCHANGED calls /\ UNCHANGED subs /\ Announce("connected", FALSE)
      BY <1>3, <2>6 DEF Created, EndIfWaiting
    <3>2. CallsTyped' /\ NoSocketYet'
      BY <2>1, <3>1 DEF calls, CallsTyped, NoSocketYet
    <3>3. Hears' = Hears
      BY <2>1, <3>1 DEF Hears
    <3>4. ServiceTyped' /\ PageTyped' /\ Unmounted' /\ OneSubscription'
      BY <2>1, <3>1, <3>3 DEF Announce, ServiceTyped, PageTyped, Unmounted, OneSubscription, State, Hears
    <3>5. PageShowsService'
      BY <2>1, <3>1, <3>3 DEF Announce, PageShowsService
    <3> QED BY <2>4, <3>2, <3>4, <3>5
  <2> QED BY <2>5, <2>6
<1>4. CASE Refused(a)
  <2>1. /\ EndIfWaiting(a) /\ Announce("error", Refuses(a))
        /\ UNCHANGED <<sock, made, cur, term, subs>>
    BY <1>4 DEF Refused
  <2>2. /\ CallsTyped' /\ NoSocketYet' /\ ServiceTyped' /\ PageTyped' /\ Unmounted'
        /\ PageShowsService' /\ OneSubscription' /\ state' = "error"
    BY <1>1, <2>1, Failing
  <2>3. /\ asks' \in [Attempt -> 0..MaxAsks] /\ risk' \in [Attempt -> BOOLEAN]
        /\ \A b \in Attempt : (asks'[b] > 0 => asks[b] > 0) /\ (risk'[b] => risk[b])
    <3>1. CASE asks[a] > 0 /\ asks' = [asks EXCEPT ![a] = @ - 1] /\ UNCHANGED risk
      BY <3>1, MaxAsksAssumption DEF LinksTyped
    <3>2. CASE risk[a] /\ risk' = [risk EXCEPT ![a] = FALSE] /\ UNCHANGED asks
      BY <3>2 DEF LinksTyped
    <3> QED BY <1>4, <3>1, <3>2 DEF Refused
  <2>4. LinksTyped' /\ OpenOnly'
    BY <2>1, <2>3 DEF LinksTyped, OpenOnly
  <2>5. ConnectedHasTerminal'
    BY <2>1, <2>2 DEF ConnectedHasTerminal
  <2> QED BY <2>2, <2>4, <2>5
<1> QED BY <1>2, <1>3, <1>4

LEMMA Stepwise == Inv /\ [Next]_vars => Inv'
<1> SUFFICES ASSUME Inv, [Next]_vars PROVE Inv'
  OBVIOUS
<1>1. CASE User
  BY <1>1, Pages, Clicks DEF User
<1>2. ASSUME NEW a \in Attempt, Event(a)
      PROVE  Inv'
  BY <1>2, Posts, Opening, Answers DEF Event
<1>3. CASE UNCHANGED vars
  BY <1>3 DEF vars, calls, links, service, page, Inv, CallsTyped, LinksTyped, OpenOnly, ServiceTyped,
       PageTyped, NoSocketYet, Unmounted, PageShowsService, OneSubscription, ConnectedHasTerminal, Hears
<1> QED BY <1>1, <1>2, <1>3 DEF Next

-----------------------------------------------------------------------------
\* The invariant holds in every state.
THEOREM Invariance == Spec => []Inv
<1> QED BY Initially, Stepwise, PTL DEF Spec

\* Type correctness: only an open socket has requests under way, and a call of
\* connect belongs to a page as long as it runs.
THEOREM Typing == Spec => []TypeOK
<1>1. Inv => TypeOK
  BY DEF Inv, CallsTyped, LinksTyped, OpenOnly, ServiceTyped, PageTyped, TypeOK
<1> QED BY <1>1, Invariance, PTL

\* A subscribed page shows the service's state, and input passes only while
\* the service is connected.
THEOREM Showing == Spec => []PageShowsService
<1>1. Inv => PageShowsService
  BY DEF Inv
<1> QED BY <1>1, Invariance, PTL

\* No page is subscribed twice.
THEOREM Subscribing == Spec => []OneSubscription
<1>1. Inv => OneSubscription
  BY DEF Inv
<1> QED BY <1>1, Invariance, PTL

\* The service is connected only over an open socket with a terminal.
THEOREM Terminals == Spec => []ConnectedHasTerminal
<1>1. Inv => ConnectedHasTerminal
  BY DEF Inv
<1> QED BY <1>1, Invariance, PTL
=============================================================================
