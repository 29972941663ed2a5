---------------------------- MODULE ResultChannel ----------------------------
(***************************************************************************)
(* What the streams of one probe promise their clients                      *)
(* (services/network_sse_service.py).  A broadcast is addressed to the one   *)
(* stream that is live then, never to one that has ended.  The stream        *)
(* accepts it once or refuses it.  What it has accepted is told to its       *)
(* client once, in the order of acceptance and after one greeting, and       *)
(* nothing is lost while the client is there and the stream lasts.           *)
(***************************************************************************)
EXTENDS Naturals, Sequences

CONSTANTS
    Stream,
    Sender,
    Result,
    None,
    Capacity  \* results a stream holds back, besides the one it is telling

VARIABLES
    live,     \* the streams that broadcasts are addressed to
    post,     \* the broadcast each sender has addressed
    stage,    \* new, greeting, open or ended
    left,     \* the streams whose client has hung up
    box,      \* results accepted and not yet told
    told      \* the result a client has just been told, 0 for none

vars == <<live, post, stage, left, box, told>>

Nothing == [to |-> None, what |-> 0]

Init ==
    /\ live = {} /\ left = {}
    /\ post = [s \in Sender |-> Nothing]
    /\ stage = [c \in Stream |-> "new"]
    /\ box = [c \in Stream |-> <<>>]
    /\ told = [c \in Stream |-> 0]

Reaches(c, from, to) == stage[c] = from /\ stage' = [stage EXCEPT ![c] = to]

Join(c) ==
    /\ Reaches(c, "new", "greeting")
    /\ live' = {c}
    /\ UNCHANGED <<post, left, box, told>>

Greet(c) ==
    /\ Reaches(c, "greeting", "open")
    /\ \E r \in Result \cup {0} : told' = [told EXCEPT ![c] = r]
    /\ UNCHANGED <<live, post, left, box>>

\* An accepted result is told, or dropped if there is nobody to tell it to
Deliver(c) ==
    /\ stage[c] = "open" /\ box[c] # <<>>
    /\ box' = [box EXCEPT ![c] = Tail(@)]
    /\ told' = IF c \in left THEN told ELSE [told EXCEPT ![c] = Head(box[c])]
    /\ UNCHANGED <<live, post, stage, left>>

Pause(c) == told' = [told EXCEPT ![c] = 0] /\ UNCHANGED <<live, post, stage, left, box>>

HangUp(c) ==
    /\ stage[c] \in {"greeting", "open"}
    /\ left' = left \cup {c}
    /\ UNCHANGED <<live, post, stage, box, told>>

Close == live' = {} /\ UNCHANGED <<post, stage, left, box, told>>

End(c) == Reaches(c, "open", "ended") /\ live' = {} /\ UNCHANGED <<post, left, box, told>>

Address(s) ==
    /\ post[s] = Nothing
    /\ \E c \in live, r \in Result : post' = [post EXCEPT ![s] = [to |-> c, what |-> r]]
    /\ UNCHANGED <<live, stage, left, box, told>>

\* The stream may have been closed, or have ended, by now
Accept(s) ==
    LET c == post[s].to IN
    /\ post[s] # Nothing /\ Len(box[c]) <= Capacity
    /\ box' = [box EXCEPT ![c] = Append(@, post[s].what)]
    /\ post' = [post EXCEPT ![s] = Nothing]
    /\ UNCHANGED <<live, stage, left, told>>

\* Only a stream that is closed or full refuses
Refuse(s) ==
    /\ post[s].to \notin live \/ Len(box[post[s].to]) >= Capacity
    /\ post' = [post EXCEPT ![s] = Nothing]
    /\ UNCHANGED <<live, stage, left, box, told>>

Next ==
    \/ Close
    \/ \E c \in Stream :
          Join(c) \/ Greet(c) \/ Deliver(c) \/ Pause(c) \/ HangUp(c) \/ End(c)
    \/ \E s \in Sender : Address(s) \/ Accept(s) \/ Refuse(s)

Spec == Init /\ [][Next]_vars
=============================================================================
