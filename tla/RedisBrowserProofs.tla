------------------------- MODULE RedisBrowserProofs -------------------------
(***************************************************************************)
(* The safety of the Redis page for any number of connections, databases,   *)
(* keys and overlapping calls.  The invariants of RedisBrowser are          *)
(* inductive once every call is known to be well made.                      *)
(***************************************************************************)
EXTENDS RedisBrowser, TLAPS

USE DEF formVars, OfConn

Record ==
    [op : Op \cup {"none"}, place : Place \cup {None}, conn : Conn \cup {None}, next : Conn \cup Key \cup {None}]

\* A call is made for a database or a connection; at rest there is none.
WellMade(r) ==
    /\ r \in Record
    /\ r.op \in OfPlace => r.place # None
    /\ r.op \in OfConn => r.conn # None
    /\ r.op \in OfConn \cup {"list"} => r.next \in Conn \cup {None}
    /\ r.op = "edit" => r.next \in Key \cup {None}

Calls == call \in [Slot -> Record] /\ \A s \in Slot : WellMade(call[s])

\* The part of TypeOK about what the page shows, and about its dialogs.
PanelTyped ==
    /\ connected \in Conn \cup {None}
    /\ tree \subseteq Conn
    /\ panel \in Place \cup {None}
    /\ listed \in Place \cup {None}
    /\ loading \in BOOLEAN

DialogsTyped ==
    /\ dialogs \subseteq Dialog
    /\ pending \in Conn \cup {None}
    /\ editing \in Key \cup {None}
    /\ form \in Key \cup {None}
    /\ overlap \in BOOLEAN

Inv ==
    /\ Calls
    /\ PanelTyped
    /\ typed \in Place \cup {None}
    /\ DialogsTyped
    /\ PanelCoherent
    /\ SwitchNamed
    /\ LoadingServed

LEMMA RestMade == WellMade(Rest) /\ Rest.op = "none"
BY DEF WellMade, Record, Rest, Op, OfPlace

LEMMA RequestMade ==
    ASSUME NEW op \in OfConn, NEW c \in Conn,
           NEW n \in Conn \cup {None}
    PROVE  WellMade(Request(op, c, n)) /\ Request(op, c, n).op = op
BY NoneAssumption DEF WellMade, Record, Request, Op, OfPlace

LEMMA ListMade ==
    ASSUME NEW n \in Conn \cup {None}
    PROVE  WellMade(Request("list", None, n)) /\ Request("list", None, n).op = "list"
BY DEF WellMade, Record, Request, Op, OfPlace

LEMMA AskMade ==
    ASSUME NEW op \in OfPlace, NEW p \in Place, NEW n \in Key \cup {None}
    PROVE  WellMade(Ask(op, p, n)) /\ Ask(op, p, n).op = op
BY NoneAssumption DEF WellMade, Record, Ask, Op, OfPlace, Place

\* A slot is given another call.
LEMMA Updating ==
    ASSUME Calls, NEW s \in Slot, NEW r, WellMade(r),
           call' = [call EXCEPT ![s] = r]
    PROVE  Calls' /\ call'[s] = r /\ \A t \in Slot : t # s => call'[t] = call[t]
<1>1. call'[s] = r /\ \A t \in Slot : t # s => call'[t] = call[t]
  BY DEF Calls
<1>2. r \in Record
  BY DEF WellMade
<1>3. call' \in [Slot -> Record]
  BY <1>2 DEF Calls
<1>4. \A t \in Slot : WellMade(call'[t])
  BY <1>1 DEF Calls
<1> QED BY <1>1, <1>3, <1>4 DEF Calls, WellMade, Record

\* A call that is no scan is replaced: what loads goes on loading.
LEMMA StillLoading ==
    ASSUME Calls, LoadingServed, NEW s \in Slot, call[s].op # "scan", NEW r, WellMade(r),
           call' = [call EXCEPT ![s] = r], loading' = loading
    PROVE  LoadingServed'
BY Updating DEF LoadingServed

\* A new call is a call that is well made and takes the place of none.
LEMMA Sending ==
    ASSUME Calls, LoadingServed, NEW r, WellMade(r), Send(r)
    PROVE  /\ Calls'
           /\ loading' = loading => LoadingServed'
           /\ r.op = "scan" => LoadingServed'
<1>1. PICK s \in Slot : call[s].op = "none" /\ call' = [call EXCEPT ![s] = r]
  BY DEF Send
<1>2. call[s].op # "scan"
  BY <1>1 DEF Calls, WellMade
<1>3. Calls' /\ call'[s] = r
  BY <1>1, Updating
<1>4. loading' = loading => LoadingServed'
  BY <1>1, <1>2, StillLoading
<1>5. r.op = "scan" => LoadingServed'
  BY <1>3 DEF LoadingServed
<1> QED BY <1>3, <1>4, <1>5

\* A scan of a database is sent.
LEMMA Loading ==
    ASSUME Inv, NEW p \in Place, LoadKeys(p), typed' \in Place \cup {None}, UNCHANGED dialogVars
    PROVE  Inv'
<1>1. WellMade(Ask("scan", p, None)) /\ Ask("scan", p, None).op = "scan"
  BY AskMade DEF OfPlace
<1>2. Calls' /\ LoadingServed'
  BY <1>1, Sending DEF LoadKeys, Inv
<1> QED BY <1>2 DEF Inv, LoadKeys, dialogVars, PanelTyped, DialogsTyped, PanelCoherent, SwitchNamed

\* A call that ends frees its slot.
LEMMA Freeing ==
    ASSUME Calls, LoadingServed, NEW s \in Slot, Free(s)
    PROVE  /\ Calls'
           /\ call[s].op # "scan" /\ loading' = loading => LoadingServed'
<1>1. call' = [call EXCEPT ![s] = Rest]
  BY DEF Free
<1>2. Calls'
  BY <1>1, RestMade, Updating
<1>3. call[s].op # "scan" /\ loading' = loading => LoadingServed'
  BY <1>1, RestMade, StillLoading
<1> QED BY <1>2, <1>3

\* What the user does keeps the invariant.
LEMMA UserSteps ==
    ASSUME Inv, User
    PROVE  Inv'
<1> USE DEF Inv
<1>1. ASSUME NEW c \in Conn, ClickConnect(c)
      PROVE  Inv'
  <2>1. WellMade(Request("connect", c, None)) /\ c # None
    BY RequestMade, NoneAssumption
  <2>2. Calls' /\ LoadingServed'
    <3>1. CASE connected \notin {None, c}
      BY <1>1, <3>1 DEF ClickConnect, panelVars, Calls, LoadingServed
    <3>2. CASE connected \in {None, c}
      BY <1>1, <2>1, <3>2, Sending DEF ClickConnect, panelVars
    <3> QED BY <3>1, <3>2
  <2>3. DialogsTyped' /\ SwitchNamed'
    BY <1>1, <2>1 DEF ClickConnect, Open, DialogsTyped, SwitchNamed, Dialog
  <2> QED BY <1>1, <2>2, <2>3 DEF ClickConnect, panelVars, PanelTyped, PanelCoherent
<1>2. ASSUME NEW c \in Conn, ClickDisconnect(c) \/ SaveConnection(c)
      PROVE  Inv'
  <2>1. WellMade(Request("disconnect", c, None)) /\ WellMade(Request("update", c, connected))
    BY RequestMade DEF PanelTyped
  <2>2. Calls' /\ LoadingServed'
    BY <1>2, <2>1, Sending DEF ClickDisconnect, SaveConnection, panelVars
  <2> QED
    BY <1>2, <2>2 DEF ClickDisconnect, SaveConnection, panelVars, dialogVars, PanelTyped,
         DialogsTyped, PanelCoherent, SwitchNamed
<1>3. ASSUME NEW c \in Conn, NEW d \in Db, ClickDatabase(c, d)
      PROVE  Inv'
  BY <1>3, Loading DEF ClickDatabase, Place
<1>4. CASE ClickRefresh
  BY <1>4, Loading DEF ClickRefresh, PanelTyped
<1>5. ASSUME NEW k \in Key, ClickEdit(k)
      PROVE  Inv'
  <2>1. panel \in Place
    BY <1>5 DEF ClickEdit, RowsShown, PanelTyped
  <2>2. Calls' /\ LoadingServed'
    BY <1>5, <2>1, AskMade, Sending DEF ClickEdit, panelVars, OfPlace
  <2>3. overlap' \in BOOLEAN
    BY <1>5, ZenonT(20) DEF ClickEdit, Reading
  <2>4. DialogsTyped' /\ SwitchNamed'
    BY <1>5, <2>3 DEF ClickEdit, DialogsTyped, SwitchNamed
  <2> QED
    BY <1>5, <2>2, <2>4 DEF ClickEdit, panelVars, PanelTyped, PanelCoherent
<1>6. CASE ClickView \/ ConfirmDelete \/ SaveKey
  <2>1. panel \in Place
    BY <1>6 DEF ClickView, ConfirmDelete, SaveKey, RowsShown, PanelTyped
  <2>2. Calls' /\ LoadingServed'
    BY <1>6, <2>1, AskMade, Sending DEF ClickView, ConfirmDelete, SaveKey, panelVars, OfPlace
  <2> QED
    BY <1>6, <2>2 DEF ClickView, ConfirmDelete, SaveKey, panelVars, dialogVars, PanelTyped,
         DialogsTyped, PanelCoherent, SwitchNamed
<1>7. CASE ConfirmSwitch
  <2>1. pending \in Conn
    BY <1>7 DEF ConfirmSwitch, DialogsTyped
  <2>2. Calls' /\ LoadingServed'
    <3>1. CASE connected # None
      BY <1>7, <2>1, <3>1, RequestMade, Sending DEF ConfirmSwitch, panelVars, PanelTyped
    <3>2. CASE connected = None
      BY <1>7, <2>1, <3>2, RequestMade, Sending DEF ConfirmSwitch, panelVars
    <3> QED BY <3>1, <3>2
  <2> QED
    BY <1>7, <2>2 DEF ConfirmSwitch, panelVars, dialogVars, PanelTyped, DialogsTyped,
         PanelCoherent, SwitchNamed
<1>8. CASE ClickAdd \/ ClickDelete \/ EditConnection \/ Search
  <2>1. UNCHANGED <<call, panelVars>>
    BY <1>8 DEF ClickAdd, ClickDelete, EditConnection, Search
  <2>2. Calls' /\ PanelTyped' /\ PanelCoherent' /\ LoadingServed'
    BY <2>1 DEF panelVars, Calls, PanelTyped, PanelCoherent, LoadingServed
  <2>3. DialogsTyped' /\ SwitchNamed' /\ typed' \in Place \cup {None}
    <3>1. CASE ClickAdd
      <4>1. overlap' \in BOOLEAN
        BY <3>1, ZenonT(20) DEF ClickAdd, Reading
      <4> QED
        BY <3>1, <4>1 DEF ClickAdd, Open, DialogsTyped, SwitchNamed, Dialog
    <3>2. CASE ClickDelete \/ EditConnection
      BY <3>2 DEF ClickDelete, EditConnection, Open, DialogsTyped, SwitchNamed, Dialog
    <3>3. CASE Search
      BY <3>3 DEF Search, dialogVars, DialogsTyped, SwitchNamed, PanelTyped
    <3> QED BY <1>8, <3>1, <3>2, <3>3
  <2> QED BY <2>2, <2>3
<1>9. ASSUME NEW d \in Dialog, Dismiss(d)
      PROVE  Inv'
  BY <1>9 DEF Dismiss, Shut, panelVars, Calls, PanelTyped, DialogsTyped, PanelCoherent,
       SwitchNamed, LoadingServed
<1>10. CASE ClickReload
  <2>1. WellMade(Request("list", None, connected))
    BY ListMade DEF PanelTyped
  <2>2. Calls' /\ LoadingServed'
    BY <1>10, <2>1, Sending DEF ClickReload, panelVars
  <2> QED
    BY <1>10, <2>2 DEF ClickReload, panelVars, dialogVars, PanelTyped, DialogsTyped,
         PanelCoherent, SwitchNamed
<1> QED BY <1>1, <1>2, <1>3, <1>4, <1>5, <1>6, <1>7, <1>8, <1>9, <1>10 DEF User

\* A connect or a disconnect is answered.
LEMMA ConnectionAnswers ==
    ASSUME Inv, NEW s \in Slot,
           \/ Connected(s) \/ ConnectFails(s)
           \/ Disconnected(s) \/ DisconnectFails(s) \/ SwitchGoesOn(s)
    PROVE  Inv'
<1> USE DEF Inv
<1>1. CASE Connected(s)
  <2>1. Calls' /\ LoadingServed'
    BY <1>1, Freeing DEF Connected, Ends
  <2>2. call[s].conn \in Conn
    BY <1>1 DEF Connected, Ends, Calls, WellMade, Record
  <2>3. DialogsTyped' /\ SwitchNamed'
    BY <1>1 DEF Connected, EndSwitch, Shut, DialogsTyped, SwitchNamed
  <2> QED BY <1>1, <2>1, <2>2, <2>3 DEF Connected, ClearPanel, PanelTyped, PanelCoherent
<1>2. CASE ConnectFails(s)
  <2>1. Calls' /\ LoadingServed'
    BY <1>2, Freeing DEF ConnectFails, Ends, panelVars
  <2>2. DialogsTyped' /\ SwitchNamed'
    BY <1>2 DEF ConnectFails, EndSwitch, Shut, DialogsTyped, SwitchNamed
  <2> QED BY <1>2, <2>1, <2>2 DEF ConnectFails, panelVars, PanelTyped, PanelCoherent
<1>3. CASE Disconnected(s)
  <2>1. Calls' /\ LoadingServed'
    BY <1>3, Freeing DEF Disconnected, Ends
  <2> QED
    BY <1>3, <2>1 DEF Disconnected, ClearPanel, dialogVars, PanelTyped, PanelCoherent,
         DialogsTyped, SwitchNamed
<1>4. CASE DisconnectFails(s)
  <2>1. Calls' /\ LoadingServed'
    BY <1>4, Freeing DEF DisconnectFails, Ends, panelVars
  <2> QED
    BY <1>4, <2>1 DEF DisconnectFails, panelVars, dialogVars, PanelTyped, PanelCoherent,
         DialogsTyped, SwitchNamed
<1>5. CASE SwitchGoesOn(s)
  <2> DEFINE r == Request("connect", call[s].next, call[s].next)
  <2>1. call[s].next \in Conn
    BY <1>5 DEF SwitchGoesOn, Ends, Calls, WellMade, Op, OfPlace
  <2>2. WellMade(r)
    BY <2>1, RequestMade
  <2>3. call' = [call EXCEPT ![s] = r] /\ call[s].op # "scan" /\ loading' = loading
    BY <1>5 DEF SwitchGoesOn, Ends, panelVars
  <2>4. Calls' /\ LoadingServed'
    BY <2>2, <2>3, Updating, StillLoading
  <2> QED
    BY <1>5, <2>4 DEF SwitchGoesOn, panelVars, dialogVars, PanelTyped, PanelCoherent,
         DialogsTyped, SwitchNamed
<1> QED BY <1>1, <1>2, <1>3, <1>4, <1>5

\* A call about keys or about a stored connection is answered.
LEMMA KeyAnswers ==
    ASSUME Inv, NEW s \in Slot,
           \/ Scanned(s) \/ ScanFails(s)
           \/ Viewed(s) \/ EditReady(s)
           \/ Written(s, "delete", "delete") \/ Written(s, "save", "form")
           \/ Updated(s) \/ Listed(s) \/ Refused(s)
    PROVE  Inv'
<1> USE DEF Inv
<1>1. CASE Scanned(s) \/ ScanFails(s)
  <2>1. Calls' /\ loading' = FALSE
    BY <1>1, Freeing DEF Scanned, ScanFails
  <2>2. call[s].op = "scan" => call[s].place \in Place
    BY DEF Calls, WellMade, Record, OfPlace
  <2>3. PanelTyped' /\ PanelCoherent'
    BY <1>1, <2>2 DEF Scanned, ScanFails, Ends, PanelTyped, PanelCoherent
  <2> QED
    BY <1>1, <2>1, <2>3 DEF Scanned, ScanFails, dialogVars, DialogsTyped, SwitchNamed, LoadingServed
<1>2. CASE Viewed(s) \/ Listed(s) \/ Refused(s)
  <2>1. Calls' /\ LoadingServed'
    BY <1>2, Freeing DEF Viewed, Listed, Refused, Ends, panelVars
  <2>2. DialogsTyped' /\ SwitchNamed'
    BY <1>2 DEF Viewed, Listed, Refused, Open, dialogVars, DialogsTyped, SwitchNamed, Dialog
  <2>3. call[s].op = "list" => call[s].next \in Conn \cup {None}
    BY DEF Calls, WellMade
  <2> QED
    BY <1>2, <2>1, <2>2, <2>3 DEF Viewed, Listed, Refused, Ends, panelVars, PanelTyped, PanelCoherent
<1>3. CASE EditReady(s)
  <2>1. Calls' /\ LoadingServed'
    BY <1>3, Freeing DEF EditReady, Ends, panelVars
  <2>2. call[s].next \in Key \cup {None}
    BY <1>3 DEF EditReady, Ends, Calls, WellMade
  <2>3. DialogsTyped' /\ SwitchNamed'
    BY <1>3, <2>2 DEF EditReady, Open, DialogsTyped, SwitchNamed, Dialog
  <2> QED
    BY <1>3, <2>1, <2>3 DEF EditReady, panelVars, PanelTyped, PanelCoherent
<1>4. ASSUME NEW op \in {"delete", "save"}, NEW d \in {"delete", "form"}, Written(s, op, d)
      PROVE  Inv'
  <2> DEFINE r == Ask("scan", call[s].place, None)
  <2>1. call[s].place \in Place
    BY <1>4 DEF Written, Ends, Calls, WellMade, Record, OfPlace
  <2>2. WellMade(r) /\ r.op = "scan"
    BY <2>1, AskMade DEF OfPlace
  <2>3. Calls' /\ call'[s] = r
    BY <1>4, <2>2, Updating DEF Written
  <2>4. LoadingServed'
    BY <2>2, <2>3 DEF LoadingServed
  <2>5. DialogsTyped' /\ SwitchNamed'
    BY <1>4 DEF Written, Shut, DialogsTyped, SwitchNamed
  <2> QED BY <1>4, <2>3, <2>4, <2>5 DEF Written, PanelTyped, PanelCoherent
<1>5. CASE Updated(s)
  <2> DEFINE r == Request("list", None, call[s].next)
  <2>1. call[s].next \in Conn \cup {None}
    BY <1>5 DEF Updated, Ends, Calls, WellMade
  <2>2. WellMade(r)
    BY <2>1, ListMade
  <2>3. call' = [call EXCEPT ![s] = r] /\ call[s].op # "scan" /\ loading' = loading
    BY <1>5 DEF Updated, Ends, panelVars
  <2>4. Calls' /\ LoadingServed'
    BY <2>2, <2>3, Updating, StillLoading
  <2> QED
    BY <1>5, <2>4 DEF Updated, Shut, panelVars, PanelTyped, DialogsTyped, PanelCoherent, SwitchNamed
<1> QED BY <1>1, <1>2, <1>3, <1>4, <1>5

LEMMA Initially == Init => Inv
BY RestMade DEF Init, Inv, Calls, WellMade, PanelTyped, DialogsTyped, PanelCoherent, SwitchNamed,
                LoadingServed

LEMMA Stepwise == Inv /\ [Next]_vars => Inv'
<1> SUFFICES ASSUME Inv, [Next]_vars PROVE Inv'
  OBVIOUS
<1>1. CASE User
  BY <1>1, UserSteps
<1>2. CASE SearchFires
  BY <1>2, Loading DEF SearchFires, Inv
<1>3. ASSUME NEW s \in Slot, Answer(s)
      PROVE  Inv'
  BY <1>3, ConnectionAnswers, KeyAnswers DEF Answer
<1>4. CASE UNCHANGED vars
  BY <1>4 DEF vars, panelVars, dialogVars, Inv, Calls, PanelTyped, DialogsTyped, PanelCoherent,
              SwitchNamed, LoadingServed
<1> QED BY <1>1, <1>2, <1>3, <1>4 DEF Next

\* The invariant holds in every state of the page.
THEOREM Invariance == Spec => []Inv
<1> QED BY Initially, Stepwise, PTL DEF Spec

\* Type correctness: a call is always made for a database or a connection,
\* although late answers clear the panel under open dialogs.
THEOREM Typing == Spec => []TypeOK
<1>1. Inv => TypeOK
  BY DEF Inv, Calls, WellMade, Record, PanelTyped, DialogsTyped, TypeOK
<1> QED BY <1>1, Invariance, PTL

\* The keys listed belong to the database that heads the panel.
THEOREM Coherence == Spec => []PanelCoherent
<1>1. Inv => PanelCoherent
  BY DEF Inv
<1> QED BY <1>1, Invariance, PTL

\* The dialog that asks about a switch always names a connection.
THEOREM Naming == Spec => []SwitchNamed
<1>1. Inv => SwitchNamed
  BY DEF Inv
<1> QED BY <1>1, Invariance, PTL

\* What shows that it loads has a scan under way.
THEOREM LoadingIsServed == Spec => []LoadingServed
<1>1. Inv => LoadingServed
  BY DEF Inv
<1> QED BY <1>1, Invariance, PTL

-----------------------------------------------------------------------------
\* What is read for the form is the key that is edited, unless clicks overlap.
EditsNamed == ~overlap => \A s \in Slot : call[s].op = "edit" => call[s].next = editing

\* A call that is made or goes on, and is not a new read for the form.
LEMMA EditsKept ==
    ASSUME Calls, EditsNamed, UNCHANGED <<editing, overlap>>, NEW s \in Slot, NEW r,
           call' = [call EXCEPT ![s] = r],
           r.op = "edit" => call[s].op = "edit" /\ r.next = call[s].next
    PROVE  EditsNamed'
BY DEF Calls, EditsNamed

LEMMA PutKept ==
    ASSUME Calls, EditsNamed, UNCHANGED <<editing, overlap>>, NEW s \in Slot, NEW op, NEW x, NEW n,
           op # "edit",
           \/ call' = [call EXCEPT ![s] = Request(op, x, n)]
           \/ call' = [call EXCEPT ![s] = Ask(op, x, n)]
    PROVE  EditsNamed'
<1>1. CASE call' = [call EXCEPT ![s] = Request(op, x, n)]
  <2>1. Request(op, x, n).op # "edit"
    BY DEF Request
  <2> QED BY <1>1, <2>1, EditsKept
<1>2. CASE call' = [call EXCEPT ![s] = Ask(op, x, n)]
  <2>1. Ask(op, x, n).op # "edit"
    BY DEF Ask
  <2> QED BY <1>2, <2>1, EditsKept
<1> QED BY <1>1, <1>2

LEMMA SentKept ==
    ASSUME Calls, EditsNamed, UNCHANGED <<editing, overlap>>, NEW op, NEW x, NEW n, op # "edit",
           Send(Request(op, x, n)) \/ Send(Ask(op, x, n))
    PROVE  EditsNamed'
BY PutKept DEF Send

LEMMA FormSteps ==
    ASSUME Inv, FormNamesTarget, EditsNamed, Next
    PROVE  FormNamesTarget' /\ EditsNamed'
<1> USE DEF Inv
<1>1. ASSUME NEW k \in Key, ClickEdit(k)
      PROVE  FormNamesTarget' /\ EditsNamed'
  <2>1. PICK s \in Slot : call' = [call EXCEPT ![s] = Ask("edit", panel, k)]
    BY <1>1 DEF ClickEdit, Send
  <2>2. ~overlap' => \A t \in Slot : call[t].op # "edit"
    BY <1>1 DEF ClickEdit, Reading
  <2>3. EditsNamed'
    BY <1>1, <2>1, <2>2 DEF ClickEdit, Calls, EditsNamed, Ask
  <2> QED BY <1>1, <2>3 DEF ClickEdit, RowsShown, Uncovered, FormNamesTarget
<1>2. CASE ClickAdd
  <2>1. ~overlap' => \A t \in Slot : call[t].op # "edit"
    BY <1>2 DEF ClickAdd, Reading
  <2> QED BY <1>2, <2>1 DEF ClickAdd, FormNamesTarget, EditsNamed
<1>3. ASSUME NEW s \in Slot, EditReady(s)
      PROVE  FormNamesTarget' /\ EditsNamed'
  <2>1. EditsNamed'
    BY <1>3, EditsKept, RestMade DEF EditReady, Free
  <2> QED BY <1>3, <2>1 DEF EditReady, Ends, EditsNamed, FormNamesTarget
<1>4. ASSUME UNCHANGED formVars, dialogs' \cap {"form"} \subseteq dialogs
      PROVE  FormNamesTarget'
  BY <1>4 DEF FormNamesTarget
<1>5. CASE \/ \E c \in Conn : ClickConnect(c) \/ ClickDisconnect(c) \/ SaveConnection(c)
           \/ \E c \in Conn, d \in Db : ClickDatabase(c, d)
           \/ ClickRefresh \/ ClickView \/ ConfirmSwitch \/ ConfirmDelete \/ SaveKey
           \/ SearchFires \/ ClickReload
  <2>1. UNCHANGED formVars /\ FormNamesTarget'
    BY <1>4, <1>5 DEF ClickConnect, ClickDisconnect, SaveConnection, ClickDatabase, ClickRefresh,
         ClickView, ConfirmSwitch, ConfirmDelete, SaveKey, SearchFires, ClickReload, dialogVars, Open
  <2>2. CASE \E c \in Conn : ClickConnect(c)
    BY <2>1, <2>2, SentKept DEF ClickConnect, EditsNamed
  <2>3. CASE \E c \in Conn : ClickDisconnect(c) \/ SaveConnection(c)
    BY <2>1, <2>3, SentKept DEF ClickDisconnect, SaveConnection
  <2>4. CASE \/ \E c \in Conn, d \in Db : ClickDatabase(c, d)
             \/ ClickRefresh \/ SearchFires
    BY <2>1, <2>4, SentKept DEF ClickDatabase, ClickRefresh, SearchFires, LoadKeys
  <2>5. CASE ClickView \/ ConfirmDelete \/ SaveKey
    BY <2>1, <2>5, SentKept DEF ClickView, ConfirmDelete, SaveKey
  <2>6. CASE ConfirmSwitch
    <3>1. CASE connected # None
      BY <2>1, <2>6, <3>1, SentKept DEF ConfirmSwitch
    <3>2. CASE connected = None
      BY <2>1, <2>6, <3>2, SentKept DEF ConfirmSwitch
    <3> QED BY <3>1, <3>2
  <2>7. CASE ClickReload
    BY <2>1, <2>7, SentKept DEF ClickReload
  <2> QED BY <1>5, <2>2, <2>3, <2>4, <2>5, <2>6, <2>7
<1>6. CASE \/ \E d \in Dialog : Dismiss(d)
           \/ ClickDelete \/ EditConnection \/ Search
  BY <1>4, <1>6 DEF Dismiss, ClickDelete, EditConnection, Search, dialogVars, Open, Shut,
       EditsNamed
<1>7. ASSUME NEW s \in Slot, Answer(s), ~EditReady(s)
      PROVE  FormNamesTarget' /\ EditsNamed'
  <2>1. UNCHANGED formVars /\ FormNamesTarget'
    BY <1>4, <1>7 DEF Answer, Connected, ConnectFails, Disconnected, DisconnectFails, SwitchGoesOn,
         Scanned, ScanFails, Viewed, Written, Updated, Listed, Refused, EndSwitch, dialogVars, Open, Shut
  <2>2. CASE SwitchGoesOn(s) \/ Updated(s)
    BY <2>1, <2>2, PutKept DEF SwitchGoesOn, Updated
  <2>3. CASE Written(s, "delete", "delete") \/ Written(s, "save", "form")
    BY <2>1, <2>3, PutKept DEF Written
  <2>4. CASE Free(s)
    BY <2>1, <2>4, EditsKept, RestMade DEF Free
  <2> QED
    BY <1>7, <2>2, <2>3, <2>4 DEF Answer, Connected, ConnectFails, Disconnected, DisconnectFails,
         Scanned, ScanFails, Viewed, Listed, Refused
<1> QED BY <1>1, <1>2, <1>3, <1>5, <1>6, <1>7 DEF Next, User

\* The form saves to the key whose name and value it shows, unless a click for
\* another key came before the value was there.
THEOREM FormNaming == Spec => []FormNamesTarget
<1> DEFINE Forms == Inv /\ FormNamesTarget /\ EditsNamed
<1>1. Init => Forms
  BY Initially DEF Init, FormNamesTarget, EditsNamed, Rest
<1>2. Forms /\ [Next]_vars => Forms'
  <2>1. CASE Next
    BY <2>1, Stepwise, FormSteps
  <2>2. CASE UNCHANGED vars
    BY <2>2, Stepwise DEF vars, dialogVars, FormNamesTarget, EditsNamed
  <2> QED BY <2>1, <2>2
<1>3. Forms => FormNamesTarget
  OBVIOUS
<1> QED BY <1>1, <1>2, <1>3, PTL DEF Spec
=============================================================================
