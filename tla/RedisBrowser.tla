---------------------------- MODULE RedisBrowser ----------------------------
(***************************************************************************)
(* The Redis administration page (pages/Redis/index.tsx) in front of the    *)
(* back end's connection manager.  One connection is open at a time; its    *)
(* databases are listed in a panel, whose keys are viewed, edited and       *)
(* deleted in dialogs that cover the page.                                  *)
(*                                                                          *)
(* JavaScript runs a handler to its next await without interruption, so an  *)
(* action is a click, a timer or the answer of a call with everything up to *)
(* the handler's next call.  A handler goes on in the slot of its call and  *)
(* keeps what it read before it in the call's fields: React gives it the    *)
(* state of the render it was created in.                                   *)
(*                                                                          *)
(* The back end answers calls in any order, with success or failure: what   *)
(* it does before is RedisPool, whose CallsEnd is the promise taken here.   *)
(*                                                                          *)
(* Abstractions: a list of keys is known by the place it was asked for;     *)
(* toasts, the folding of the tree, and the creation and removal of stored  *)
(* connections are left out.                                                *)
(***************************************************************************)
EXTENDS Naturals

CONSTANTS
    Conn,   \* stored connections
    Db,     \* database numbers
    Key,    \* names of keys
    Slot,   \* calls that can be under way at the same time
    None

ASSUME NoneAssumption == None \notin Conn \cup Key \cup (Conn \X Db)

VARIABLES
    call,       \* the call in each slot
    connected,  \* connectedIds, which has one element at most
    tree,       \* the connections that treeData shows as connected
    panel,      \* selectedDatabase: the place whose name heads the panel
    listed,     \* currentKeys: the place whose keys are listed
    loading,    \* loadingKeys
    typed,      \* the place the search timer will scan
    dialogs,    \* what covers the page
    pending,    \* pendingConnection
    editing,    \* editingKey
    form,       \* keyFormData: the key whose value is in the form
    overlap     \* the last click for the form came while it was read for another

panelVars == <<connected, tree, panel, listed, loading>>
formVars == <<editing, form, overlap>>
dialogVars == <<dialogs, pending, formVars>>
vars == <<call, panelVars, typed, dialogVars>>

Dialog == {"switch", "delete", "form", "detail", "connection"}
Place == Conn \X Db
Op == {"connect", "disconnect", "scan", "view", "edit", "delete", "save", "update", "list"}

\* A slot without a call.
Rest == [op |-> "none", place |-> None, conn |-> None, next |-> None]

\* A call for a connection, after which the page goes on with next.
Request(op, c, next) == [op |-> op, place |-> None, conn |-> c, next |-> next]

\* A call for the database that heads the panel.
Ask(op, place, next) == [op |-> op, place |-> place, conn |-> None, next |-> next]

Init ==
    /\ call = [s \in Slot |-> Rest]
    /\ connected = None
    /\ tree = {}
    /\ panel = None
    /\ listed = None
    /\ loading = FALSE
    /\ typed = None
    /\ dialogs = {}
    /\ pending = None
    /\ editing = None
    /\ form = None
    /\ overlap = FALSE

\* A handler makes a call in a free slot.
Send(r) == \E s \in Slot : call[s].op = "none" /\ call' = [call EXCEPT ![s] = r]

\* loadKeys up to its call.
LoadKeys(place) ==
    /\ Send(Ask("scan", place, None))
    /\ loading' = TRUE
    /\ UNCHANGED <<connected, tree, panel, listed>>

Uncovered == dialogs = {}
Open(d) == dialogs' = dialogs \cup {d}
Shut(d) == dialogs' = dialogs \ {d}

-----------------------------------------------------------------------------
(***************************************************************************)
(* What the user does.                                                      *)
(***************************************************************************)

\* The tree has the button; connectedIds decides what it does.
ClickConnect(c) ==
    /\ Uncovered /\ c \notin tree
    /\ IF connected \notin {None, c}
       THEN /\ pending' = c
            /\ Open("switch")
            /\ UNCHANGED call
       ELSE /\ Send(Request("connect", c, None))
            /\ UNCHANGED <<pending, dialogs>>
    /\ UNCHANGED <<panelVars, typed, formVars>>

\* The old connection is closed first, then the new one is opened.
ConfirmSwitch ==
    /\ "switch" \in dialogs /\ pending # None
    /\ Send(IF connected # None THEN Request("disconnect", connected, pending)
                                ELSE Request("connect", pending, pending))
    /\ UNCHANGED <<panelVars, typed, dialogVars>>

ClickDisconnect(c) ==
    /\ Uncovered /\ c \in tree
    /\ Send(Request("disconnect", c, None))
    /\ UNCHANGED <<panelVars, typed, dialogVars>>

ClickDatabase(c, d) ==
    /\ Uncovered /\ connected = c
    /\ LoadKeys(<<c, d>>)
    /\ UNCHANGED <<typed, dialogVars>>

ClickRefresh ==
    /\ Uncovered /\ panel # None
    /\ LoadKeys(panel)
    /\ UNCHANGED <<typed, dialogVars>>

\* The timer keeps the panel of the moment of typing.
Search ==
    /\ Uncovered /\ panel # None
    /\ typed' = panel
    /\ UNCHANGED <<call, panelVars, dialogVars>>

SearchFires ==
    /\ typed # None
    /\ LoadKeys(typed)
    /\ typed' = None
    /\ UNCHANGED <<dialogVars>>

\* A row of the list can be clicked.
RowsShown == Uncovered /\ panel # None /\ listed # None /\ ~loading

ClickView ==
    /\ RowsShown
    /\ Send(Ask("view", panel, None))
    /\ UNCHANGED <<panelVars, typed, dialogVars>>

\* A key is read for the form.
Reading == \E s \in Slot : call[s].op = "edit"

ClickEdit(k) ==
    /\ RowsShown
    /\ editing' = k
    /\ overlap' = Reading
    /\ Send(Ask("edit", panel, k))
    /\ UNCHANGED <<panelVars, typed, dialogs, pending, form>>

\* Mutant of ClickAdd: editingKey is kept.
ClickAddKept ==
    /\ Uncovered /\ panel # None
    /\ form' = None
    /\ overlap' = Reading
    /\ Open("form")
    /\ UNCHANGED <<call, panelVars, typed, pending, editing>>

ClickAdd ==
    /\ Uncovered /\ panel # None
    /\ editing' = None
    /\ form' = None
    /\ overlap' = Reading
    /\ Open("form")
    /\ UNCHANGED <<call, panelVars, typed, pending>>

ClickDelete ==
    /\ RowsShown
    /\ Open("delete")
    /\ UNCHANGED <<call, panelVars, typed, pending, formVars>>

\* Mutant of ConfirmDelete: the heading of the panel is not looked at.
ConfirmDeleteBlind ==
    /\ "delete" \in dialogs
    /\ Send(Ask("delete", panel, None))
    /\ UNCHANGED <<panelVars, typed, dialogVars>>

ConfirmDelete ==
    /\ "delete" \in dialogs /\ panel # None
    /\ Send(Ask("delete", panel, None))
    /\ UNCHANGED <<panelVars, typed, dialogVars>>

SaveKey ==
    /\ "form" \in dialogs /\ panel # None
    /\ Send(Ask("save", panel, None))
    /\ UNCHANGED <<panelVars, typed, dialogVars>>

EditConnection ==
    /\ Uncovered
    /\ Open("connection")
    /\ UNCHANGED <<call, panelVars, typed, pending, formVars>>

\* The list will be loaded by the handler of this render.
SaveConnection(c) ==
    /\ "connection" \in dialogs
    /\ Send(Request("update", c, connected))
    /\ UNCHANGED <<panelVars, typed, dialogVars>>

\* loadConnections marks the connection that was connected when it was called.
ClickReload ==
    /\ Uncovered
    /\ Send(Request("list", None, connected))
    /\ UNCHANGED <<panelVars, typed, dialogVars>>

\* A dialog is closed; the cancel button of a switch also forgets its target.
Dismiss(d) ==
    /\ d \in dialogs
    /\ Shut(d)
    /\ \/ UNCHANGED pending
       \/ d = "switch" /\ pending' = None
    /\ UNCHANGED <<call, panelVars, typed, formVars>>

-----------------------------------------------------------------------------
(***************************************************************************)
(* What the page does with an answer.                                       *)
(***************************************************************************)

\* The call with which a handler waits is answered, with success or failure.
Ends(s, op) == call[s].op = op
Free(s) == call' = [call EXCEPT ![s] = Rest]

\* setCurrentKeys([]) and setSelectedDatabase(null).
ClearPanel ==
    /\ panel' = None
    /\ listed' = None

\* Mutant of EndSwitch: the dialog is left open.
EndSwitchOpen(s) ==
    /\ pending' = IF call[s].next = None THEN pending ELSE None
    /\ UNCHANGED dialogs

\* A switch is over, however its two calls ended.
EndSwitch(s) ==
    IF call[s].next = None
    THEN UNCHANGED <<pending, dialogs>>
    ELSE pending' = None /\ Shut("switch")

Connected(s) ==
    /\ Ends(s, "connect")
    /\ connected' = call[s].conn
    /\ tree' = {call[s].conn}
    /\ ClearPanel
    /\ EndSwitch(s)
    /\ Free(s)
    /\ UNCHANGED <<loading, typed, formVars>>

ConnectFails(s) ==
    /\ Ends(s, "connect")
    /\ EndSwitch(s)
    /\ Free(s)
    /\ UNCHANGED <<panelVars, typed, formVars>>

Disconnected(s) ==
    /\ Ends(s, "disconnect") /\ call[s].next = None
    /\ connected' = IF connected = call[s].conn THEN None ELSE connected
    /\ tree' = tree \ {call[s].conn}
    /\ ClearPanel
    /\ Free(s)
    /\ UNCHANGED <<loading, typed, dialogVars>>

\* A failed disconnect changes nothing.
DisconnectFails(s) ==
    /\ Ends(s, "disconnect") /\ call[s].next = None
    /\ Free(s)
    /\ UNCHANGED <<panelVars, typed, dialogVars>>

\* A switch connects whether or not the old connection could be closed.
SwitchGoesOn(s) ==
    /\ Ends(s, "disconnect") /\ call[s].next # None
    /\ call' = [call EXCEPT ![s] = Request("connect", call[s].next, call[s].next)]
    /\ UNCHANGED <<panelVars, typed, dialogVars>>

\* Mutant of Scanned: the list is shown under the heading that is there.
ScannedUnder(s) ==
    /\ Ends(s, "scan")
    /\ listed' = call[s].place
    /\ panel' = IF panel = None THEN call[s].place ELSE panel
    /\ loading' = FALSE
    /\ Free(s)
    /\ UNCHANGED <<connected, tree, typed, dialogVars>>

Scanned(s) ==
    /\ Ends(s, "scan")
    /\ listed' = call[s].place
    /\ panel' = call[s].place
    /\ loading' = FALSE
    /\ Free(s)
    /\ UNCHANGED <<connected, tree, typed, dialogVars>>

\* Mutant of ScanFails: loadingKeys is reset only after a success.
ScanFailsLoading(s) ==
    /\ Ends(s, "scan")
    /\ listed' = None
    /\ Free(s)
    /\ UNCHANGED <<connected, tree, panel, loading, typed, dialogVars>>

ScanFails(s) ==
    /\ Ends(s, "scan")
    /\ listed' = None
    /\ loading' = FALSE
    /\ Free(s)
    /\ UNCHANGED <<connected, tree, panel, typed, dialogVars>>

Viewed(s) ==
    /\ Ends(s, "view")
    /\ Open("detail")
    /\ Free(s)
    /\ UNCHANGED <<panelVars, typed, pending, formVars>>

\* The form gets the key that was read; editingKey may be another by now.
EditReady(s) ==
    /\ Ends(s, "edit")
    /\ form' = call[s].next
    /\ Open("form")
    /\ Free(s)
    /\ UNCHANGED <<panelVars, typed, pending, editing, overlap>>

\* A key is deleted or saved: the dialog closes and the panel that was shown
\* at the click is loaded again.
Written(s, op, dialog) ==
    /\ Ends(s, op)
    /\ Shut(dialog)
    /\ call' = [call EXCEPT ![s] = Ask("scan", call[s].place, None)]
    /\ loading' = TRUE
    /\ UNCHANGED <<connected, tree, panel, listed, typed, pending, formVars>>

Updated(s) ==
    /\ Ends(s, "update")
    /\ Shut("connection")
    /\ call' = [call EXCEPT ![s] = Request("list", None, call[s].next)]
    /\ UNCHANGED <<panelVars, typed, pending, formVars>>

Listed(s) ==
    /\ Ends(s, "list")
    /\ tree' = {call[s].next} \ {None}
    /\ Free(s)
    /\ UNCHANGED <<connected, panel, listed, loading, typed, dialogVars>>

\* A toast tells that a key or a connection could not be read or written.
Refused(s) ==
    /\ call[s].op \in {"view", "edit", "delete", "save", "update", "list"}
    /\ Free(s)
    /\ UNCHANGED <<panelVars, typed, dialogVars>>

\* The back end answers a call, in any order.
Answer(s) ==
    \/ Connected(s) \/ ConnectFails(s)
    \/ Disconnected(s) \/ DisconnectFails(s) \/ SwitchGoesOn(s)
    \/ Scanned(s) \/ ScanFails(s)
    \/ Viewed(s) \/ EditReady(s)
    \/ Written(s, "delete", "delete") \/ Written(s, "save", "form")
    \/ Updated(s) \/ Listed(s) \/ Refused(s)

-----------------------------------------------------------------------------
User ==
    \/ \E c \in Conn : ClickConnect(c) \/ ClickDisconnect(c) \/ SaveConnection(c)
    \/ \E c \in Conn, d \in Db : ClickDatabase(c, d)
    \/ \E k \in Key : ClickEdit(k)
    \/ \E d \in Dialog : Dismiss(d)
    \/ ClickRefresh \/ ClickView \/ ClickAdd \/ ClickDelete \/ EditConnection \/ ClickReload
    \/ ConfirmSwitch \/ ConfirmDelete \/ SaveKey
    \/ Search

Next ==
    \/ User
    \/ SearchFires
    \/ \E s \in Slot : Answer(s)

Spec == Init /\ [][Next]_vars

-----------------------------------------------------------------------------
OfPlace == {"scan", "view", "edit", "delete", "save"}
OfConn == {"connect", "disconnect", "update"}

\* The shapes of the page's state; a call is always made for a database or a
\* connection, although the panel and the pending connection are cleared by
\* late answers while dialogs are open (pages/Redis/index.tsx:80-121, 190, 340).
TypeOK ==
    /\ call \in [Slot ->
         [op : Op \cup {"none"}, place : Place \cup {None}, conn : Conn \cup {None},
          next : Conn \cup Key \cup {None}]]
    /\ \A s \in Slot :
          /\ call[s].op \in OfPlace => call[s].place # None
          /\ call[s].op \in OfConn => call[s].conn # None
    /\ connected \in Conn \cup {None}
    /\ tree \subseteq Conn
    /\ panel \in Place \cup {None}
    /\ listed \in Place \cup {None}
    /\ loading \in BOOLEAN
    /\ typed \in Place \cup {None}
    /\ dialogs \subseteq Dialog
    /\ pending \in Conn \cup {None}
    /\ editing \in Key \cup {None}
    /\ form \in Key \cup {None}
    /\ overlap \in BOOLEAN

\* The keys in the panel were asked for the database that heads it, in
\* whatever order connects, disconnects and scans are answered
\* (pages/Redis/index.tsx:216-229).
PanelCoherent == panel # None /\ listed # None => listed = panel

\* The dialog that asks about a switch names a connection, however the clicks
\* on it and the ends of earlier switches follow one another
\* (pages/Redis/index.tsx:190-199).
SwitchNamed == "switch" \in dialogs => pending # None

\* The form saves to the key whose name and value it shows, unless a click for
\* another key or a new one came before the value was there
\* (pages/Redis/index.tsx:304-330, 353-370).
FormNamesTarget == "form" \in dialogs /\ ~overlap => form = editing

\* The list shows that it loads only while a scan is under way, so that it
\* ends when the calls end, although loadingKeys does not count the scans that
\* overlap (pages/Redis/index.tsx:216-229).
LoadingServed == loading => \E s \in Slot : call[s].op = "scan"
=============================================================================
