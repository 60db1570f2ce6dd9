------------------------------- MODULE Dashboard -------------------------------
(***************************************************************************)
(* The table of workflow runs in the browser (App.tsx, WorkflowTable.tsx), *)
(* from a changed row of workflow_runs to the screen: the handler commits  *)
(* the row and announces it, SSE carries the announcement, useSSE notices  *)
(* it, useThrottledLive keeps it until the next tick or until the user     *)
(* lets go of the table, and the table loads its page over REST.           *)
(*                                                                         *)
(* SSE is the module of that name with the one type of event the server    *)
(* sends; a client is one of the browser's successive connections.  The    *)
(* contents of workflow_runs are numbered by the changes committed.        *)
(***************************************************************************)
EXTENDS Naturals, Sequences, FiniteSets

CONSTANTS
    Connections,   \* the connections the browser may open, one at a time
    BufferSize,    \* subscriberBufferSize
    Pages,         \* pages of the table
    FirstPage,     \* page 1
    MaxChanges,    \* bound: changes of workflow_runs
    MaxLoads,      \* bound: requests of the table in flight
    MaxFailures,   \* bound: requests that fail
    MaxTouches     \* bound: what the user does, not counting letting go

ASSUME DashboardAssumption ==
    /\ FirstPage \in Pages
    /\ MaxChanges \in Nat /\ MaxLoads \in Nat \ {0}
    /\ MaxFailures \in Nat /\ MaxTouches \in Nat

VARIABLES
    committed,    \* changes of workflow_runs that are committed
    buffered,     \* useThrottledLive holds a value it has not committed
    interacting,  \* the pointer or the focus is in the table
    page,         \* the page the user chose
    loads,        \* loads[l]: a request of the table in flight
    shown,        \* what the table shows
    brought,      \* history: the newest rows a load brought, or failed to bring
    failures, touches,   \* counters for the bounds
    latest, pending, batch, event, audience, conn, buffer, received, dropped, since

sseVars == <<latest, pending, batch, event, audience, conn, buffer, received, dropped,
             since>>
tableVars == <<page, loads, shown, brought>>
boundVars == <<failures, touches>>
vars == <<committed, buffered, interacting, tableVars, boundVars, sseVars>>

Update == "workflow_update"
S == INSTANCE SSE WITH
        Types <- {Update}, Clients <- Connections, Fast <- Connections,
        MaxUpdates <- [t \in {Update} |-> MaxChanges]

ASSUME DashboardSSEAssumption == S!SSEAssumption

Slots == 1 .. MaxLoads
Free == [at |-> "free", page |-> FirstPage, rows |-> 0]
Rows == 0 .. MaxChanges

TypeOK ==
    /\ committed \in Rows
    /\ buffered \in BOOLEAN /\ interacting \in BOOLEAN
    /\ page \in Pages
    /\ loads \in [Slots -> [at : {"free", "asked", "read", "error"}, page : Pages, rows : Rows]]
    /\ brought \in Rows
    /\ shown \in [state : {"nothing", "rows", "error"}, page : Pages, rows : Rows]
    /\ failures \in 0 .. MaxFailures /\ touches \in 0 .. MaxTouches
    /\ S!TypeOK

\* The table has been mounted and asks for its first page; the connection is
\* opened independently of it.
Init ==
    /\ committed = 0
    /\ buffered = FALSE /\ interacting = FALSE
    /\ page = FirstPage
    /\ loads = [l \in Slots |-> IF l = 1 THEN [Free EXCEPT !.at = "asked"] ELSE Free]
    /\ shown = [state |-> "nothing", page |-> FirstPage, rows |-> 0]
    /\ brought = 0
    /\ failures = 0 /\ touches = 0
    /\ S!Init
-----------------------------------------------------------------------------
(* The server *)

\* The handler of an event commits a changed row ...
CommitRun ==
    /\ committed < MaxChanges
    /\ committed' = committed + 1
    /\ UNCHANGED <<buffered, interacting, tableVars, boundVars, sseVars>>

\* Mutant of Announce: the update is announced before the row is committed.
AnnounceFirst ==
    /\ latest[Update] =< committed
    /\ S!Submit(Update)
    /\ UNCHANGED <<committed, buffered, interacting, tableVars, boundVars>>

\* ... and announces it afterwards.
Announce ==
    /\ latest[Update] < committed
    /\ S!Submit(Update)
    /\ UNCHANGED <<committed, buffered, interacting, tableVars, boundVars>>

Coalesce ==
    /\ S!Coalescer
    /\ UNCHANGED <<committed, buffered, interacting, tableVars, boundVars>>

\* The connection breaks, or WriteTimeout ends it; the server notices.
Disconnect(c) ==
    /\ S!Break(c) \/ S!Unsubscribe(c)
    /\ UNCHANGED <<committed, buffered, interacting, tableVars, boundVars>>

\* GetWorkflowRuns reads the rows of the page, or fails.
ReadRows(l) ==
    /\ loads[l].at = "asked"
    /\ \E answer \in {"read", "error"} :
          /\ loads' = [loads EXCEPT ![l].at = answer, ![l].rows = committed]
          /\ failures' = IF answer = "error" THEN failures + 1 ELSE failures
          /\ failures' =< MaxFailures
    /\ UNCHANGED <<committed, buffered, interacting, page, shown, brought, touches, sseVars>>

-----------------------------------------------------------------------------
(* useSSE *)

\* connect, at once or after a delay when the last connection was lost.
Connect(c) ==
    /\ \A d \in Connections : conn[d] # "open"
    /\ S!Subscribe(c)
    /\ UNCHANGED <<committed, buffered, interacting, tableVars, boundVars>>

\* The server writes an event; onWorkflowUpdate counts it in the buffered value.
Notice(c) ==
    /\ S!Write(c)
    /\ buffered' = (buffered \/ conn[c] = "open")
    /\ UNCHANGED <<committed, interacting, tableVars, boundVars>>

-----------------------------------------------------------------------------
(* useThrottledLive and WorkflowTable *)

Ask(p) ==
    LET l == CHOOSE l \in Slots : loads[l].at = "free"
    IN  /\ \E k \in Slots : loads[k].at = "free"
        /\ loads' = [loads EXCEPT ![l] = [at |-> "asked", page |-> p, rows |-> 0]]

\* The effect of a committed value: the table loads its page again.
Refresh == buffered' = FALSE /\ Ask(page)

\* Mutant of Tick: it gives up a value it must not commit.
TickForgets ==
    /\ buffered
    /\ IF interacting THEN buffered' = FALSE /\ UNCHANGED loads ELSE Refresh
    /\ UNCHANGED <<committed, interacting, page, shown, brought, boundVars, sseVars>>

\* The interval of 30s, unless the user is interacting.
Tick ==
    /\ buffered /\ ~interacting
    /\ Refresh
    /\ UNCHANGED <<committed, interacting, page, shown, brought, boundVars, sseVars>>

\* The answer of a load: the last to arrive is shown, whichever was asked last.
\* After an error the table is empty.
Arrive(l) ==
    /\ loads[l].at \in {"read", "error"}
    /\ shown' = IF loads[l].at = "read"
                THEN [state |-> "rows", page |-> loads[l].page, rows |-> loads[l].rows]
                ELSE [shown EXCEPT !.state = "error"]
    /\ brought' = IF loads[l].rows > brought THEN loads[l].rows ELSE brought
    /\ loads' = [loads EXCEPT ![l] = Free]
    /\ UNCHANGED <<committed, buffered, interacting, page, boundVars, sseVars>>

-----------------------------------------------------------------------------
(* The user *)

Touch == touches < MaxTouches /\ touches' = touches + 1

Interact ==
    /\ Touch
    /\ ~interacting
    /\ interacting' = TRUE
    /\ UNCHANGED <<committed, buffered, tableVars, failures, sseVars>>

\* Letting go commits a buffered value at once.
LetGo ==
    /\ interacting
    /\ interacting' = FALSE
    /\ IF buffered THEN Refresh ELSE UNCHANGED <<buffered, loads>>
    /\ UNCHANGED <<committed, page, shown, brought, boundVars, sseVars>>

\* Previous and Next: the table loads the page, whatever is in flight.
ChoosePage(p) ==
    /\ Touch
    /\ p # page
    /\ page' = p
    /\ Ask(p)
    /\ UNCHANGED <<committed, buffered, interacting, shown, brought, failures, sseVars>>

\* Another repository or status: the key changes, so that a new table is
\* mounted, which asks for its first page; the old one's answers are ignored.
ChooseFilter ==
    /\ Touch
    /\ page' = FirstPage
    /\ loads' = [l \in Slots |-> IF l = 1 THEN [Free EXCEPT !.at = "asked"] ELSE Free]
    /\ shown' = [state |-> "nothing", page |-> FirstPage, rows |-> 0]
    /\ UNCHANGED <<committed, buffered, interacting, brought, failures, sseVars>>

-----------------------------------------------------------------------------
Next ==
    \/ CommitRun \/ Announce \/ Coalesce
    \/ \E c \in Connections : Connect(c) \/ Notice(c) \/ Disconnect(c)
    \/ \E l \in Slots : ReadRows(l) \/ Arrive(l)
    \/ Tick
    \/ Interact \/ LetGo \/ ChooseFilter
    \/ \E p \in Pages : ChoosePage(p)

Spec == Init /\ [][Next]_vars

\* The handler's goroutine, the coalescer and the goroutine of each connection
\* are scheduled, requests are answered, timers fire and useSSE connects again.
\* Of the user it is assumed only that the table is let go.
Fairness ==
    /\ WF_vars(Announce) /\ WF_vars(Coalesce)
    /\ WF_vars(\E c \in Connections : Connect(c))
    /\ WF_vars(\E c \in Connections : Notice(c))
    /\ WF_vars(\E l \in Slots : ReadRows(l) \/ Arrive(l))
    /\ WF_vars(Tick)
    /\ WF_vars(LetGo)

FairSpec == Spec /\ Fairness

-----------------------------------------------------------------------------
\* While the browser is connected, the last change announced to it is never
\* nowhere: it is on its way in the coalescer or a channel, or the channel
\* still holds an older one; or the browser knows that something changed; or a
\* load is about to read the change, has read it or has brought it.  A dropped
\* update, a table that is held or a filter that is changed between two of
\* these places loses nothing.
ChangeNotLost ==
    \A c \in Connections :
        conn[c] = "open" /\ since[c][Update] < latest[Update] =>
            \/ S!OnItsWay(c, Update) \/ buffer[c] # <<>>
            \/ buffered
            \/ \E l \in Slots : loads[l].at = "asked" \/ loads[l].rows >= latest[Update]
            \/ brought >= latest[Update]

\* "The UI re-fetches the table on receipt, so intermediate states can be
\* dropped safely" (sse_handler.go:279-281): a change of a run that is
\* announced while the browser is connected gets onto the screen unless the
\* connection breaks (or its load fails) - also when updates are coalesced or
\* dropped because the buffer is full, when the user holds the table, and when
\* the load is thrown away by a change of the filter.  It rests on the order
\* commit, announce, and load, and on the buffer holding something whenever an
\* update is dropped.
UpdateReachesTable ==
    \A c \in Connections : \A n \in 1 .. MaxChanges :
        conn[c] = "open" /\ since[c][Update] < n /\ latest[Update] = n
          ~> brought >= n \/ conn[c] # "open"

\* A client that missed an event "will catch up on the next REST poll"
\* (sse_handler.go:179-180): once the browser stays connected and runs stop
\* changing, the table comes to show the chosen page as it is in the database.
\* The code does not guarantee it: nothing polls the table, and useSSE loads
\* nothing when it has connected again.
TableCatchesUp ==
    (\E c \in Connections : <>[](conn[c] = "open"))
        => <>[](shown = [state |-> "rows", page |-> page, rows |-> committed])
=============================================================================
