---------------------------- MODULE DashboardProofs ----------------------------
(***************************************************************************)
(* Theorems about Dashboard, for any connections, pages, size of the       *)
(* channels, requests in flight and doings of the user.  What the server   *)
(* sends is taken from SSEProofs: each step of the dashboard is one of SSE *)
(* or leaves it alone.                                                     *)
(***************************************************************************)
EXTENDS Dashboard, TLAPS

\* The theorems about SSE, for the one type of event the server sends.
SP == INSTANCE SSEProofs WITH
        Types <- {Update}, Clients <- Connections, Fast <- Connections,
        MaxUpdates <- [t \in {Update} |-> MaxChanges]

-----------------------------------------------------------------------------
(* The dashboard runs SSE.                                                 *)

\* The constants fit SSE.
LEMMA SSEConstants == SP!SSEAssumption
  BY DashboardSSEAssumption DEF S!SSEAssumption, SP!SSEAssumption

\* Both instances have the same states and steps.
LEMMA SameSSE ==
    /\ S!TypeOK <=> SP!TypeOK
    /\ S!Init <=> SP!Init
    /\ \A t : S!Submit(t) <=> SP!Submit(t)
    /\ S!Coalescer <=> SP!Coalescer
    /\ \A c : /\ S!Subscribe(c) <=> SP!Subscribe(c)
              /\ S!Write(c) <=> SP!Write(c)
              /\ S!Break(c) <=> SP!Break(c)
              /\ S!Unsubscribe(c) <=> SP!Unsubscribe(c)
<1>1. S!TypeOK <=> SP!TypeOK
  BY DEF S!TypeOK, SP!TypeOK, S!Payloads, SP!Payloads, S!Events, SP!Events
<1>2. S!Init <=> SP!Init
  BY DEF S!Init, SP!Init, S!None, SP!None
<1>3. \A t : S!Submit(t) <=> SP!Submit(t)
  BY DEF S!Submit, SP!Submit
<1>4. S!Coalescer <=> SP!Coalescer
  <2>1. S!Flush <=> SP!Flush
    BY DEF S!Flush, SP!Flush, S!None, SP!None
  <2>2. \A t : S!Broadcast(t) <=> SP!Broadcast(t)
    BY DEF S!Broadcast, SP!Broadcast, S!Subscribers, SP!Subscribers
  <2>3. \A c : S!Send(c) <=> SP!Send(c)
    BY DEF S!Send, SP!Send
  <2> QED
    BY <2>1, <2>2, <2>3 DEF S!Coalescer, SP!Coalescer
<1>5. \A c : S!Subscribe(c) <=> SP!Subscribe(c)
  BY DEF S!Subscribe, SP!Subscribe
<1>6. \A c : S!Write(c) <=> SP!Write(c)
  BY DEF S!Write, SP!Write
<1>7. \A c : (S!Break(c) <=> SP!Break(c)) /\ (S!Unsubscribe(c) <=> SP!Unsubscribe(c))
  BY DEF S!Break, SP!Break, S!Unsubscribe, SP!Unsubscribe
<1> QED
  BY <1>1, <1>2, <1>3, <1>4, <1>5, <1>6, <1>7

\* Each step of the dashboard is one of SSE or leaves it alone.
LEMMA SSEStep ==
    ASSUME [Next]_vars
    PROVE  [SP!Next]_(SP!vars)
<1>1. CASE UNCHANGED sseVars
  BY <1>1 DEF sseVars, SP!vars
<1>2. CASE Announce
  BY <1>2, SameSSE DEF Announce, SP!Next
<1>3. CASE Coalesce
  BY <1>3, SameSSE DEF Coalesce, SP!Next
<1>4. ASSUME NEW c \in Connections, Connect(c) \/ Notice(c) \/ Disconnect(c)
      PROVE  SP!Next
  BY <1>4, SameSSE DEF Connect, Notice, Disconnect, SP!Next
<1> QED
  BY <1>1, <1>2, <1>3, <1>4
     DEF Next, CommitRun, ReadRows, Arrive, Tick, Interact, LetGo, ChooseFilter, ChoosePage,
         vars

-----------------------------------------------------------------------------
(* Type correctness.                                                       *)

Loads == [at : {"free", "asked", "read", "error"}, page : Pages, rows : Rows]

\* A request takes a free slot.
LEMMA AskTakesSlot ==
    ASSUME TypeOK, NEW p \in Pages, Ask(p)
    PROVE  /\ loads' \in [Slots -> Loads]
           /\ \E l \in Slots : /\ loads[l].at = "free" /\ loads'[l].at = "asked"
                               /\ \A k \in Slots : k # l => loads'[k] = loads[k]
<1> DEFINE l == CHOOSE l \in Slots : loads[l].at = "free"
<1>1. l \in Slots /\ loads[l].at = "free"
  BY DEF Ask
<1>2. loads' = [loads EXCEPT ![l] = [at |-> "asked", page |-> p, rows |-> 0]]
  BY DEF Ask
<1>3. 0 \in Rows
  BY DashboardAssumption DEF DashboardAssumption, Rows
<1> HIDE DEF l
<1> QED
  BY <1>1, <1>2, <1>3 DEF TypeOK, Loads

\* A new table asks for its first page.
LEMMA MountedLoads ==
    /\ 1 \in Slots /\ 0 \in Rows /\ FirstPage \in Pages
    /\ [l \in Slots |-> IF l = 1 THEN [Free EXCEPT !.at = "asked"] ELSE Free] \in [Slots -> Loads]
  BY DashboardAssumption DEF DashboardAssumption, Slots, Rows, Free, Loads

LEMMA TypeStep ==
    ASSUME TypeOK, [Next]_vars
    PROVE  TypeOK'
<1> DEFINE BrowserType ==
              /\ committed \in Rows
              /\ buffered \in BOOLEAN /\ interacting \in BOOLEAN
              /\ page \in Pages
              /\ loads \in [Slots -> Loads]
              /\ brought \in Rows
              /\ shown \in [state : {"nothing", "rows", "error"}, page : Pages, rows : Rows]
              /\ failures \in 0 .. MaxFailures /\ touches \in 0 .. MaxTouches
<1>0. BrowserType /\ SP!TypeOK
  BY SameSSE DEF TypeOK, Loads
<1>1. SP!TypeOK'
  BY <1>0, SSEStep, SSEConstants, SP!StepTypeSSE
<1>2. (S!TypeOK)' <=> (SP!TypeOK)'
  BY DEF S!TypeOK, SP!TypeOK, S!Payloads, SP!Payloads, S!Events, SP!Events
<1>3. CASE CommitRun
  <2>1. committed + 1 \in Rows
    BY <1>0, <1>3, DashboardAssumption DEF CommitRun, Rows, DashboardAssumption
  <2> QED
    BY <1>0, <1>1, <1>2, <1>3, <2>1 DEF CommitRun, tableVars, boundVars, TypeOK, Loads
<1>4. CASE Announce \/ Coalesce \/ UNCHANGED vars
  BY <1>0, <1>1, <1>2, <1>4 DEF Announce, Coalesce, vars, tableVars, boundVars, TypeOK, Loads
<1>5. ASSUME NEW c \in Connections, Connect(c) \/ Notice(c) \/ Disconnect(c) PROVE TypeOK'
  BY <1>0, <1>1, <1>2, <1>5 DEF Connect, Notice, Disconnect, tableVars, boundVars, TypeOK, Loads
<1>6. ASSUME NEW l \in Slots, ReadRows(l) PROVE TypeOK'
  <2>1. PICK answer \in {"read", "error"} :
          /\ loads' = [loads EXCEPT ![l].at = answer, ![l].rows = committed]
          /\ failures' = IF answer = "error" THEN failures + 1 ELSE failures
          /\ failures' =< MaxFailures
    BY <1>6 DEF ReadRows
  <2>2. failures' \in 0 .. MaxFailures
    BY <1>0, <2>1, DashboardAssumption DEF DashboardAssumption
  <2>3. loads' \in [Slots -> Loads]
    BY <1>0, <2>1 DEF Loads
  <2> QED
    BY <1>0, <1>1, <1>2, <1>6, <2>2, <2>3 DEF ReadRows, TypeOK, Loads
<1>7. ASSUME NEW l \in Slots, Arrive(l) PROVE TypeOK'
  <2>1. loads[l] \in Loads
    BY <1>0
  <2>2. shown' \in [state : {"nothing", "rows", "error"}, page : Pages, rows : Rows]
    BY <1>0, <1>7, <2>1 DEF Arrive, Loads
  <2>3. brought' \in Rows
    BY <1>0, <1>7, <2>1 DEF Arrive, Loads
  <2>4. Free \in Loads
    BY MountedLoads DEF Free, Loads
  <2> QED
    BY <1>0, <1>1, <1>2, <1>7, <2>2, <2>3, <2>4 DEF Arrive, boundVars, TypeOK, Loads
<1>8. CASE Tick \/ LetGo
  <2>1. CASE Refresh
    BY <1>0, <1>1, <1>2, <1>8, <2>1, AskTakesSlot DEF Tick, LetGo, Refresh, boundVars, TypeOK, Loads
  <2>2. CASE UNCHANGED <<buffered, loads>>
    BY <1>0, <1>1, <1>2, <1>8, <2>2 DEF Tick, LetGo, boundVars, TypeOK, Loads
  <2> QED
    BY <1>8, <2>1, <2>2 DEF Tick, LetGo
<1>9. ASSUME Touch PROVE touches' \in 0 .. MaxTouches
  BY <1>0, <1>9, DashboardAssumption DEF Touch, DashboardAssumption
<1>10. CASE Interact
  BY <1>0, <1>1, <1>2, <1>9, <1>10 DEF Interact, tableVars, TypeOK, Loads
<1>11. ASSUME NEW p \in Pages, ChoosePage(p) PROVE TypeOK'
  BY <1>0, <1>1, <1>2, <1>9, <1>11, AskTakesSlot DEF ChoosePage, TypeOK, Loads
<1>12. CASE ChooseFilter
  BY <1>0, <1>1, <1>2, <1>9, <1>12, MountedLoads DEF ChooseFilter, TypeOK, Loads
<1> QED
  BY <1>3, <1>4, <1>5, <1>6, <1>7, <1>8, <1>10, <1>11, <1>12 DEF Next

\* The table, the loads and the connections stay well-typed; no channel
\* exceeds its size and no more requests are in flight than there are slots.
THEOREM DashboardTypeCorrect == Spec => []TypeOK
<1>1. Init => TypeOK
  <2> SUFFICES ASSUME Init PROVE TypeOK
    OBVIOUS
  <2>1. SP!TypeOK
    BY SSEConstants, SameSSE, SP!InitSSE DEF Init, SP!SSEInv
  <2>2. 0 \in 0 .. MaxFailures /\ 0 \in 0 .. MaxTouches
    BY DashboardAssumption DEF DashboardAssumption
  <2> QED
    BY <2>1, <2>2, SameSSE, MountedLoads DEF Init, TypeOK, Loads
<1>2. TypeOK /\ [Next]_vars => TypeOK'
  BY TypeStep
<1> QED
  BY <1>1, <1>2, PTL DEF Spec

-----------------------------------------------------------------------------
(* The path of a change to the screen.                                     *)

\* The handler announces only what it has committed.
AnnouncedIsCommitted == latest[Update] =< committed

\* Where the last announced change is: on its way to connection c, noticed or
\* loaded.
Sought(c) == S!OnItsWay(c, Update) \/ buffer[c] # <<>>
Known == buffered \/ \E l \in Slots : loads[l].at = "asked" \/ loads[l].rows >= latest[Update]
Brought == brought >= latest[Update]

\* The table's part of the state, of the types of TypeOK.
LEMMA TableTypes ==
    ASSUME TypeOK
    PROVE  /\ latest[Update] \in Nat /\ committed \in Nat /\ brought \in Nat
           /\ loads \in [Slots -> Loads] /\ \A l \in Slots : loads[l].rows \in Nat
           /\ \A c \in Connections : since[c][Update] \in Nat
<1>1. Rows \subseteq Nat
  BY DashboardAssumption DEF DashboardAssumption, Rows
<1> QED
  BY <1>1 DEF TypeOK, Loads, S!TypeOK, S!Payloads

\* A load that begins will see every change that is committed by then, and it
\* takes the place of no other.
LEMMA AskKnows ==
    ASSUME TypeOK, NEW p \in Pages, Ask(p)
    PROVE  \E l \in Slots : loads'[l].at = "asked"
  BY AskTakesSlot

\* A load that reads the rows reads the announced change, and the table shows
\* it, or the failure, when the load is done.
LEMMA LoadsBring ==
    ASSUME TypeOK, AnnouncedIsCommitted, Known \/ Brought, NEW l \in Slots,
           ReadRows(l) \/ Arrive(l)
    PROVE  (Known \/ Brought)'
<1>1. UNCHANGED <<buffered, latest>>
  BY DEF ReadRows, Arrive, sseVars
<1>2. CASE ReadRows(l)
  <2>1. loads'[l].rows = committed /\ \A k \in Slots : k # l => loads'[k] = loads[k]
    BY <1>2, TableTypes DEF ReadRows, Loads
  <2>2. brought' = brought
    BY <1>2 DEF ReadRows
  <2>3. loads'[l].rows >= latest[Update]
    BY <2>1, TableTypes DEF AnnouncedIsCommitted
  <2> QED
    BY <1>1, <2>3 DEF Known
<1>3. CASE Arrive(l)
  <2>1. /\ loads[l].at # "asked" /\ \A k \in Slots : k # l => loads'[k] = loads[k]
        /\ brought' = IF loads[l].rows > brought THEN loads[l].rows ELSE brought
    BY <1>3, TableTypes DEF Arrive
  <2>2. brought' >= brought /\ brought' >= loads[l].rows /\ brought' \in Nat
    BY <2>1, TableTypes
  <2>3. brought >= latest[Update] \/ loads[l].rows >= latest[Update] => brought' >= latest[Update]
    BY <2>2, TableTypes
  <2> QED
    BY <1>1, <2>1, <2>3 DEF Known, Brought
<1> QED
  BY <1>2, <1>3

\* The coalescer never drops the last update of a type but for a full channel.
LEMMA CoalescerSeeks ==
    ASSUME TypeOK, NEW c \in Connections, conn[c] = "open", latest[Update] > 0, Sought(c),
           S!Coalescer
    PROVE  Sought(c)'
<1> DEFINE last == [type |-> Update, payload |-> latest[Update]]
<1>0. /\ \A d \in Connections : buffer[d] \in Seq(S!Events) /\ Len(buffer[d]) \in Nat
      /\ event \in S!Events
      /\ BufferSize \in Nat \ {0} /\ latest[Update] \in Nat /\ latest[Update] # 0
  <2>1. \A d \in Connections : buffer[d] \in Seq(S!Events)
    BY DEF TypeOK, S!TypeOK
  <2>2. event \in S!Events
    BY DEF TypeOK, S!TypeOK
  <2>3. BufferSize \in Nat \ {0}
    BY DashboardSSEAssumption DEF S!SSEAssumption
  <2>4. latest[Update] \in Nat /\ latest[Update] # 0
    BY TableTypes
  <2> QED
    BY <2>1, <2>2, <2>3, <2>4
<1>1. CASE S!Flush
  <2>1. batch = S!None /\ S!None[Update] = 0 /\ batch' = pending /\ audience = {}
        /\ UNCHANGED <<latest, audience, event, buffer>>
    BY <1>1 DEF S!Flush, S!None
  <2> QED
    BY <1>0, <2>1 DEF Sought, S!OnItsWay
<1>2. CASE \E t \in {Update} : S!Broadcast(t)
  <2>1. /\ audience = {} /\ batch[Update] # 0
        /\ event' = [type |-> Update, payload |-> batch[Update]]
        /\ audience' = S!Subscribers /\ UNCHANGED <<latest, pending, buffer>>
    BY <1>2 DEF S!Broadcast
  <2>2. c \in audience'
    BY <2>1 DEF S!Subscribers
  <2> QED
    BY <2>1, <2>2 DEF Sought, S!OnItsWay
<1>3. ASSUME NEW d \in Connections, S!Send(d) PROVE Sought(c)'
  <2>1. UNCHANGED <<latest, pending, batch, event>> /\ audience' = audience \ {d}
    BY <1>3 DEF S!Send
  <2>2. CASE d = c
    <3>1. CASE Len(buffer[c]) < BufferSize
      <4>1. buffer'[c] = Append(buffer[c], event)
        BY <1>0, <1>3, <2>2, <3>1 DEF S!Send, TypeOK, S!TypeOK
      <4>2. Append(buffer[c], event) # <<>>
        BY <1>0
      <4> QED
        BY <4>1, <4>2 DEF Sought
    <3>2. CASE Len(buffer[c]) = BufferSize
      <4>1. buffer' = buffer
        BY <1>0, <1>3, <2>2, <3>2 DEF S!Send
      <4>2. buffer[c] # <<>>
        BY <1>0, <3>2
      <4> QED
        BY <4>1, <4>2 DEF Sought
    <3> QED
      BY <1>3, <2>2, <3>1, <3>2 DEF S!Send
  <2>3. CASE d # c
    <3>1. buffer'[c] = buffer[c]
      BY <1>3, <2>3 DEF S!Send, TypeOK, S!TypeOK
    <3> QED
      BY <2>1, <2>3, <3>1 DEF Sought, S!OnItsWay
  <2> QED
    BY <2>2, <2>3
<1> QED
  BY <1>1, <1>2, <1>3 DEF S!Coalescer

\* Only Announce announces, and only what is committed.
LEMMA CommittedStep ==
    ASSUME TypeOK, AnnouncedIsCommitted, [Next]_vars
    PROVE  AnnouncedIsCommitted'
<1>1. CASE UNCHANGED <<latest, committed>>
  BY <1>1 DEF AnnouncedIsCommitted
<1>2. CASE CommitRun
  <2>1. latest' = latest /\ committed' = committed + 1
    BY <1>2 DEF CommitRun, sseVars
  <2> QED
    BY <2>1, TableTypes DEF AnnouncedIsCommitted
<1>3. CASE Announce
  <2>1. latest'[Update] = latest[Update] + 1 /\ committed' = committed /\ latest[Update] < committed
    BY <1>3 DEF Announce, S!Submit, TypeOK, S!TypeOK
  <2> QED
    BY <2>1, TableTypes DEF AnnouncedIsCommitted
<1>4. CASE Coalesce
  BY <1>1, <1>4 DEF Coalesce, S!Coalescer, S!Flush, S!Broadcast, S!Send
<1>5. ASSUME NEW c \in Connections, Connect(c) \/ Notice(c) \/ Disconnect(c)
      PROVE  UNCHANGED <<latest, committed>>
  BY <1>5 DEF Connect, Notice, Disconnect, S!Subscribe, S!Write, S!Break, S!Unsubscribe
<1> QED
  BY <1>1, <1>2, <1>3, <1>4, <1>5
     DEF Next, ReadRows, Arrive, Tick, Interact, LetGo, ChooseFilter, ChoosePage, vars, sseVars

\* What is on its way to the browser, noticed or loaded stays so.
LEMMA NotLostStep ==
    ASSUME TypeOK, AnnouncedIsCommitted, ChangeNotLost, [Next]_vars
    PROVE  ChangeNotLost'
<1> SUFFICES ASSUME NEW c \in Connections, conn'[c] = "open", since'[c][Update] < latest'[Update]
             PROVE  Sought(c)' \/ Known' \/ Brought'
  BY DEF ChangeNotLost, Sought, Known, Brought
<1>a. conn[c] = "open" /\ since[c][Update] < latest[Update]
         => (Sought(c) \/ Known \/ Brought) /\ latest[Update] > 0
  BY TableTypes DEF ChangeNotLost, Sought, Known, Brought
<1>b. UNCHANGED <<buffered, loads, latest, brought>> => (Known' <=> Known) /\ (Brought' <=> Brought)
  BY DEF Known, Brought
<1>c. UNCHANGED sseVars => (Sought(c)' <=> Sought(c)) /\ conn' = conn /\ since' = since /\ latest' = latest
  BY DEF Sought, S!OnItsWay, sseVars
<1>1. CASE CommitRun \/ Interact \/ UNCHANGED vars
  BY <1>a, <1>b, <1>c, <1>1 DEF CommitRun, Interact, vars, tableVars, sseVars
<1>2. CASE Announce
  BY <1>2 DEF Announce, S!Submit, TypeOK, S!TypeOK, Sought, S!OnItsWay
<1>3. CASE Coalesce
  <2>1. S!Coalescer /\ UNCHANGED <<buffered, loads, brought, conn, since, latest>>
    BY <1>3 DEF Coalesce, tableVars, S!Coalescer, S!Flush, S!Broadcast, S!Send
  <2> QED
    BY <1>a, <1>b, <2>1, CoalescerSeeks
<1>4. ASSUME NEW d \in Connections, Connect(d) PROVE Sought(c)' \/ Known' \/ Brought'
  <2>1. UNCHANGED <<buffered, loads, brought, latest, pending, batch, event, audience, buffer>>
    BY <1>4 DEF Connect, tableVars, S!Subscribe
  <2>2. Sought(c)' <=> Sought(c)
    BY <2>1 DEF Sought, S!OnItsWay
  <2>3. d # c
    <3>1. d = c => since'[c][Update] = latest[Update]
      BY <1>4 DEF Connect, S!Subscribe, TypeOK, S!TypeOK
    <3> QED
      BY <2>1, <3>1, TableTypes
  <2>4. conn'[c] = conn[c] /\ since'[c] = since[c]
    BY <1>4, <2>3 DEF Connect, S!Subscribe, TypeOK, S!TypeOK
  <2> QED
    BY <1>a, <1>b, <2>1, <2>2, <2>4
<1>5. ASSUME NEW d \in Connections, Notice(d) PROVE Sought(c)' \/ Known' \/ Brought'
  <2>1. UNCHANGED <<loads, brought, latest, pending, batch, event, audience, conn, since>>
    BY <1>5 DEF Notice, tableVars, S!Write
  <2>2. CASE conn[d] = "open"
    BY <1>5, <2>2 DEF Notice, Known
  <2>3. CASE conn[d] # "open"
    <3>1. buffered' = buffered
      BY <1>5, <2>3 DEF Notice, TypeOK
    <3>2. buffer'[c] = buffer[c]
      BY <1>5, <2>1, <2>3 DEF Notice, S!Write, TypeOK, S!TypeOK
    <3>3. Sought(c)' <=> Sought(c)
      BY <2>1, <3>2 DEF Sought, S!OnItsWay
    <3> QED
      BY <1>a, <1>b, <2>1, <3>1, <3>3
  <2> QED
    BY <2>2, <2>3
<1>6. ASSUME NEW d \in Connections, Disconnect(d) PROVE Sought(c)' \/ Known' \/ Brought'
  <2>1. UNCHANGED <<buffered, loads, brought, latest, pending, batch, event, audience, buffer, since>>
    BY <1>6 DEF Disconnect, tableVars, S!Break, S!Unsubscribe
  <2>2. Sought(c)' <=> Sought(c)
    BY <2>1 DEF Sought, S!OnItsWay
  <2>3. conn[c] = "open"
    BY <1>6 DEF Disconnect, S!Break, S!Unsubscribe, TypeOK, S!TypeOK
  <2> QED
    BY <1>a, <1>b, <2>1, <2>2, <2>3
<1>7. ASSUME NEW l \in Slots, ReadRows(l) \/ Arrive(l) PROVE Sought(c)' \/ Known' \/ Brought'
  <2>1. UNCHANGED sseVars
    BY <1>7 DEF ReadRows, Arrive
  <2> QED
    BY <1>a, <1>c, <1>7, <2>1, LoadsBring
<1>8. CASE Tick \/ LetGo
  <2>1. CASE Refresh
    BY <2>1, AskKnows DEF Refresh, Known, TypeOK
  <2>2. CASE LetGo /\ ~buffered
    BY <1>a, <1>b, <1>c, <2>2 DEF LetGo, sseVars
  <2> QED
    BY <1>8, <2>1, <2>2 DEF Tick, LetGo
<1>9. ASSUME NEW p \in Pages, ChoosePage(p) PROVE Known'
  BY <1>9, AskKnows DEF ChoosePage, Known
<1>10. CASE ChooseFilter
  <2>1. loads'[1].at = "asked"
    BY <1>10, MountedLoads DEF ChooseFilter, Free
  <2> QED
    BY <2>1, MountedLoads DEF Known
<1> QED
  BY <1>1, <1>2, <1>3, <1>4, <1>5, <1>6, <1>7, <1>8, <1>9, <1>10 DEF Next

\* A change that is announced while the browser is connected is, as long as
\* the connection lasts, on its way, noticed or loaded at every moment
\* (sse_handler.go:279-281).
THEOREM NoChangeLost == Spec => []ChangeNotLost
<1>1. Init => AnnouncedIsCommitted /\ ChangeNotLost
  BY DEF Init, S!Init, S!None, AnnouncedIsCommitted, ChangeNotLost
<1>2. TypeOK /\ AnnouncedIsCommitted /\ ChangeNotLost /\ [Next]_vars
        => AnnouncedIsCommitted' /\ ChangeNotLost'
  BY CommittedStep, NotLostStep
<1> QED
  BY <1>1, <1>2, DashboardTypeCorrect, PTL DEF Spec
================================================================================
