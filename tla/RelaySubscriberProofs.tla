------------------------- MODULE RelaySubscriberProofs -------------------------
(***************************************************************************)
(* Theorems about RelaySubscriber, for any number of hooks, deliveries and *)
(* failing calls.                                                          *)
(***************************************************************************)
EXTENDS RelaySubscriber, TLAPS

Holding == {"dial", "activate", "read", "ingest", "ack", "delete"}
Connected == {"activate", "read", "ingest", "ack"}

\* What runOnce holds at each of its places: a hook from its creation to its
\* deletion, never activated when its url is unknown, a connection from the
\* dial on, a delivery from the read to the acknowledgement.  Between two runs
\* it holds nothing.
Control ==
    /\ at \in Holding <=> hook # NoHook
    /\ at \in Connected => socket # "none"
    /\ at \notin Connected \cup {"delete"} => socket = "none"
    /\ at = "dial" => hooks[hook] = "inactive"
    /\ hook # NoHook => answer[hook] \in {"usable", "noURL"}
    /\ hook # NoHook /\ answer[hook] = "noURL" => hooks[hook] = "inactive"
    /\ at \in {"ingest", "ack"} => frame # NoDelivery
    /\ at = "ack" /\ status = "accepted" => frame \in ingested

Safety == ActiveIsConnected /\ HooksTidied /\ AckedWasIngested

RelayInv == TypeOK /\ Control /\ Safety

\* A subscriber that was just created.
LEMMA InitRelay == Init => RelayInv
<1> SUFFICES ASSUME Init PROVE RelayInv
  OBVIOUS
<1> USE RelayAssumption DEF Init
<1>1. backoff \in 1 .. MaxBackoff /\ faults \in 0 .. MaxFaults
  OBVIOUS
<1>2. TypeOK
  BY <1>1 DEF TypeOK, Places, Statuses
<1>3. Control
  BY DEF Control, Holding, Connected
<1>4. Safety
  BY DEF Safety, ActiveIsConnected, HooksTidied, AckedWasIngested
<1> QED
  BY <1>2, <1>3, <1>4 DEF RelayInv

\* The steps of Run between two calls of runOnce.
LEMMA RunSteps ==
    ASSUME RelayInv, Check \/ Decide \/ WaitEnds \/ WaitCancelled
    PROVE  RelayInv'
<1> USE RelayAssumption DEF runVars, githubVars, historyVars, RelayInv
<1>1. TypeOK'
  BY DEF TypeOK, Places, Check, Decide, WaitEnds, WaitCancelled
<1>2. Control'
  BY DEF TypeOK, Control, Holding, Connected, Check, Decide, WaitEnds, WaitCancelled
<1>3. Safety'
  BY DEF Control, Holding, Connected, Safety, ActiveIsConnected, HooksTidied,
     AckedWasIngested, Check, Decide, WaitEnds, WaitCancelled
<1> QED
  BY <1>1, <1>2, <1>3

\* Creating, dialling and activating the hook, and failing to.
LEMMA HookSteps ==
    ASSUME RelayInv,
           CreateHook \/ CreateHookFails \/ Dial \/ DialFails
             \/ ActivateHook \/ ActivateHookFails
    PROVE  RelayInv'
<1> USE RelayAssumption DEF runVars, githubVars, historyVars, RelayInv
<1>1. CASE CreateHook
  <2> PICK h \in Hooks :
           /\ hook' = h
           /\ \/ Created(h, "usable") /\ UNCHANGED faults
              \/ Created(h, "noURL") /\ faults < MaxFaults /\ faults' = faults + 1
    BY <1>1 DEF CreateHook
  <2>1. TypeOK'
    BY <1>1 DEF CreateHook, Created, TypeOK, Places
  <2>2. Control'
    BY <1>1 DEF CreateHook, Created, TypeOK, Control, Holding, Connected
  <2>3. Safety'
    BY <1>1 DEF CreateHook, Created, TypeOK, Control, Holding, Connected, Safety,
       ActiveIsConnected, HooksTidied, AckedWasIngested
  <2> QED
    BY <2>1, <2>2, <2>3
<1>2. CASE CreateHookFails
  <2>1. TypeOK'
    BY <1>2 DEF CreateHookFails, Created, Fails, TypeOK, Places
  <2>2. Control'
    BY <1>2 DEF CreateHookFails, Created, TypeOK, Control, Holding, Connected
  <2>3. Safety'
    BY <1>2 DEF CreateHookFails, Created, TypeOK, Control, Holding, Connected, Safety,
       ActiveIsConnected, HooksTidied, AckedWasIngested
  <2> QED
    BY <2>1, <2>2, <2>3
<1>3. CASE Dial \/ DialFails
  <2>1. TypeOK'
    BY <1>3 DEF Dial, DialFails, Fails, Leave, TypeOK, Places
  <2>2. Control'
    BY <1>3 DEF Dial, DialFails, Leave, TypeOK, Control, Holding, Connected
  <2>3. Safety'
    BY <1>3 DEF Dial, DialFails, Leave, TypeOK, Control, Holding, Connected, Safety,
       ActiveIsConnected, HooksTidied, AckedWasIngested
  <2> QED
    BY <2>1, <2>2, <2>3
<1>4. CASE ActivateHook \/ ActivateHookFails
  <2>1. TypeOK'
    BY <1>4 DEF ActivateHook, ActivateHookFails, Fails, Leave, TypeOK, Places
  <2>2. Control'
    BY <1>4 DEF ActivateHook, ActivateHookFails, Leave, TypeOK, Control, Holding, Connected
  <2>3. Safety'
    BY <1>4 DEF ActivateHook, ActivateHookFails, Leave, TypeOK, Control, Holding,
       Connected, Safety, ActiveIsConnected, HooksTidied, AckedWasIngested
  <2> QED
    BY <2>1, <2>2, <2>3
<1> QED
  BY <1>1, <1>2, <1>3, <1>4

\* The read loop, and the deletion after it.
LEMMA LoopSteps ==
    ASSUME RelayInv,
           ReadFrame \/ ReadCloseNormal \/ ReadFails \/ Ingest \/ WriteAck
             \/ WriteAckLost \/ DeleteHook
    PROVE  RelayInv'
<1> USE RelayAssumption DEF runVars, githubVars, historyVars, RelayInv
<1>1. CASE ReadFrame \/ ReadCloseNormal \/ ReadFails
  <2>1. TypeOK'
    BY <1>1 DEF ReadFrame, ReadCloseNormal, ReadFails, Leave, TypeOK, Places
  <2>2. Control'
    BY <1>1 DEF ReadFrame, ReadCloseNormal, ReadFails, Leave, TypeOK,
       Control, Holding, Connected
  <2>3. Safety'
    BY <1>1 DEF ReadFrame, ReadCloseNormal, ReadFails, Leave, TypeOK, Safety,
       ActiveIsConnected, HooksTidied, AckedWasIngested
  <2> QED
    BY <2>1, <2>2, <2>3
<1>2. CASE Ingest
  <2>1. TypeOK'
    BY <1>2 DEF Ingest, TypeOK, Control, Places, Statuses
  <2>2. Control'
    BY <1>2 DEF Ingest, TypeOK, Control, Holding, Connected
  <2>3. Safety'
    BY <1>2 DEF Ingest, TypeOK, Safety, ActiveIsConnected, HooksTidied, AckedWasIngested
  <2> QED
    BY <2>1, <2>2, <2>3
<1>3. CASE WriteAck \/ WriteAckLost
  <2>1. TypeOK'
    BY <1>3 DEF WriteAck, WriteAckLost, Leave, TypeOK, Places, Statuses
  <2>2. Control'
    BY <1>3 DEF WriteAck, WriteAckLost, Leave, TypeOK, Control, Holding, Connected
  <2>3. Safety'
    BY <1>3 DEF WriteAck, WriteAckLost, Leave, TypeOK, Control, Connected, Safety,
       ActiveIsConnected, HooksTidied, AckedWasIngested
  <2> QED
    BY <2>1, <2>2, <2>3
<1>4. CASE DeleteHook
  <2>1. TypeOK' /\ hook \in Hooks
    BY <1>4 DEF DeleteHook, TypeOK, Control, Holding, Places
  <2>2. Control'
    BY <1>4 DEF DeleteHook, TypeOK, Control, Holding, Connected
  <2>3. Safety'
    BY <1>4, <2>1 DEF DeleteHook, TypeOK, Control, Safety, ActiveIsConnected, HooksTidied,
       AckedWasIngested
  <2> QED
    BY <2>1, <2>2, <2>3
<1> QED
  BY <1>1, <1>2, <1>3, <1>4

\* The cancelled context, the relay and the network.
LEMMA EnvironmentSteps ==
    ASSUME RelayInv,
           CloseOnCancel \/ Cancel \/ (\E d \in Deliveries : Push(d))
             \/ RelayCloses \/ ConnectionBreaks
    PROVE  RelayInv'
<1> USE RelayAssumption DEF runVars, githubVars, historyVars, RelayInv
<1>1. TypeOK'
  <2>1. CASE CloseOnCancel \/ Cancel
    BY <2>1 DEF TypeOK, CloseOnCancel, Cancel
  <2>2. CASE \E d \in Deliveries : Push(d)
    BY <2>2 DEF TypeOK, Push
  <2>3. CASE RelayCloses \/ ConnectionBreaks
    BY <2>3 DEF TypeOK, RelayCloses, ConnectionBreaks
  <2> QED
    BY <2>1, <2>2, <2>3
<1>2. Control'
  BY DEF TypeOK, Control, Holding, Connected, CloseOnCancel, Cancel, Push, RelayCloses,
     ConnectionBreaks
<1>3. Safety'
  BY DEF Safety, ActiveIsConnected, HooksTidied, AckedWasIngested, CloseOnCancel, Cancel,
     Push, RelayCloses, ConnectionBreaks
<1> QED
  BY <1>1, <1>2, <1>3

\* RelayInv is inductive.
LEMMA StepRelay == RelayInv /\ [Next]_vars => RelayInv'
<1> SUFFICES ASSUME RelayInv, [Next]_vars PROVE RelayInv'
  OBVIOUS
<1>1. CASE Next
  BY <1>1, RunSteps, HookSteps, LoopSteps, EnvironmentSteps DEF Next, RunStep
<1>2. CASE UNCHANGED vars
  BY <1>2 DEF vars, runVars, githubVars, historyVars, RelayInv, TypeOK, Control, Safety,
     ActiveIsConnected, HooksTidied, AckedWasIngested
<1> QED
  BY <1>1, <1>2 DEF Next

LEMMA Inductive == Spec => []RelayInv
  BY InitRelay, StepRelay, PTL DEF Spec

\* The subscriber's state is well-typed; its backoff never exceeds maxBackoff.
THEOREM RelayTypeCorrect == Spec => []TypeOK
<1>1. RelayInv => TypeOK
  BY DEF RelayInv
<1> QED
  BY Inductive, <1>1, PTL

\* No hook is active at GitHub while nobody reads its deliveries, except one
\* whose deletion failed: runOnce activates a hook when it is connected.
THEOREM NoDeafHook == Spec => []ActiveIsConnected
<1>1. RelayInv => ActiveIsConnected
  BY DEF RelayInv, Safety
<1> QED
  BY Inductive, <1>1, PTL

\* Whatever fails between creating and deleting a hook, the deletion of every
\* hook that was answered with its url and ws_url is requested before the next
\* one is created.
THEOREM NoHookLeftBehind == Spec => []HooksTidied
<1>1. RelayInv => HooksTidied
  BY DEF RelayInv, Safety
<1> QED
  BY Inductive, <1>1, PTL

\* The relay is told a delivery was accepted only if Ingest accepted it,
\* whatever breaks, is pushed again or is refused later.
THEOREM AcksAreTrue == Spec => []AckedWasIngested
<1>1. RelayInv => AckedWasIngested
  BY DEF RelayInv, Safety
<1> QED
  BY Inductive, <1>1, PTL
================================================================================
