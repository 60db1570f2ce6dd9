---------------------------- MODULE RelaySubscriber ----------------------------
(***************************************************************************)
(* The relay subscriber (internal/services/ghws/subscriber.go): Run and    *)
(* runOnce, which create a hook, dial its WebSocket, activate the hook,    *)
(* read deliveries and acknowledge them, delete the hook and start again   *)
(* after an error.  The relay and the hooks at GitHub are external; they   *)
(* are modelled by what the subscriber's calls can meet.                   *)
(***************************************************************************)
EXTENDS Naturals

CONSTANTS
    Hooks,         \* the hooks GitHub may create: a bound on the creations
    NoHook,        \* runOnce holds no hook
    Deliveries,    \* the deliveries the relay may push
    NoDelivery,
    MaxBackoff,    \* maxBackoff, in units of initialBackoff
    MaxFaults      \* bound: failing calls and connections

ASSUME RelayAssumption ==
    /\ NoHook \notin Hooks
    /\ NoDelivery \notin Deliveries
    /\ MaxBackoff \in Nat \ {0}
    /\ MaxFaults \in Nat

VARIABLES
    at,          \* where Run and runOnce are
    ctxDone,     \* the context of Run is cancelled
    hook,        \* the hook of the current runOnce
    outcome,     \* what runOnce is about to return: "nil" or "error"
    backoff,     \* the next wait
    frame,       \* the delivery in hand
    status,      \* what Ingest answered for it
    hooks,       \* hooks[h]: the hook at GitHub
    socket,      \* the connection of the current hook
    wire,        \* deliveries pushed and not read yet
    ingested,    \* deliveries Ingest accepted
    acked,       \* acked[d]: the last acknowledgement the relay got
    deleted,     \* history: hooks whose deletion was requested
    answer,      \* answer[h]: how the creation of h was answered
    faults       \* failing calls so far

runVars == <<at, ctxDone, hook, outcome, backoff, frame, status>>
githubVars == <<hooks, socket, wire, acked>>
historyVars == <<ingested, deleted, answer, faults>>
vars == <<runVars, githubVars, historyVars>>

Places == {"check", "create", "dial", "activate", "read", "ingest", "ack",
           "delete", "decide", "wait", "returned"}
Statuses == {"none", "accepted", "refused"}

TypeOK ==
    /\ at \in Places
    /\ ctxDone \in BOOLEAN
    /\ hook \in Hooks \cup {NoHook}
    /\ outcome \in {"nil", "error"}
    /\ backoff \in 1 .. MaxBackoff
    /\ frame \in Deliveries \cup {NoDelivery}
    /\ status \in Statuses
    /\ hooks \in [Hooks -> {"none", "inactive", "active", "gone"}]
    /\ socket \in {"none", "open", "normal", "broken", "closed"}
    /\ wire \subseteq Deliveries
    /\ ingested \subseteq Deliveries
    /\ acked \in [Deliveries -> Statuses]
    /\ deleted \subseteq Hooks
    /\ answer \in [Hooks -> {"none", "usable", "noURL", "unusable", "lost"}]
    /\ faults \in 0 .. MaxFaults

Init ==
    /\ at = "check" /\ ctxDone = FALSE
    /\ hook = NoHook /\ outcome = "error" /\ backoff = 1
    /\ frame = NoDelivery /\ status = "none"
    /\ hooks = [h \in Hooks |-> "none"]
    /\ socket = "none" /\ wire = {}
    /\ acked = [d \in Deliveries |-> "none"]
    /\ answer = [h \in Hooks |-> "none"]
    /\ ingested = {} /\ deleted = {}
    /\ faults = 0

\* A call fails by itself, or because the context is cancelled.
Fails ==
    \/ faults < MaxFaults /\ faults' = faults + 1
    \/ ctxDone /\ UNCHANGED faults

\* runOnce returns: its deferred calls close the connection, then delete
\* the hook.
Leave(result) ==
    /\ at' = "delete"
    /\ outcome' = result
    /\ socket' = IF socket = "none" THEN "none" ELSE "closed"
--------------------------------------------------------------------------------
(***************************************************************************)
(* Plausible bugs: mutations of actions below.                             *)
(***************************************************************************)

\* The hook is created active.
CreatedActive(h, how) ==
    /\ hooks[h] = "none"
    /\ hooks' = [hooks EXCEPT ![h] = "active"]
    /\ answer' = [answer EXCEPT ![h] = how]

\* The deletion is deferred after the dial only.
DialFailsNoDelete ==
    /\ at = "dial"
    /\ Fails
    /\ at' = "decide" /\ outcome' = "error" /\ hook' = NoHook
    /\ UNCHANGED <<ctxDone, backoff, frame, status, githubVars, ingested, deleted, answer>>

\* Every frame is acknowledged as accepted.
WriteAckAlwaysAccepted ==
    /\ at = "ack" /\ socket = "open"
    /\ acked' = [acked EXCEPT ![frame] = "accepted"]
    /\ at' = "read" /\ frame' = NoDelivery /\ status' = "none"
    /\ UNCHANGED <<ctxDone, hook, outcome, backoff, hooks, socket, wire, historyVars>>

\* The backoff is doubled without its cap.
WaitEndsUncapped ==
    /\ at = "wait"
    /\ at' = "check"
    /\ backoff' = IF backoff > MaxBackoff THEN MaxBackoff ELSE 2 * backoff
    /\ UNCHANGED <<ctxDone, hook, outcome, frame, status, githubVars, historyVars>>

\* Every end of runOnce is an end of Run.
DecideNoRetry ==
    /\ at = "decide"
    /\ at' = "returned"
    /\ UNCHANGED <<ctxDone, hook, outcome, backoff, frame, status, githubVars, historyVars>>

\* The connection is closed only between two frames' reads, when Ingest is
\* through: a blocked read is never woken.
CloseOnCancelLate ==
    /\ ctxDone
    /\ at \in {"ingest", "ack"} /\ socket # "closed"
    /\ socket' = "closed"
    /\ UNCHANGED <<runVars, hooks, wire, acked, historyVars>>
--------------------------------------------------------------------------------
(***************************************************************************)
(* Run and runOnce.                                                        *)
(***************************************************************************)
Check ==
    /\ at = "check"
    /\ at' = IF ctxDone THEN "returned" ELSE "create"
    /\ UNCHANGED <<ctxDone, hook, outcome, backoff, frame, status, githubVars, historyVars>>

\* GitHub creates a hook and answers the request so.
Created(h, how) ==
    /\ hooks[h] = "none"
    /\ hooks' = [hooks EXCEPT ![h] = "inactive"]
    /\ answer' = [answer EXCEPT ![h] = how]

\* The answer has a ws_url; createHook does not ask for the url, without which
\* the hook can neither be activated nor deleted.
CreateHook ==
    /\ at = "create"
    /\ \E h \in Hooks :
          /\ hook' = h
          /\ \/ Created(h, "usable") /\ UNCHANGED faults
             \/ Created(h, "noURL") /\ faults < MaxFaults /\ faults' = faults + 1
    /\ at' = "dial"
    /\ UNCHANGED <<ctxDone, outcome, backoff, frame, status, socket, wire, acked,
                   ingested, deleted>>

\* No hook is created; or one is, and the answer is lost or cannot be
\* decoded; or the answer has no ws_url.  createHook returns an error and
\* runOnce does not get as far as its defer.
CreateHookFails ==
    /\ at = "create"
    /\ Fails
    /\ \/ UNCHANGED <<hooks, answer>>
       \/ \E h \in Hooks, how \in {"lost", "unusable"} : Created(h, how)
    /\ at' = "decide" /\ outcome' = "error"
    /\ UNCHANGED <<ctxDone, hook, backoff, frame, status, socket, wire, acked,
                   ingested, deleted>>

Dial ==
    /\ at = "dial"
    /\ socket' = "open"
    /\ at' = "activate"
    /\ UNCHANGED <<ctxDone, hook, outcome, backoff, frame, status, hooks, wire, acked, historyVars>>

DialFails ==
    /\ at = "dial"
    /\ Fails
    /\ Leave("error")
    /\ UNCHANGED <<ctxDone, hook, backoff, frame, status, hooks, wire, acked, ingested, deleted, answer>>

ActivateHook ==
    /\ at = "activate" /\ answer[hook] = "usable"
    /\ hooks' = [hooks EXCEPT ![hook] = "active"]
    /\ at' = "read"
    /\ UNCHANGED <<ctxDone, hook, outcome, backoff, frame, status, socket, wire, acked, historyVars>>

\* The request is refused or lost, or only its answer is; without a url there
\* is nothing to send.
ActivateHookFails ==
    /\ at = "activate"
    /\ \/ answer[hook] = "noURL" /\ UNCHANGED <<hooks, faults>>
       \/ /\ answer[hook] = "usable" /\ Fails
          /\ hooks' \in {hooks, [hooks EXCEPT ![hook] = "active"]}
    /\ Leave("error")
    /\ UNCHANGED <<ctxDone, hook, backoff, frame, status, wire, acked, ingested, deleted, answer>>

\* What arrived before the connection ended can still be read, also what the
\* client has buffered when its own goroutine closes the connection.
ReadFrame ==
    /\ at = "read"
    /\ \E d \in wire : frame' = d /\ wire' = wire \ {d}
    /\ at' = "ingest"
    /\ UNCHANGED <<ctxDone, hook, outcome, backoff, status, hooks, socket, acked, historyVars>>

ReadCloseNormal ==
    /\ at = "read" /\ socket = "normal" /\ wire = {}
    /\ Leave("nil")
    /\ UNCHANGED <<ctxDone, hook, backoff, frame, status, hooks, wire, acked, historyVars>>

\* The connection is gone, or the relay sent something that is not a frame.
ReadFails ==
    /\ at = "read"
    /\ \/ socket \in {"broken", "closed"} /\ UNCHANGED faults
       \/ socket = "open" /\ faults < MaxFaults /\ faults' = faults + 1
    /\ Leave("error")
    /\ UNCHANGED <<ctxDone, hook, backoff, frame, status, hooks, wire, acked,
                   ingested, deleted, answer>>

\* Ingest accepts the delivery (202), or refuses it: ignored, invalid, queue
\* full, shutting down.
Ingest ==
    /\ at = "ingest"
    /\ \/ status' = "accepted" /\ ingested' = ingested \cup {frame}
       \/ status' = "refused" /\ UNCHANGED ingested
    /\ at' = "ack"
    /\ UNCHANGED <<ctxDone, hook, outcome, backoff, frame, githubVars, deleted, answer, faults>>

WriteAck ==
    /\ at = "ack" /\ socket = "open"
    /\ acked' = [acked EXCEPT ![frame] = status]
    /\ at' = "read" /\ frame' = NoDelivery /\ status' = "none"
    /\ UNCHANGED <<ctxDone, hook, outcome, backoff, hooks, socket, wire, historyVars>>

\* The other side is gone: the write fails, or succeeds and is never read.
WriteAckLost ==
    /\ at = "ack" /\ socket # "open"
    /\ frame' = NoDelivery /\ status' = "none"
    /\ \/ Leave("error")
       \/ /\ socket # "closed" /\ at' = "read"
          /\ UNCHANGED <<outcome, socket>>
    /\ UNCHANGED <<ctxDone, hook, backoff, hooks, wire, acked, historyVars>>

\* deleteHook returns at once when it has no url; otherwise it has a context of
\* its own, and its errors are ignored.
DeleteHook ==
    /\ at = "delete"
    /\ \/ answer[hook] = "noURL" /\ UNCHANGED <<hooks, deleted, faults>>
       \/ /\ answer[hook] = "usable"
          /\ deleted' = deleted \cup {hook}
          /\ \/ hooks' = [hooks EXCEPT ![hook] = "gone"] /\ UNCHANGED faults
             \/ faults < MaxFaults /\ faults' = faults + 1 /\ UNCHANGED hooks
    /\ hook' = NoHook /\ socket' = "none" /\ wire' = {}
    /\ at' = "decide"
    /\ UNCHANGED <<ctxDone, outcome, backoff, frame, status, acked, ingested, answer>>

Decide ==
    /\ at = "decide"
    /\ at' = IF ctxDone \/ outcome = "nil" THEN "returned" ELSE "wait"
    /\ UNCHANGED <<ctxDone, hook, outcome, backoff, frame, status, githubVars, historyVars>>

\* The timer fires; the backoff doubles up to its maximum and is never reset.
WaitEnds ==
    /\ at = "wait"
    /\ at' = "check"
    /\ backoff' = IF 2 * backoff > MaxBackoff THEN MaxBackoff ELSE 2 * backoff
    /\ UNCHANGED <<ctxDone, hook, outcome, frame, status, githubVars, historyVars>>

WaitCancelled ==
    /\ at = "wait" /\ ctxDone
    /\ at' = "returned"
    /\ UNCHANGED <<ctxDone, hook, outcome, backoff, frame, status, githubVars, historyVars>>

\* The goroutine that closes the connection when the context is cancelled.
CloseOnCancel ==
    /\ ctxDone
    /\ at \in {"read", "ingest", "ack"} /\ socket # "closed"
    /\ socket' = "closed"
    /\ UNCHANGED <<runVars, hooks, wire, acked, historyVars>>
--------------------------------------------------------------------------------
(***************************************************************************)
(* The server, the relay and the network.                                  *)
(***************************************************************************)

\* wsCancel, at shutdown.
Cancel ==
    /\ ~ctxDone
    /\ ctxDone' = TRUE
    /\ UNCHANGED <<at, hook, outcome, backoff, frame, status, githubVars, historyVars>>

\* GitHub pushes a delivery, or pushes again one that was not accepted.
Push(d) ==
    /\ hook # NoHook /\ hooks[hook] = "active" /\ socket = "open"
    /\ d \notin wire /\ d # frame /\ acked[d] # "accepted"
    /\ wire' = wire \cup {d}
    /\ UNCHANGED <<runVars, hooks, socket, acked, historyVars>>

RelayCloses ==
    /\ socket = "open" /\ faults < MaxFaults
    /\ socket' = "normal"
    /\ faults' = faults + 1
    /\ UNCHANGED <<runVars, hooks, wire, acked, ingested, deleted, answer>>

\* What is on the wire may be lost.
ConnectionBreaks ==
    /\ socket = "open" /\ faults < MaxFaults
    /\ socket' = "broken"
    /\ wire' \in {wire, {}}
    /\ faults' = faults + 1
    /\ UNCHANGED <<runVars, hooks, acked, ingested, deleted, answer>>
--------------------------------------------------------------------------------
RunStep ==
    \/ Check \/ CreateHook \/ CreateHookFails
    \/ Dial \/ DialFails \/ ActivateHook \/ ActivateHookFails
    \/ ReadFrame \/ ReadCloseNormal \/ ReadFails \/ Ingest \/ WriteAck \/ WriteAckLost
    \/ DeleteHook \/ Decide \/ WaitEnds \/ WaitCancelled

Next ==
    \/ RunStep
    \/ CloseOnCancel
    \/ Cancel
    \/ \E d \in Deliveries : Push(d)
    \/ RelayCloses \/ ConnectionBreaks

\* Both goroutines are scheduled; every HTTP call ends, by its timeout if
\* need be; timers fire.
Fairness == WF_vars(RunStep) /\ WF_vars(CloseOnCancel)

Spec == Init /\ [][Next]_vars /\ Fairness
--------------------------------------------------------------------------------
(***************************************************************************)
(* Properties.                                                             *)
(***************************************************************************)

\* GitHub has no active hook whose deliveries nobody reads: "created with
\* active=false so we can finish wiring up the WebSocket before GitHub
\* starts delivering".  The exceptions are a hook whose deletion failed and,
\* until runOnce returns, one whose connection broke or was closed.
ActiveIsConnected ==
    \A h \in Hooks :
        hooks[h] = "active" => h \in deleted \/ (h = hook /\ socket # "none")

\* Every hook of which the subscriber was told both addresses is the current
\* one or its deletion was requested, whichever step of runOnce failed.  It
\* does not hold of a hook answered without ws_url, which createHook rejects,
\* nor of one answered without url, which deleteHook passes over.
HooksTidied ==
    \A h \in Hooks :
        hooks[h] \in {"inactive", "active"} /\ answer[h] = "usable"
          => h \in {hook} \cup deleted

\* "Each redial creates a fresh hook and the previous hook is best-effort
\* deleted", that is any hook whose URL the subscriber was told.
PreviousHookDeleted ==
    \A h \in Hooks :
        hooks[h] \in {"inactive", "active"} /\ answer[h] \in {"usable", "unusable"}
          => h \in {hook} \cup deleted

\* What the relay was told is accepted is in the pipeline, also when
\* connections break between Ingest and the acknowledgement and the delivery
\* is pushed again.
AckedWasIngested == \A d \in Deliveries : acked[d] = "accepted" => d \in ingested

\* After an error the subscriber is back at reading, once calls stop
\* failing, unless it is cancelled.
ComesBack ==
    at = "decide" /\ outcome = "error" ~> at = "read" \/ ctxDone

\* Once cancelled, Run returns, though it may be blocked reading: the server
\* waits for it before it stops the services.
CancelReturns == ctxDone ~> at = "returned"
================================================================================
