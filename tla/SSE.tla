---------------------------------- MODULE SSE ----------------------------------
(***************************************************************************)
(* The SSE handler (handlers/sse_handler.go): a coalescer that keeps the   *)
(* latest payload of each event type, one goroutine that flushes it and    *)
(* fans every event out, and one goroutine per connected client that       *)
(* writes the client's buffer to its connection.                           *)
(*                                                                         *)
(* The payloads of a type are numbered in the order they are submitted; 0  *)
(* stands for none.  A client is one subscription: a browser that connects *)
(* again is another one.  SendEvent and stop have no caller in the server. *)
(***************************************************************************)
EXTENDS Naturals, Sequences

CONSTANTS
    Types,        \* event types
    Clients,      \* subscriptions
    Fast,         \* the clients whose connection goes on taking events
    BufferSize,   \* subscriberBufferSize
    MaxUpdates    \* bound: MaxUpdates[t], payloads submitted of type t

ASSUME SSEAssumption ==
    /\ Types # {}
    /\ Fast \subseteq Clients
    /\ BufferSize \in Nat \ {0}
    /\ MaxUpdates \in [Types -> Nat]

VARIABLES
    latest,      \* latest[t]: the last payload submitted
    pending,     \* coalescer.pending
    batch,       \* batch[t]: taken by flush, still to be broadcast
    event,       \* the event sendEventNow is at
    audience,    \* the rest of sendEventNow's snapshot of the subscribers
    conn,        \* conn[c]: the state of the client's connection
    buffer,      \* buffer[c]: the channel of the subscription
    received,    \* received[c][t]: the last payload written to the client
    dropped,     \* history: dropped[c][t], the last payload dropped for c
    since        \* history: since[c][t], latest[t] when c subscribed

vars == <<latest, pending, batch, event, audience, conn, buffer, received,
          dropped, since>>

Payloads == Nat
Events == [type : Types, payload : Payloads]
None == [t \in Types |-> 0]

TypeOK ==
    /\ latest \in [Types -> Payloads]
    /\ pending \in [Types -> Payloads]
    /\ batch \in [Types -> Payloads]
    /\ event \in Events
    /\ audience \subseteq Clients
    /\ conn \in [Clients -> {"new", "open", "broken", "closed"}]
    /\ buffer \in [Clients -> Seq(Events)]
    /\ received \in [Clients -> [Types -> Payloads]]
    /\ dropped \in [Clients -> [Types -> Payloads]]
    /\ since \in [Clients -> [Types -> Payloads]]
    /\ \A c \in Clients : Len(buffer[c]) <= BufferSize

Init ==
    /\ latest = None
    /\ pending = None
    /\ batch = None
    /\ event = [type |-> CHOOSE t \in Types : TRUE, payload |-> 0]
    /\ audience = {}
    /\ conn = [c \in Clients |-> "new"]
    /\ buffer = [c \in Clients |-> <<>>]
    /\ received = [c \in Clients |-> None]
    /\ dropped = [c \in Clients |-> None]
    /\ since = [c \in Clients |-> None]

Subscribers == {c \in Clients : conn[c] \in {"open", "broken"}}
--------------------------------------------------------------------------------
(***************************************************************************)
(* Plausible bugs: mutations of actions below.                             *)
(***************************************************************************)

\* The first payload of an interval is kept instead of the last.
SubmitKeepsFirst(t) ==
    /\ latest[t] < MaxUpdates[t]
    /\ latest' = [latest EXCEPT ![t] = @ + 1]
    /\ pending' = [pending EXCEPT ![t] = IF @ = 0 THEN latest[t] + 1 ELSE @]
    /\ UNCHANGED <<batch, event, audience, conn, buffer, received, dropped, since>>

\* flush copies the pending events and forgets to reset them.
FlushKeepsPending ==
    /\ batch = None /\ audience = {}
    /\ pending # None
    /\ batch' = pending
    /\ UNCHANGED <<latest, pending, event, audience, conn, buffer, received, dropped, since>>

\* The send waits for room: a full client holds up the ones after it.
SendBlocks(c) ==
    /\ c \in audience
    /\ \A d \in audience : Len(buffer[d]) < BufferSize
    /\ audience' = audience \ {c}
    /\ buffer' = [buffer EXCEPT ![c] = Append(@, event)]
    /\ UNCHANGED <<latest, pending, batch, event, conn, received, dropped, since>>

\* The check for room is off by one.
SendOverfills(c) ==
    /\ c \in audience
    /\ audience' = audience \ {c}
    /\ \/ /\ Len(buffer[c]) <= BufferSize
          /\ buffer' = [buffer EXCEPT ![c] = Append(@, event)]
          /\ UNCHANGED dropped
       \/ /\ Len(buffer[c]) > BufferSize
          /\ dropped' = [dropped EXCEPT ![c][event.type] = event.payload]
          /\ UNCHANGED buffer
    /\ UNCHANGED <<latest, pending, batch, event, conn, received, since>>
--------------------------------------------------------------------------------
(***************************************************************************)
(* The coalescer.                                                          *)
(***************************************************************************)

\* SendEventCoalesced: the newest payload replaces the pending one.
Submit(t) ==
    /\ latest[t] < MaxUpdates[t]
    /\ latest' = [latest EXCEPT ![t] = @ + 1]
    /\ pending' = [pending EXCEPT ![t] = latest[t] + 1]
    /\ UNCHANGED <<batch, event, audience, conn, buffer, received, dropped, since>>

\* A tick of the ticker, when the events of the previous one are all sent.
Flush ==
    /\ batch = None /\ audience = {}
    /\ pending # None
    /\ batch' = pending
    /\ pending' = None
    /\ UNCHANGED <<latest, event, audience, conn, buffer, received, dropped, since>>

\* sendEventNow takes its snapshot of the subscribers; the map of pending
\* events is ranged over in any order.
Broadcast(t) ==
    /\ audience = {} /\ batch[t] # 0
    /\ event' = [type |-> t, payload |-> batch[t]]
    /\ batch' = [batch EXCEPT ![t] = 0]
    /\ audience' = Subscribers
    /\ UNCHANGED <<latest, pending, conn, buffer, received, dropped, since>>

\* One turn of the loop of sendEventNow: it never waits for a client.  The
\* client may have unsubscribed since; its channel is not closed.
Send(c) ==
    /\ c \in audience
    /\ audience' = audience \ {c}
    /\ \/ /\ Len(buffer[c]) < BufferSize
          /\ buffer' = [buffer EXCEPT ![c] = Append(@, event)]
          /\ UNCHANGED dropped
       \/ /\ Len(buffer[c]) = BufferSize
          /\ dropped' = [dropped EXCEPT ![c][event.type] = event.payload]
          /\ UNCHANGED buffer
    /\ UNCHANGED <<latest, pending, batch, event, conn, received, since>>
--------------------------------------------------------------------------------
(***************************************************************************)
(* HandleSSE, one goroutine per client.                                    *)
(***************************************************************************)
Subscribe(c) ==
    /\ conn[c] = "new"
    /\ conn' = [conn EXCEPT ![c] = "open"]
    /\ since' = [since EXCEPT ![c] = latest]
    /\ UNCHANGED <<latest, pending, batch, event, audience, buffer, received, dropped>>

\* An event is taken from the channel and written; a broken connection
\* swallows it.
Write(c) ==
    /\ conn[c] \in {"open", "broken"} /\ buffer[c] # <<>>
    /\ buffer' = [buffer EXCEPT ![c] = Tail(@)]
    /\ \/ /\ conn[c] = "open"
          /\ LET e == Head(buffer[c])
             IN received' = [received EXCEPT ![c][e.type] = e.payload]
       \/ conn[c] = "broken" /\ UNCHANGED received
    /\ UNCHANGED <<latest, pending, batch, event, audience, conn, dropped, since>>

\* The client goes away, or the server's WriteTimeout has passed since it
\* connected: writes fail and the request context is cancelled.
Break(c) ==
    /\ conn[c] = "open"
    /\ conn' = [conn EXCEPT ![c] = "broken"]
    /\ UNCHANGED <<latest, pending, batch, event, audience, buffer, received, dropped, since>>

\* The select sees the cancelled context; the deferred unsubscribe runs.
Unsubscribe(c) ==
    /\ conn[c] = "broken"
    /\ conn' = [conn EXCEPT ![c] = "closed"]
    /\ UNCHANGED <<latest, pending, batch, event, audience, buffer, received, dropped, since>>
--------------------------------------------------------------------------------
Coalescer ==
    \/ Flush
    \/ \E t \in Types : Broadcast(t)
    \/ \E c \in Clients : Send(c)

Next ==
    \/ Coalescer
    \/ \E t \in Types : Submit(t)
    \/ \E c \in Clients : Subscribe(c) \/ Write(c) \/ Break(c) \/ Unsubscribe(c)

\* The coalescer's goroutine is scheduled and its ticker goes on; a fast
\* client's goroutine is scheduled and its connection takes what is written.
\* Nothing is assumed of the other clients.
Fairness == WF_vars(Coalescer) /\ \A c \in Fast : WF_vars(Write(c))

Spec == Init /\ [][Next]_vars /\ Fairness
--------------------------------------------------------------------------------
(***************************************************************************)
(* Properties.                                                             *)
(***************************************************************************)

\* The events of each type in a client's channel are newer than what was
\* written to it, and each is newer than the one before: the client never
\* sees an older update after a newer one, nor the same one twice, though
\* the coalescer sends outside its lock while payloads are submitted.
NewestLast ==
    \A c \in Clients : \A i \in 1 .. Len(buffer[c]) :
        /\ received[c][buffer[c][i].type] < buffer[c][i].payload
        /\ \A j \in 1 .. i - 1 :
             buffer[c][j].type = buffer[c][i].type
               => buffer[c][j].payload < buffer[c][i].payload

\* What was submitted last since a client subscribed is on its way to the
\* client, written to it, or was dropped because its buffer was full: the
\* coalescer only forgets payloads that a newer one replaced.
OnItsWay(c, t) ==
    \/ pending[t] = latest[t]
    \/ batch[t] = latest[t]
    \/ c \in audience /\ event = [type |-> t, payload |-> latest[t]]
    \/ \E i \in 1 .. Len(buffer[c]) : buffer[c][i] = [type |-> t, payload |-> latest[t]]

LastNotMissed ==
    \A c \in Clients, t \in Types :
        conn[c] = "open" /\ since[c][t] < latest[t]
          => \/ OnItsWay(c, t)
             \/ latest[t] \in {received[c][t], dropped[c][t]}

\* A slow client cannot starve the others ("so a slow client cannot starve
\* other clients of events"): what is submitted while a fast client is
\* connected is written to it, or was dropped for it alone, although other
\* clients never empty their buffers.
UpdatesArrive ==
    \A c \in Fast, t \in Types : \A n \in 1 .. MaxUpdates[t] :
        conn[c] = "open" /\ since[c][t] < n /\ latest[t] = n
          ~> \/ conn[c] # "open"
             \/ received[c][t] >= n
             \/ dropped[c][t] >= n
================================================================================
