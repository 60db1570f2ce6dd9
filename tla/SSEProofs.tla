------------------------------- MODULE SSEProofs -------------------------------
(***************************************************************************)
(* Theorems about SSE, for any number of event types, clients and updates  *)
(* and any size of the buffers.                                            *)
(***************************************************************************)
EXTENDS SSE, TLAPS

\* The payloads of type t that client c was sent, as far as its channel, the
\* last write and the last drop still show them.
Sent(c, t) ==
    {received[c][t], dropped[c][t]}
      \cup {buffer[c][i].payload : i \in {k \in 1 .. Len(buffer[c]) : buffer[c][k].type = t}}

\* n is newer than all of them.
Newer(n, c, t) == \A sent \in Sent(c, t) : sent < n

\* The payloads of a type are in line: what clients were sent, the event being
\* broadcast, the batch, the pending one, each newer than the one before.
Line(c, t) ==
    /\ \A sent \in Sent(c, t) : sent <= latest[t]
    /\ pending[t] # 0 => Newer(pending[t], c, t)
    /\ batch[t] # 0 => Newer(batch[t], c, t)
    /\ c \in audience /\ event.type = t => Newer(event.payload, c, t)

Queue(t) ==
    /\ pending[t] <= latest[t]
    /\ batch[t] <= latest[t]
    /\ pending[t] # 0 => batch[t] < pending[t]
    /\ event.type = t =>
         /\ event.payload <= latest[t]
         /\ audience # {} => batch[t] = 0
         /\ pending[t] # 0 => event.payload < pending[t]
         /\ batch[t] # 0 => event.payload < batch[t]

Order ==
    /\ \A t \in Types : Queue(t)
    /\ \A c \in Clients, t \in Types : Line(c, t)

SSEInv == TypeOK /\ Order /\ NewestLast /\ LastNotMissed

\* The client whose turn it is in the fan-out was sent the event in addition.
LEMMA SentSend ==
    ASSUME TypeOK, NEW c \in Clients, NEW t \in Types, Send(c)
    PROVE  \A d \in Clients :
             Sent(d, t)' \subseteq
               Sent(d, t) \cup (IF d = c /\ event.type = t THEN {event.payload} ELSE {})
<1> TAKE d \in Clients
<1>1. CASE d # c
  <2>1. buffer'[d] = buffer[d] /\ received'[d] = received[d] /\ dropped'[d] = dropped[d]
    BY <1>1 DEF Send, TypeOK
  <2> QED
    BY <2>1 DEF Sent
<1>2. CASE d = c
  <2> SUFFICES ASSUME NEW n \in Sent(c, t)'
               PROVE  n \in Sent(c, t) \/ (event.type = t /\ n = event.payload)
    BY <1>2
  <2>1. CASE n = received'[c][t]
    BY <2>1 DEF Sent, Send
  <2>2. CASE n = dropped'[c][t]
    <3>1. event.type \in Types /\ event.payload \in Nat
      BY DEF TypeOK, Events, Payloads
    <3>2. \/ dropped'[c][t] = dropped[c][t]
          \/ event.type = t /\ dropped'[c][t] = event.payload
      BY <3>1 DEF Send, TypeOK
    <3> QED
      BY <2>2, <3>2 DEF Sent
  <2>3. ASSUME NEW i \in 1 .. Len(buffer'[c]), buffer'[c][i].type = t, n = buffer'[c][i].payload
        PROVE  n \in Sent(c, t) \/ (event.type = t /\ n = event.payload)
    <3>1. CASE UNCHANGED buffer
      BY <2>3, <3>1 DEF Sent
    <3>2. CASE buffer' = [buffer EXCEPT ![c] = Append(@, event)]
      <4>1. /\ Len(buffer'[c]) = Len(buffer[c]) + 1
            /\ \A k \in 1 .. Len(buffer[c]) : buffer'[c][k] = buffer[c][k]
            /\ buffer'[c][Len(buffer[c]) + 1] = event
            /\ Len(buffer[c]) \in Nat
        BY <3>2 DEF TypeOK
      <4>2. i \in 1 .. Len(buffer[c]) \/ i = Len(buffer[c]) + 1
        BY <4>1
      <4> QED
        BY <2>3, <4>1, <4>2 DEF Sent
    <3> QED
      BY <3>1, <3>2 DEF Send
  <2> QED
    BY <2>1, <2>2, <2>3 DEF Sent
<1> QED
  BY <1>1, <1>2

\* Writing an event shifts what was sent; it adds nothing to it.
LEMMA SentWrite ==
    ASSUME TypeOK, NEW c \in Clients, NEW t \in Types, Write(c)
    PROVE  \A d \in Clients : Sent(d, t)' \subseteq Sent(d, t)
<1> TAKE d \in Clients
<1>1. CASE d # c
  <2>1. buffer'[d] = buffer[d] /\ received'[d] = received[d] /\ dropped'[d] = dropped[d]
    BY <1>1 DEF Write, TypeOK
  <2> QED
    BY <2>1 DEF Sent
<1>2. CASE d = c
  <2>1. /\ buffer[c] \in Seq(Events) /\ buffer[c] # <<>> /\ buffer'[c] = Tail(buffer[c])
    BY DEF TypeOK, Write
  <2>2. /\ Len(buffer[c]) \in Nat \ {0}
        /\ Len(buffer'[c]) = Len(buffer[c]) - 1
        /\ \A i \in 1 .. Len(buffer'[c]) : buffer'[c][i] = buffer[c][i + 1]
        /\ Head(buffer[c]) = buffer[c][1]
    BY <2>1
  <2> SUFFICES ASSUME NEW n \in Sent(c, t)' PROVE n \in Sent(c, t)
    BY <1>2
  <2>3. CASE n = received'[c][t]
    <3>1. \/ received'[c][t] = received[c][t]
          \/ buffer[c][1].type = t /\ received'[c][t] = buffer[c][1].payload
      BY <2>2 DEF Write, TypeOK
    <3> QED
      BY <2>2, <2>3, <3>1 DEF Sent
  <2>4. CASE n = dropped'[c][t]
    BY <2>4 DEF Sent, Write
  <2>5. CASE \E i \in 1 .. Len(buffer'[c]) : buffer'[c][i].type = t /\ n = buffer'[c][i].payload
    <3> PICK i \in 1 .. Len(buffer'[c]) : buffer'[c][i].type = t /\ n = buffer'[c][i].payload
      BY <2>5
    <3>1. i + 1 \in 1 .. Len(buffer[c])
      BY <2>2
    <3> QED
      BY <2>2, <3>1 DEF Sent
  <2> QED
    BY <2>3, <2>4, <2>5 DEF Sent
<1> QED
  BY <1>1, <1>2

\* Payloads are numbers.
LEMMA SentNumbers ==
    ASSUME TypeOK, NEW c \in Clients, NEW t \in Types
    PROVE  Sent(c, t) \subseteq Nat
<1>1. received[c][t] \in Nat /\ dropped[c][t] \in Nat
  BY DEF TypeOK, Payloads
<1>2. \A i \in 1 .. Len(buffer[c]) : buffer[c][i].payload \in Nat
  <2> TAKE i \in 1 .. Len(buffer[c])
  <2>1. buffer[c] \in Seq(Events)
    BY DEF TypeOK
  <2>2. buffer[c][i] \in Events
    BY <2>1
  <2> QED
    BY <2>2 DEF Events, Payloads
<1> QED
  BY <1>1, <1>2 DEF Sent

\* The first event type and the empty channels of a server that just started.
LEMMA InitSSE == Init => SSEInv
<1> SUFFICES ASSUME Init PROVE SSEInv
  OBVIOUS
<1>1. event \in Events
  BY SSEAssumption DEF Init, Events, Payloads
<1>2. TypeOK
  BY <1>1, SSEAssumption DEF Init, TypeOK, None, Payloads
<1>3. /\ \A t \in Types : latest[t] = 0 /\ pending[t] = 0 /\ batch[t] = 0
      /\ event.payload = 0 /\ audience = {}
      /\ \A c \in Clients : Len(buffer[c]) = 0 /\ \A t \in Types : received[c][t] = 0 /\ dropped[c][t] = 0
  BY DEF Init, None
<1>4. \A t \in Types : Queue(t)
  <2> TAKE t \in Types
  <2>1. latest[t] = 0 /\ pending[t] = 0 /\ batch[t] = 0 /\ event.payload = 0 /\ audience = {}
    BY <1>3
  <2> QED
    BY <2>1 DEF Queue
<1>5. ASSUME NEW c \in Clients, NEW t \in Types PROVE Line(c, t)
  <2>1. Sent(c, t) = {0}
    BY <1>3 DEF Sent
  <2> QED
    BY <1>3, <2>1 DEF Line
<1>6. NewestLast
  BY <1>3 DEF NewestLast
<1>7. LastNotMissed
  BY DEF Init, LastNotMissed
<1> QED
  BY <1>2, <1>4, <1>5, <1>6, <1>7 DEF SSEInv, Order

\* Each step keeps the state well-typed.
LEMMA StepTypeSSE == TypeOK /\ [Next]_vars => TypeOK'
<1> SUFFICES ASSUME TypeOK, [Next]_vars PROVE TypeOK'
  OBVIOUS
<1> USE DEF Payloads
<1>1. ASSUME NEW t \in Types, Submit(t) PROVE TypeOK'
  BY <1>1 DEF Submit, TypeOK
<1>2. CASE Flush
  BY <1>2 DEF Flush, TypeOK, None
<1>3. ASSUME NEW t \in Types, Broadcast(t) PROVE TypeOK'
  BY <1>3 DEF Broadcast, TypeOK, Events, Subscribers
<1>4. ASSUME NEW c \in Clients, Send(c) PROVE TypeOK'
  <2>1. event.type \in Types /\ event.payload \in Nat
    BY DEF TypeOK, Events
  <2>2. buffer' \in [Clients -> Seq(Events)] /\ \A d \in Clients : Len(buffer'[d]) <= BufferSize
    <3>1. /\ Append(buffer[c], event) \in Seq(Events)
          /\ Len(Append(buffer[c], event)) = Len(buffer[c]) + 1
          /\ Len(buffer[c]) \in Nat
      BY DEF TypeOK
    <3> QED
      <4>1. CASE UNCHANGED buffer
        BY <4>1 DEF TypeOK
      <4>2. CASE Len(buffer[c]) < BufferSize /\ buffer' = [buffer EXCEPT ![c] = Append(@, event)]
        BY <4>2, <3>1, SSEAssumption DEF TypeOK
      <4> QED
        BY <1>4, <4>1, <4>2 DEF Send
  <2>3. dropped' \in [Clients -> [Types -> Nat]]
    <3>1. CASE UNCHANGED dropped
      BY <3>1 DEF TypeOK
    <3>2. CASE dropped' = [dropped EXCEPT ![c][event.type] = event.payload]
      <4>1. [dropped[c] EXCEPT ![event.type] = event.payload] \in [Types -> Nat]
        BY <2>1 DEF TypeOK
      <4> QED
        BY <3>2, <4>1 DEF TypeOK
    <3> QED
      BY <1>4, <3>1, <3>2 DEF Send
  <2> QED
    BY <1>4, <2>2, <2>3 DEF Send, TypeOK
<1>5. ASSUME NEW c \in Clients, Subscribe(c) PROVE TypeOK'
  BY <1>5 DEF Subscribe, TypeOK
<1>6. ASSUME NEW c \in Clients, Write(c) PROVE TypeOK'
  <2>1. buffer[c] \in Seq(Events) /\ buffer[c] # <<>>
    BY <1>6 DEF Write, TypeOK
  <2>2. /\ Tail(buffer[c]) \in Seq(Events)
        /\ Len(Tail(buffer[c])) <= Len(buffer[c])
        /\ Head(buffer[c]) \in Events
        /\ Len(buffer[c]) \in Nat
    BY <2>1
  <2>3. buffer' \in [Clients -> Seq(Events)] /\ \A d \in Clients : Len(buffer'[d]) <= BufferSize
    BY <1>6, <2>2, SSEAssumption DEF Write, TypeOK
  <2>4. received' \in [Clients -> [Types -> Nat]]
    <3> DEFINE e == Head(buffer[c])
    <3>1. CASE UNCHANGED received
      BY <3>1 DEF TypeOK
    <3>2. CASE received' = [received EXCEPT ![c][e.type] = e.payload]
      <4>1. e.type \in Types /\ e.payload \in Nat
        BY <2>2 DEF Events
      <4>2. [received[c] EXCEPT ![e.type] = e.payload] \in [Types -> Nat]
        BY <4>1 DEF TypeOK
      <4> QED
        BY <3>2, <4>2 DEF TypeOK
    <3> QED
      BY <1>6, <3>1, <3>2 DEF Write
  <2> QED
    BY <1>6, <2>3, <2>4 DEF Write, TypeOK
<1>7. ASSUME NEW c \in Clients, Break(c) \/ Unsubscribe(c) PROVE TypeOK'
  BY <1>7 DEF Break, Unsubscribe, TypeOK
<1>8. CASE UNCHANGED vars
  BY <1>8 DEF vars, TypeOK
<1> QED
  BY <1>1, <1>2, <1>3, <1>4, <1>5, <1>6, <1>7, <1>8 DEF Next, Coalescer

\* The payloads stay in line through the steps that move one forward: submit,
\* flush and the snapshot of the subscribers.
LEMMA CoalescerOrder ==
    ASSUME TypeOK, Order,
           Flush \/ \E t \in Types : Submit(t) \/ Broadcast(t)
    PROVE  Order'
<1>1. \A c \in Clients, t \in Types : Sent(c, t)' = Sent(c, t) /\ Sent(c, t) \subseteq Nat
  BY SentNumbers DEF Sent, Flush, Submit, Broadcast
<1>2. ASSUME NEW t \in Types, Submit(t) PROVE Order'
  <2> SUFFICES ASSUME NEW u \in Types
               PROVE  Queue(u)' /\ \A c \in Clients : Line(c, u)'
    BY DEF Order
  <2>1. /\ latest[u] \in Nat /\ pending[u] \in Nat /\ batch[u] \in Nat
        /\ event.payload \in Nat
    BY DEF TypeOK, Payloads, Events
  <2>2. /\ u # t => latest'[u] = latest[u] /\ pending'[u] = pending[u]
        /\ u = t => latest'[u] = latest[u] + 1 /\ pending'[u] = latest[u] + 1
        /\ UNCHANGED <<batch, event, audience>>
    BY <1>2 DEF Submit, TypeOK
  <2>3. Queue(u)'
    BY <2>1, <2>2 DEF Order, Queue
  <2>4. ASSUME NEW c \in Clients PROVE Line(c, u)'
    BY <1>1, <2>1, <2>2 DEF Order, Line, Newer
  <2> QED
    BY <2>3, <2>4
<1>3. CASE Flush
  <2> SUFFICES ASSUME NEW u \in Types
               PROVE  Queue(u)' /\ \A c \in Clients : Line(c, u)'
    BY DEF Order
  <2>1. /\ latest[u] \in Nat /\ pending[u] \in Nat /\ batch[u] \in Nat
        /\ event.payload \in Nat
    BY DEF TypeOK, Payloads, Events
  <2>2. /\ batch'[u] = pending[u] /\ pending'[u] = 0
        /\ audience = {} /\ UNCHANGED <<latest, event, audience>>
    BY <1>3 DEF Flush, None
  <2>3. Queue(u)'
    BY <2>1, <2>2 DEF Order, Queue
  <2>4. ASSUME NEW c \in Clients PROVE Line(c, u)'
    BY <1>1, <2>1, <2>2 DEF Order, Line, Newer
  <2> QED
    BY <2>3, <2>4
<1>4. ASSUME NEW t \in Types, Broadcast(t) PROVE Order'
  <2> SUFFICES ASSUME NEW u \in Types
               PROVE  Queue(u)' /\ \A c \in Clients : Line(c, u)'
    BY DEF Order
  <2>1. /\ latest[u] \in Nat /\ pending[u] \in Nat /\ batch[u] \in Nat
        /\ event.payload \in Nat
    BY DEF TypeOK, Payloads, Events
  <2>2. /\ event'.type = t /\ event'.payload = batch[t] /\ batch[t] # 0
        /\ u = t => batch'[u] = 0
        /\ u # t => batch'[u] = batch[u]
        /\ UNCHANGED <<latest, pending>>
    BY <1>4 DEF Broadcast, TypeOK
  <2>3. Queue(u)'
    BY <2>1, <2>2 DEF Order, Queue
  <2>4. ASSUME NEW c \in Clients PROVE Line(c, u)'
    BY <1>1, <2>1, <2>2 DEF Order, Line, Newer
  <2> QED
    BY <2>3, <2>4
<1> QED
  BY <1>2, <1>3, <1>4

\* They stay in line while the event is sent and while clients take events.
LEMMA FanoutOrder ==
    ASSUME TypeOK, Order, NEW c \in Clients, Send(c) \/ Write(c)
    PROVE  Order'
<1>1. UNCHANGED <<latest, pending, batch, event>> /\ audience' \subseteq audience
  BY DEF Send, Write
<1>2. ASSUME NEW u \in Types PROVE Queue(u)'
  BY <1>1 DEF Order, Queue
<1>3. ASSUME NEW d \in Clients, NEW u \in Types PROVE Line(d, u)'
  <2>1. /\ latest[u] \in Nat /\ pending[u] \in Nat /\ batch[u] \in Nat
        /\ event \in Events /\ event.payload \in Nat /\ Sent(d, u) \subseteq Nat
    BY SentNumbers DEF TypeOK, Payloads, Events
  <2>2. Line(d, u) /\ Queue(u)
    BY DEF Order
  <2>3. CASE Sent(d, u)' \subseteq Sent(d, u)
    BY <1>1, <2>1, <2>2, <2>3 DEF Line, Newer
  <2>4. CASE Send(c)
    <3>1. Sent(d, u)' \subseteq
            Sent(d, u) \cup (IF d = c /\ event.type = u THEN {event.payload} ELSE {})
      BY <2>4, SentSend
    <3>2. CASE d = c /\ event.type = u
      <4>1. c \in audience /\ c \notin audience'
        BY <2>4 DEF Send
      <4>2. Sent(d, u)' \subseteq Sent(d, u) \cup {event.payload}
        BY <3>1, <3>2
      <4> QED
        BY <1>1, <2>1, <2>2, <3>2, <4>1, <4>2 DEF Line, Newer, Queue
    <3>3. CASE ~(d = c /\ event.type = u)
      <4>1. Sent(d, u)' \subseteq Sent(d, u)
        BY <3>1, <3>3
      <4> QED
        BY <2>3, <4>1
    <3> QED
      BY <3>2, <3>3
  <2>5. CASE Write(c)
    BY <2>3, <2>5, SentWrite
  <2> QED
    BY <2>4, <2>5
<1> QED
  BY <1>2, <1>3 DEF Order

\* A client's channel stays ordered: what is appended is newer than all that
\* the client was sent, and taking the head moves the others up.
LEMMA ChannelOrder ==
    ASSUME TypeOK, Order, NewestLast, NEW c \in Clients, Send(c) \/ Write(c)
    PROVE  NewestLast'
<1> DEFINE Ordered(d) ==
      \A i \in 1 .. Len(buffer[d]) :
        /\ received[d][buffer[d][i].type] < buffer[d][i].payload
        /\ \A j \in 1 .. i - 1 :
             buffer[d][j].type = buffer[d][i].type
               => buffer[d][j].payload < buffer[d][i].payload
<1> SUFFICES ASSUME NEW d \in Clients PROVE Ordered(d)'
  BY DEF NewestLast
<1>1. Ordered(d)
  BY DEF NewestLast
<1>2. CASE buffer'[d] = buffer[d] /\ received'[d] = received[d]
  BY <1>1, <1>2
<1>3. CASE Send(c) /\ d = c /\ buffer' = [buffer EXCEPT ![c] = Append(@, event)]
  <2> DEFINE n == Len(buffer[c])
  <2>1. /\ n \in Nat /\ Len(buffer'[c]) = n + 1
        /\ \A i \in 1 .. n : buffer'[c][i] = buffer[c][i]
        /\ buffer'[c][n + 1] = event
        /\ received' = received
    BY <1>3 DEF TypeOK, Send
  <2>2. event.type \in Types /\ Newer(event.payload, c, event.type)
    BY <1>3 DEF Send, Order, Line, TypeOK, Events
  <2>3. /\ received[c][event.type] < event.payload
        /\ \A j \in 1 .. n : buffer[c][j].type = event.type => buffer[c][j].payload < event.payload
    BY <2>2 DEF Newer, Sent
  <2> HIDE DEF n
  <2>4. ASSUME NEW i \in 1 .. n + 1
        PROVE  /\ received'[c][buffer'[c][i].type] < buffer'[c][i].payload
               /\ \A j \in 1 .. i - 1 :
                    buffer'[c][j].type = buffer'[c][i].type
                      => buffer'[c][j].payload < buffer'[c][i].payload
    <3>1. CASE i = n + 1
      BY <2>1, <2>3, <3>1
    <3>2. CASE i \in 1 .. n
      <4>1. \A j \in 1 .. i - 1 : j \in 1 .. n
        BY <2>1, <3>2
      <4> QED
        BY <1>1, <1>3, <2>1, <3>2, <4>1 DEF n
    <3> QED
      BY <2>1, <3>1, <3>2
  <2> QED
    BY <1>3, <2>1, <2>4
<1>4. CASE Write(c) /\ d = c
  <2>1. /\ buffer[c] \in Seq(Events) /\ buffer[c] # <<>> /\ buffer'[c] = Tail(buffer[c])
    BY <1>4 DEF TypeOK, Write
  <2>2. /\ Len(buffer[c]) \in Nat \ {0}
        /\ Len(buffer'[c]) = Len(buffer[c]) - 1
        /\ \A i \in 1 .. Len(buffer'[c]) : buffer'[c][i] = buffer[c][i + 1]
        /\ Head(buffer[c]) = buffer[c][1]
        /\ \A i \in 1 .. Len(buffer[c]) : buffer[c][i] \in Events
    BY <2>1
  <2>3. \A t \in Types :
          \/ received'[c][t] = received[c][t]
          \/ buffer[c][1].type = t /\ received'[c][t] = buffer[c][1].payload
    BY <1>4, <2>2 DEF Write, TypeOK
  <2>4. ASSUME NEW i \in 1 .. Len(buffer'[c])
        PROVE  /\ received'[c][buffer'[c][i].type] < buffer'[c][i].payload
               /\ \A j \in 1 .. i - 1 :
                    buffer'[c][j].type = buffer'[c][i].type
                      => buffer'[c][j].payload < buffer'[c][i].payload
    <3>1. /\ i + 1 \in 1 .. Len(buffer[c]) /\ 1 \in 1 .. (i + 1) - 1
          /\ \A j \in 1 .. i - 1 : j \in 1 .. Len(buffer'[c]) /\ j + 1 \in 1 .. (i + 1) - 1
      BY <2>2
    <3>2. buffer[c][i + 1] \in Events
      BY <2>2, <3>1
    <3>3. /\ received[c][buffer[c][i + 1].type] < buffer[c][i + 1].payload
          /\ \A j \in 1 .. (i + 1) - 1 :
               buffer[c][j].type = buffer[c][i + 1].type
                 => buffer[c][j].payload < buffer[c][i + 1].payload
      BY <1>1, <1>4, <3>1
    <3>4. received'[c][buffer[c][i + 1].type] < buffer[c][i + 1].payload
      BY <2>3, <3>1, <3>2, <3>3 DEF Events
    <3>5. \A j \in 1 .. i - 1 :
             buffer[c][j + 1].type = buffer[c][i + 1].type
               => buffer[c][j + 1].payload < buffer[c][i + 1].payload
      BY <3>1, <3>3
    <3> QED
      BY <2>2, <3>1, <3>4, <3>5
  <2> QED
    BY <1>4, <2>4
<1> QED
  BY <1>2, <1>3, <1>4 DEF Send, Write, TypeOK

\* The last payload stays on its way, or was written or dropped.
LEMMA CoalescerKeepsLast ==
    ASSUME TypeOK, LastNotMissed,
           Flush \/ \E t \in Types : Submit(t) \/ Broadcast(t)
    PROVE  LastNotMissed'
<1> SUFFICES ASSUME NEW c \in Clients, NEW u \in Types,
                    conn'[c] = "open", since'[c][u] < latest'[u]
             PROVE  OnItsWay(c, u)' \/ latest'[u] \in {received'[c][u], dropped'[c][u]}
  BY DEF LastNotMissed
<1>1. /\ UNCHANGED <<conn, since, buffer, received, dropped>>
      /\ latest[u] \in Nat /\ since[c][u] \in Nat
  BY DEF Flush, Submit, Broadcast, TypeOK, Payloads
<1>2. ASSUME NEW t \in Types, Submit(t), t = u
      PROVE  OnItsWay(c, u)'
  BY <1>2 DEF Submit, TypeOK, OnItsWay
<1>3. CASE UNCHANGED latest /\ latest[u] \in {received[c][u], dropped[c][u]}
  BY <1>1, <1>3
<1>4. ASSUME UNCHANGED latest, OnItsWay(c, u), Flush PROVE OnItsWay(c, u)'
  <2>1. batch[u] = 0 /\ audience = {} /\ batch'[u] = pending[u] /\ latest[u] # 0
    BY <1>1, <1>4 DEF Flush, None
  <2> QED
    BY <1>1, <1>4, <2>1 DEF OnItsWay
<1>5. ASSUME NEW t \in Types, UNCHANGED latest, OnItsWay(c, u), Broadcast(t)
      PROVE  OnItsWay(c, u)'
  <2>1. /\ audience = {} /\ c \in audience' /\ UNCHANGED pending
        /\ event' = [type |-> t, payload |-> batch[t]]
        /\ u # t => batch'[u] = batch[u]
    BY <1>1, <1>5 DEF Broadcast, Subscribers, TypeOK
  <2> QED
    BY <1>1, <1>5, <2>1 DEF OnItsWay
<1>6. ASSUME NEW t \in Types, Submit(t), t # u
      PROVE  OnItsWay(c, u)' \/ latest'[u] \in {received'[c][u], dropped'[c][u]}
  <2>1. latest'[u] = latest[u] /\ pending'[u] = pending[u] /\ UNCHANGED <<batch, audience, event>>
    BY <1>6 DEF Submit, TypeOK
  <2> QED
    BY <1>1, <2>1 DEF LastNotMissed, OnItsWay
<1>7. UNCHANGED latest => OnItsWay(c, u) \/ latest[u] \in {received[c][u], dropped[c][u]}
  BY <1>1 DEF LastNotMissed
<1> QED
  BY <1>2, <1>3, <1>4, <1>5, <1>6, <1>7 DEF Flush, Broadcast

\* The fan-out and the clients do not lose it either: what they overwrite is
\* older.
LEMMA FanoutKeepsLast ==
    ASSUME TypeOK, Order, NewestLast, LastNotMissed, NEW d \in Clients, Send(d) \/ Write(d)
    PROVE  LastNotMissed'
<1> SUFFICES ASSUME NEW c \in Clients, NEW u \in Types,
                    conn'[c] = "open", since'[c][u] < latest'[u]
             PROVE  OnItsWay(c, u)' \/ latest'[u] \in {received'[c][u], dropped'[c][u]}
  BY DEF LastNotMissed
<1>1. UNCHANGED <<conn, since, latest, pending, batch, event>>
  BY DEF Send, Write
<1>2. OnItsWay(c, u) \/ latest[u] \in {received[c][u], dropped[c][u]}
  BY <1>1 DEF LastNotMissed
<1>3. /\ latest[u] \in Nat /\ event \in Events /\ event.payload \in Nat
      /\ buffer[c] \in Seq(Events) /\ Queue(u) /\ Line(c, u)
  BY DEF TypeOK, Payloads, Events, Order
<1>4. CASE pending[u] = latest[u] \/ batch[u] = latest[u]
  BY <1>1, <1>4 DEF OnItsWay
<1>5. CASE c # d
  <2>1. /\ buffer'[c] = buffer[c] /\ received'[c] = received[c] /\ dropped'[c] = dropped[c]
        /\ c \in audience => c \in audience'
    BY <1>5 DEF Send, Write, TypeOK
  <2> QED
    BY <1>1, <1>2, <2>1 DEF OnItsWay
<1>6. CASE c = d /\ Send(c) /\ event = [type |-> u, payload |-> latest[u]]
  <2>1. CASE buffer' = [buffer EXCEPT ![c] = Append(@, event)]
    <3>1. /\ Len(buffer[c]) + 1 \in 1 .. Len(buffer'[c])
          /\ buffer'[c][Len(buffer[c]) + 1] = event
      BY <1>3, <2>1 DEF TypeOK
    <3> QED
      BY <1>1, <1>6, <3>1 DEF OnItsWay
  <2>2. CASE dropped' = [dropped EXCEPT ![c][event.type] = event.payload]
    BY <1>1, <1>6, <2>2 DEF TypeOK
  <2> QED
    BY <1>6, <2>1, <2>2 DEF Send
<1>7. CASE c = d /\ Send(c) /\ latest[u] \in {received[c][u], dropped[c][u]}
  <2>1. event.type # u
    <3> SUFFICES ASSUME event.type = u PROVE FALSE
      OBVIOUS
    <3>1. Newer(event.payload, c, u)
      BY <1>3, <1>7 DEF Send, Line
    <3>2. latest[u] \in Sent(c, u)
      BY <1>7 DEF Sent
    <3>3. latest[u] < event.payload
      BY <3>1, <3>2 DEF Newer
    <3>4. event.payload <= latest[u]
      BY <1>3 DEF Queue
    <3> QED
      BY <1>3, <3>3, <3>4
  <2>2. event.type \in Types
    BY <1>3 DEF Events
  <2> QED
    BY <1>1, <1>7, <2>1, <2>2 DEF Send, TypeOK
<1>8. ASSUME c = d, Send(c), NEW i \in 1 .. Len(buffer[c]),
             buffer[c][i] = [type |-> u, payload |-> latest[u]]
      PROVE  OnItsWay(c, u)'
  <2>1. i \in 1 .. Len(buffer'[c]) /\ buffer'[c][i] = buffer[c][i]
    <3>1. CASE UNCHANGED buffer
      BY <3>1
    <3>2. CASE buffer' = [buffer EXCEPT ![c] = Append(@, event)]
      <4>1. buffer'[c] = Append(buffer[c], event)
        BY <3>2 DEF TypeOK
      <4> QED
        BY <1>3, <1>8, <4>1
    <3> QED
      BY <1>8, <3>1, <3>2 DEF Send
  <2> QED
    BY <1>1, <1>8, <2>1 DEF OnItsWay
<1>9. CASE c = d /\ Write(c) /\ latest[u] = dropped[c][u]
  BY <1>1, <1>9 DEF Write
<1>10. CASE c = d /\ Write(c) /\ latest[u] = received[c][u]
  <2>1. /\ 1 \in 1 .. Len(buffer[c]) /\ Head(buffer[c]) = buffer[c][1]
        /\ Head(buffer[c]) \in Events
    BY <1>3, <1>10 DEF Write
  <2>2. buffer[c][1].type # u
    <3> SUFFICES ASSUME buffer[c][1].type = u PROVE FALSE
      OBVIOUS
    <3>1. received[c][u] < buffer[c][1].payload
      BY <2>1 DEF NewestLast
    <3>2. buffer[c][1].payload <= latest[u]
      BY <1>3, <2>1 DEF Line, Sent
    <3>3. buffer[c][1].payload \in Nat
      BY <2>1 DEF Events, Payloads
    <3> QED
      BY <1>3, <1>10, <3>1, <3>2, <3>3
  <2>3. received'[c][u] = received[c][u]
    BY <1>10, <2>1, <2>2 DEF Write, TypeOK, Events
  <2> QED
    BY <1>1, <1>10, <2>3
<1>11. ASSUME c = d, Write(c), NEW i \in 1 .. Len(buffer[c]),
              buffer[c][i] = [type |-> u, payload |-> latest[u]]
       PROVE  OnItsWay(c, u)' \/ latest'[u] = received'[c][u]
  <2>1. /\ buffer'[c] = Tail(buffer[c]) /\ buffer[c] # <<>> /\ Head(buffer[c]) = buffer[c][1]
        /\ conn[c] = "open"
    BY <1>1, <1>3, <1>11 DEF Write, TypeOK
  <2>2. CASE i = 1
    BY <1>1, <1>11, <2>1, <2>2 DEF Write, TypeOK
  <2>3. CASE i # 1
    <3>1. i - 1 \in 1 .. Len(buffer'[c]) /\ buffer'[c][i - 1] = buffer[c][i]
      BY <1>3, <1>11, <2>1, <2>3
    <3> QED
      BY <1>1, <1>11, <3>1 DEF OnItsWay
  <2> QED
    BY <2>2, <2>3
<1>12. CASE c = d /\ Write(c) /\ c \in audience /\ event = [type |-> u, payload |-> latest[u]]
  <2>1. c \in audience' /\ event' = [type |-> u, payload |-> latest'[u]]
    BY <1>1, <1>12 DEF Write
  <2> QED
    BY <2>1 DEF OnItsWay
<1>13. CASE c = d /\ \E i \in 1 .. Len(buffer[c]) :
                        buffer[c][i] = [type |-> u, payload |-> latest[u]]
  BY <1>8, <1>11, <1>13
<1>14. CASE c = d /\ c \in audience /\ event = [type |-> u, payload |-> latest[u]]
  BY <1>6, <1>12, <1>14
<1>15. CASE c = d /\ latest[u] \in {received[c][u], dropped[c][u]}
  BY <1>7, <1>9, <1>10, <1>15
<1> QED
  BY <1>2, <1>4, <1>5, <1>13, <1>14, <1>15 DEF OnItsWay

\* Connections come and go without touching the payloads; who subscribes is
\* owed what is submitted from then on.
LEMMA ConnectionSteps ==
    ASSUME TypeOK, Order, NewestLast, LastNotMissed, NEW c \in Clients,
           Subscribe(c) \/ Break(c) \/ Unsubscribe(c)
    PROVE  Order' /\ NewestLast' /\ LastNotMissed'
<1>1. UNCHANGED <<latest, pending, batch, event, audience, buffer, received, dropped>>
  BY DEF Subscribe, Break, Unsubscribe
<1>2. Order' /\ NewestLast'
  BY <1>1 DEF Order, Queue, Line, Newer, Sent, NewestLast
<1>3. ASSUME NEW d \in Clients, NEW t \in Types,
             conn'[d] = "open", since'[d][t] < latest'[t]
      PROVE  conn[d] = "open" /\ since[d][t] < latest[t]
  <2>1. latest[t] \in Nat
    BY DEF TypeOK, Payloads
  <2>2. CASE Subscribe(c)
    <3>1. d # c
      BY <1>1, <1>3, <2>1, <2>2 DEF Subscribe, TypeOK
    <3> QED
      BY <1>1, <1>3, <2>2, <3>1 DEF Subscribe, TypeOK
  <2>3. CASE Break(c) \/ Unsubscribe(c)
    BY <1>1, <1>3, <2>3 DEF Break, Unsubscribe, TypeOK
  <2> QED
    BY <2>2, <2>3
<1>4. LastNotMissed'
  BY <1>1, <1>3 DEF LastNotMissed, OnItsWay
<1> QED
  BY <1>2, <1>4

\* SSEInv is inductive.
LEMMA StepSSE == SSEInv /\ [Next]_vars => SSEInv'
<1> SUFFICES ASSUME TypeOK, Order, NewestLast, LastNotMissed, [Next]_vars
             PROVE  Order' /\ NewestLast' /\ LastNotMissed'
  BY StepTypeSSE DEF SSEInv
<1>1. CASE Flush \/ \E t \in Types : Submit(t) \/ Broadcast(t)
  <2>1. NewestLast'
    BY <1>1 DEF NewestLast, Flush, Submit, Broadcast
  <2> QED
    BY <1>1, <2>1, CoalescerOrder, CoalescerKeepsLast
<1>2. ASSUME NEW c \in Clients, Send(c) \/ Write(c)
      PROVE  Order' /\ NewestLast' /\ LastNotMissed'
  BY <1>2, FanoutOrder, ChannelOrder, FanoutKeepsLast
<1>3. ASSUME NEW c \in Clients, Subscribe(c) \/ Break(c) \/ Unsubscribe(c)
      PROVE  Order' /\ NewestLast' /\ LastNotMissed'
  BY <1>3, ConnectionSteps
<1>4. CASE UNCHANGED vars
  BY <1>4 DEF vars, Order, Queue, Line, Newer, Sent, NewestLast, LastNotMissed, OnItsWay
<1> QED
  BY <1>1, <1>2, <1>3, <1>4 DEF Next, Coalescer

LEMMA InductiveSSE == Spec => []SSEInv
  BY InitSSE, StepSSE, PTL DEF Spec

\* The coalescer's and the clients' state is well-typed; no channel exceeds
\* its size.
THEOREM SSETypeCorrect == Spec => []TypeOK
<1>1. SSEInv => TypeOK
  BY DEF SSEInv
<1> QED
  BY InductiveSSE, <1>1, PTL

\* No client is sent an older update of a type after a newer one, or the same
\* one twice, however submissions, flushes and sends interleave.
THEOREM UpdatesInOrder == Spec => []NewestLast
<1>1. SSEInv => NewestLast
  BY DEF SSEInv
<1> QED
  BY InductiveSSE, <1>1, PTL

\* The last update submitted since a client connected reaches the client, or
\* is on its way, or was dropped because the client's own buffer was full.
THEOREM LastUpdateKept == Spec => []LastNotMissed
<1>1. SSEInv => LastNotMissed
  BY DEF SSEInv
<1> QED
  BY InductiveSSE, <1>1, PTL
================================================================================
