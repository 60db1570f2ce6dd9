-------------------------- MODULE EventOrderingProofs --------------------------
(***************************************************************************)
(* Theorems about EventOrdering, for any deliveries, sizes of the channel, *)
(* the spill buffer and the batches, any failing calls, and any number of  *)
(* redeliveries, crashes and restarts.                                     *)
(***************************************************************************)
EXTENDS EventOrdering, FiniteSetTheorems, WellFoundedInduction, TLAPS

\* Where the ingest worker may hold an event, and how full its buffer is there.
IngestControl ==
    /\ ingestAt # "process" => ingestEv = {}
    /\ ingestAt \in {"select", "process"} => Len(spill) < IngestBatch

\* What the flush worker works on is pending, and one row is not in its hands
\* twice; only an event that was handled is about to be marked processed.
FlushControl ==
    /\ flushAt \notin {"handle", "markProcessed", "markFailed"} => flushEv = {}
    /\ \A d \in batch \cup flushEv : Pending(d)
    /\ batch \cap flushEv = {}
    /\ flushAt = "markProcessed" => \A d \in flushEv : fate[d] = "handled"

TypeInv == TypeOK /\ IngestControl

OrderingInv ==
    /\ TypeInv
    /\ FlushControl
    /\ NothingForgotten
    /\ ProcessedWasHandled
    /\ PermanentNotRetried

-----------------------------------------------------------------------------
(* Sequences as the sets of their elements.                                *)

\* An empty channel or buffer holds nothing.
LEMMA ElementsOfEmpty == Elements(<<>>) = {}
  BY DEF Elements

\* The elements of a channel or buffer are deliveries.
LEMMA ElementsType ==
    ASSUME NEW S, NEW seq \in Seq(S)
    PROVE  Elements(seq) \subseteq S
  BY DEF Elements

\* Sending or spilling adds one delivery.
LEMMA ElementsOfAppend ==
    ASSUME NEW S, NEW seq \in Seq(S), NEW e \in S
    PROVE  Elements(Append(seq, e)) = Elements(seq) \cup {e}
<1> DEFINE long == Append(seq, e)
<1>1. /\ Len(seq) \in Nat
      /\ DOMAIN seq = 1 .. Len(seq) /\ DOMAIN long = 1 .. Len(seq) + 1
      /\ \A i \in 1 .. Len(seq) : long[i] = seq[i]
      /\ long[Len(seq) + 1] = e
  OBVIOUS
<1>2. Elements(long) \subseteq Elements(seq) \cup {e}
  <2> SUFFICES ASSUME NEW i \in 1 .. Len(seq) + 1 PROVE long[i] \in Elements(seq) \cup {e}
    BY <1>1 DEF Elements
  <2>1. i \in 1 .. Len(seq) \/ i = Len(seq) + 1
    BY <1>1
  <2> QED
    BY <1>1, <2>1 DEF Elements
<1>3. Elements(seq) \cup {e} \subseteq Elements(long)
  <2>1. \A i \in 1 .. Len(seq) : i \in 1 .. Len(seq) + 1
    BY <1>1
  <2>2. Len(seq) + 1 \in 1 .. Len(seq) + 1
    BY <1>1
  <2> QED
    BY <1>1, <2>1, <2>2 DEF Elements
<1> QED
  BY <1>2, <1>3

\* Receiving takes the head and leaves the others.
LEMMA ElementsOfTail ==
    ASSUME NEW S, NEW seq \in Seq(S), seq # <<>>
    PROVE  /\ Head(seq) \in S /\ Tail(seq) \in Seq(S)
           /\ Len(Tail(seq)) = Len(seq) - 1
           /\ Elements(seq) = {Head(seq)} \cup Elements(Tail(seq))
<1> DEFINE rest == Tail(seq)
<1>1. /\ Len(seq) \in Nat \ {0}
      /\ Head(seq) = seq[1]
      /\ Head(seq) \in S /\ rest \in Seq(S)
      /\ Len(rest) = Len(seq) - 1
      /\ DOMAIN seq = 1 .. Len(seq) /\ DOMAIN rest = 1 .. Len(seq) - 1
      /\ \A i \in 1 .. Len(seq) - 1 : rest[i] = seq[i + 1]
  OBVIOUS
<1>2. Elements(seq) \subseteq {Head(seq)} \cup Elements(rest)
  <2> SUFFICES ASSUME NEW i \in 1 .. Len(seq) PROVE seq[i] \in {Head(seq)} \cup Elements(rest)
    BY <1>1 DEF Elements
  <2>1. CASE i = 1
    BY <1>1, <2>1
  <2>2. CASE i # 1
    <3>1. i - 1 \in 1 .. Len(seq) - 1 /\ (i - 1) + 1 = i
      BY <1>1, <2>2
    <3>2. rest[i - 1] = seq[i]
      BY <1>1, <3>1
    <3> QED
      BY <1>1, <3>1, <3>2 DEF Elements
  <2> QED
    BY <2>1, <2>2
<1>3. {Head(seq)} \cup Elements(rest) \subseteq Elements(seq)
  <2>1. 1 \in 1 .. Len(seq) /\ \A i \in 1 .. Len(seq) - 1 : i + 1 \in 1 .. Len(seq)
    BY <1>1
  <2> QED
    BY <1>1, <2>1 DEF Elements
<1> QED
  BY <1>1, <1>2, <1>3

\* A query returns rows of the table.
LEMMA FirstRowsAreRows == \A rows, limit : FirstRows(rows, limit) \subseteq rows
  BY DEF FirstRows
-----------------------------------------------------------------------------
(* Type correctness.                                                       *)

\* A delivery joins the channel; nothing else of the state is touched.
LEMMA EnqueueType ==
    ASSUME TypeOK, NEW d \in Deliveries, Enqueue(d)
    PROVE  /\ ingestCh' \in Seq(Deliveries) /\ Len(ingestCh') =< ChannelSize
           /\ accepted' \in SUBSET Deliveries
           /\ fate' \in [Deliveries -> {"none", "handled", "permanent", "failed",
                                        "dropped", "lost"}]
           /\ Elements(ingestCh') = Elements(ingestCh) \cup {d}
           /\ \A e \in Deliveries : fate'[e] = fate[e] \/ (e = d /\ fate'[e] = "none")
           /\ \A e \in Deliveries : fate[e] = "handled" => fate'[e] = "handled"
<1>1. /\ ingestCh \in Seq(Deliveries) /\ Len(ingestCh) < ChannelSize
      /\ ingestCh' = Append(ingestCh, d)
  BY DEF Enqueue, TypeOK
<1>2. ingestCh' \in Seq(Deliveries) /\ Len(ingestCh') = Len(ingestCh) + 1
  BY <1>1
<1>3. Len(ingestCh') =< ChannelSize
  BY <1>1, <1>2, OrderingAssumption DEF OrderingAssumption
<1>4. Elements(ingestCh') = Elements(ingestCh) \cup {d}
  BY <1>1, ElementsOfAppend
<1> QED
  BY <1>2, <1>3, <1>4 DEF Enqueue, Settle, Outcome, TypeOK

\* A fate that is settled is one of the fates.
LEMMA SettleType ==
    ASSUME TypeOK, NEW d \in Deliveries, NEW how \in {"none", "handled", "permanent", "failed"},
           Settle(d, how)
    PROVE  fate' \in [Deliveries -> {"none", "handled", "permanent", "failed",
                                     "dropped", "lost"}]
  BY DEF Settle, Outcome, TypeOK

\* A full buffer is stored before the worker takes the next event.
LEMMA SpillRoom ==
    ASSUME TypeInv, NEW d \in Deliveries, IngestSpills(d)
    PROVE  /\ spill' \in Seq(Deliveries) /\ Len(spill') =< IngestBatch
           /\ ingestAt' = "select" => Len(spill') < IngestBatch
           /\ ingestAt' \in {"select", "store"}
<1>1. /\ spill \in Seq(Deliveries) /\ Len(spill) < IngestBatch
      /\ spill' = Append(spill, d)
      /\ ingestAt' = IF Len(spill') >= IngestBatch THEN "store" ELSE "select"
  BY DEF IngestSpills, TypeInv, TypeOK, IngestControl
<1>2. spill' \in Seq(Deliveries) /\ Len(spill') = Len(spill) + 1
  BY <1>1
<1> QED
  BY <1>1, <1>2, OrderingAssumption DEF OrderingAssumption

\* An empty channel and an empty buffer have room.
LEMMA EmptyHasRoom ==
    /\ <<>> \in Seq(Deliveries)
    /\ Len(<<>>) =< ChannelSize /\ Len(<<>>) =< IngestBatch
    /\ Len(<<>>) < IngestBatch
  BY OrderingAssumption DEF OrderingAssumption

\* Every step keeps the types and what the ingest worker may hold.
LEMMA TypeStep ==
    ASSUME TypeInv, [Next]_vars
    PROVE  TypeInv'
<1>1. ASSUME NEW d \in Deliveries, AddEvent(d) PROVE TypeInv'
  <2>1. CASE Enqueue(d) /\ UNCHANGED caller
    BY <1>1, <2>1, EnqueueType DEF AddEvent, TypeInv, TypeOK, IngestControl, ingestVars, flushVars
  <2>2. CASE UNCHANGED <<ingestCh, accepted, fate>>
    BY <1>1, <2>2 DEF AddEvent, TypeInv, TypeOK, IngestControl, ingestVars, flushVars
  <2> QED
    BY <1>1, <2>1, <2>2 DEF AddEvent
<1>2. ASSUME NEW d \in Deliveries, AddEventSends(d) PROVE TypeInv'
  BY <1>2, EnqueueType
     DEF AddEventSends, TypeInv, TypeOK, IngestControl, ingestVars, flushVars, boundVars
<1>3. ASSUME NEW d \in Deliveries, AddEventGivesUp(d) PROVE TypeInv'
  BY <1>3 DEF AddEventGivesUp, TypeInv, TypeOK, IngestControl, ingestVars, flushVars, boundVars
<1>4. CASE IngestStep
  <2>1. CASE IngestTake
    <3>1. /\ Head(ingestCh) \in Deliveries /\ Tail(ingestCh) \in Seq(Deliveries)
          /\ Len(Tail(ingestCh)) =< ChannelSize
      BY <2>1, ElementsOfTail, OrderingAssumption DEF OrderingAssumption, IngestTake, TypeInv, TypeOK
    <3> QED
      BY <2>1, <3>1 DEF IngestTake, TypeInv, TypeOK, IngestControl, flushVars, boundVars
  <2>2. CASE IngestTick
    BY <2>2 DEF IngestTick, TypeInv, TypeOK, IngestControl, flushVars, boundVars
  <2>3. CASE IngestDrain
    BY <2>3 DEF IngestDrain, TypeInv, TypeOK, IngestControl, flushVars, boundVars
  <2>4. CASE IngestLast
    BY <2>4 DEF IngestLast, TypeInv, TypeOK, IngestControl, flushVars, boundVars
  <2>5. CASE StoreSpill
    BY <2>5, EmptyHasRoom DEF StoreSpill, AfterStore, TypeInv, TypeOK, IngestControl,
                               RowStates, flushVars, boundVars
  <2>6. CASE StoreSpillFails
    <3>1. faults' \in Nat /\ cutShort' \in BOOLEAN
      BY <2>6 DEF StoreSpillFails, Fails, TypeInv, TypeOK
    <3>2. fate' \in [Deliveries -> {"none", "handled", "permanent", "failed", "dropped", "lost"}]
      BY <2>6 DEF StoreSpillFails, Outcome, TypeInv, TypeOK
    <3> QED
      BY <2>6, <3>1, <3>2, EmptyHasRoom
         DEF StoreSpillFails, AfterStore, TypeInv, TypeOK, IngestControl, flushVars
  <2>7. ASSUME NEW d \in Deliveries, IngestHandled(d) \/ IngestPermanent(d) PROVE TypeInv'
    BY <2>7, SettleType DEF IngestHandled, IngestPermanent, IngestSettles, TypeInv, TypeOK,
                             IngestControl, flushVars, boundVars
  <2>8. ASSUME NEW d \in Deliveries, IngestSpills(d) PROVE TypeInv'
    BY <2>8, SpillRoom DEF IngestSpills, Fails, TypeInv, TypeOK, IngestControl, flushVars
  <2> QED
    BY <1>4, <2>1, <2>2, <2>3, <2>4, <2>5, <2>6, <2>7, <2>8 DEF IngestStep
<1>5. CASE FlushStep
  <2>1. CASE FlushTick
    <3>1. batch' \subseteq Deliveries
      BY <2>1, FirstRowsAreRows DEF FlushTick
    <3> QED
      BY <2>1, <3>1 DEF FlushTick, TypeInv, TypeOK, IngestControl, ingestVars, boundVars
  <2>2. CASE FlushStops
    BY <2>2 DEF FlushStops, TypeInv, TypeOK, IngestControl, ingestVars, boundVars
  <2>3. CASE FlushAllFetch
    <3>1. batch' \subseteq Deliveries
      BY <2>3, FirstRowsAreRows DEF FlushAllFetch, InTable
    <3> QED
      BY <2>3, <3>1 DEF FlushAllFetch, TypeInv, TypeOK, IngestControl, ingestVars, boundVars
  <2>4. CASE FlushAllGivesUp
    BY <2>4 DEF FlushAllGivesUp, Fails, TypeInv, TypeOK, IngestControl, ingestVars
  <2>5. CASE FlushBatchDone
    BY <2>5 DEF FlushBatchDone, TypeInv, TypeOK, IngestControl, ingestVars, boundVars
  <2>6. ASSUME NEW d \in Deliveries, FlushNext(d) PROVE TypeInv'
    BY <2>6 DEF FlushNext, TypeInv, TypeOK, IngestControl, ingestVars, boundVars
  <2>7. ASSUME NEW d \in Deliveries, FlushHandled(d) PROVE TypeInv'
    BY <2>7, SettleType DEF FlushHandled, TypeInv, TypeOK, IngestControl, ingestVars, boundVars
  <2>8. ASSUME NEW d \in Deliveries, FlushHandlerFails(d) PROVE TypeInv'
    BY <2>8 DEF FlushHandlerFails, Fails, TypeInv, TypeOK, IngestControl, ingestVars
  <2>9. ASSUME NEW d \in Deliveries, MarkProcessed(d) PROVE TypeInv'
    BY <2>9 DEF MarkProcessed, TypeInv, TypeOK, RowStates, IngestControl, ingestVars, boundVars
  <2>10. ASSUME NEW d \in Deliveries, MarkFailed(d) PROVE TypeInv'
    BY <2>10, SettleType
       DEF MarkFailed, TypeInv, TypeOK, RowStates, IngestControl, ingestVars, boundVars
  <2>11. ASSUME NEW d \in Deliveries, MarkFails(d) PROVE TypeInv'
    BY <2>11 DEF MarkFails, Fails, TypeInv, TypeOK, IngestControl, ingestVars
  <2> QED
    BY <1>5, <2>1, <2>2, <2>3, <2>4, <2>5, <2>6, <2>7, <2>8, <2>9, <2>10, <2>11 DEF FlushStep
<1>6. ASSUME NEW d \in Deliveries, RowRipens(d) PROVE TypeInv'
  BY <1>6 DEF RowRipens, TypeInv, TypeOK, RowStates, IngestControl, ingestVars, flushVars, boundVars
<1>7. CASE Stop
  BY <1>7 DEF Stop, TypeInv, TypeOK, IngestControl, ingestVars, flushVars, boundVars
<1>8. CASE Crash
  <2>1. fate' \in [Deliveries -> {"none", "handled", "permanent", "failed", "dropped", "lost"}]
    BY <1>8 DEF Crash, TypeInv, TypeOK
  <2>2. caller' \in [Deliveries -> {"idle", "blocked"}] /\ crashes' \in Nat
    BY <1>8 DEF Crash, TypeInv, TypeOK
  <2>3. /\ ingestCh' = <<>> /\ spill' = <<>>
        /\ ctxDone' = FALSE /\ draining' = FALSE /\ fullBatch' = FALSE /\ final' = FALSE
        /\ ingestAt' = "select" /\ ingestEv' = {}
        /\ flushAt' = "select" /\ batch' = {} /\ flushEv' = {}
        /\ cutShort' = FALSE /\ UNCHANGED <<table, accepted, offers, faults>>
    BY <1>8 DEF Crash
  <2> QED
    BY <2>1, <2>2, <2>3, EmptyHasRoom DEF TypeInv, TypeOK, IngestControl
<1>9. CASE UNCHANGED vars
  BY <1>9 DEF vars, TypeInv, TypeOK, IngestControl, ingestVars, flushVars, boundVars
<1> QED
  BY <1>1, <1>2, <1>3, <1>4, <1>5, <1>6, <1>7, <1>8, <1>9 DEF Next

\* The initial state has the types.
LEMMA TypeInit ==
    ASSUME Init
    PROVE  TypeInv
<1>1. /\ ingestCh = <<>> /\ spill = <<>>
      /\ ingestAt = "select" /\ ingestEv = {}
      /\ flushAt = "select" /\ batch = {} /\ flushEv = {} /\ accepted = {}
      /\ ctxDone = FALSE /\ draining = FALSE /\ fullBatch = FALSE /\ final = FALSE
      /\ cutShort = FALSE
  BY DEF Init
<1>2. /\ caller \in [Deliveries -> {"idle", "blocked"}]
      /\ table \in [Deliveries -> RowStates]
      /\ fate \in [Deliveries -> {"none", "handled", "permanent", "failed", "dropped", "lost"}]
      /\ offers \in [Deliveries -> Nat] /\ faults \in Nat /\ crashes \in Nat
  BY DEF Init, RowStates
<1> QED
  BY <1>1, <1>2, EmptyHasRoom DEF TypeInv, TypeOK, IngestControl

\* The types, in every reachable state.
THEOREM OrderingTypeCorrect == Spec => []TypeOK
<1>1. Init => TypeInv
  BY TypeInit
<1>2. TypeInv /\ [Next]_vars => TypeInv'
  BY TypeStep
<1>3. TypeInv => TypeOK
  BY DEF TypeInv
<1> QED
  BY <1>1, <1>2, <1>3, PTL DEF Spec

-----------------------------------------------------------------------------
(* Where deliveries go: what each action does to memory and to the table.  *)

\* AddEvent puts a delivery into the channel.
LEMMA EnqueueAdds ==
    ASSUME TypeOK, NEW d \in Deliveries, Enqueue(d), UNCHANGED ingestVars
    PROVE  InMemory' = InMemory \cup {d}
  BY EnqueueType DEF InMemory, ingestVars

\* The ingest worker takes it out and holds it.
LEMMA TakeMoves ==
    ASSUME TypeInv, IngestTake
    PROVE  InMemory' = InMemory
<1>1. Elements(ingestCh) = {Head(ingestCh)} \cup Elements(Tail(ingestCh))
  BY ElementsOfTail DEF IngestTake, TypeInv, TypeOK
<1> QED
  BY <1>1 DEF IngestTake, InMemory, TypeInv, IngestControl

\* A verdict other than an error lets go of this delivery and of no other.
LEMMA VerdictLeaves ==
    ASSUME NEW d \in Deliveries, NEW how, IngestSettles(d, how)
    PROVE  /\ d \in InMemory
           /\ InMemory' \subseteq InMemory /\ InMemory \ InMemory' \subseteq {d}
  BY DEF IngestSettles, InMemory

\* An error moves it into the spill buffer.
LEMMA SpillMoves ==
    ASSUME TypeInv, NEW d \in Deliveries, IngestSpills(d)
    PROVE  InMemory' = InMemory /\ Elements(spill') = Elements(spill) \cup {d}
<1>1. Elements(Append(spill, d)) = Elements(spill) \cup {d}
  BY ElementsOfAppend DEF TypeInv, TypeOK
<1> QED
  BY <1>1 DEF IngestSpills, InMemory

\* Storing the buffer moves what it holds into the table.
LEMMA StoreMoves ==
    ASSUME TypeInv, StoreSpill
    PROVE  /\ Elements(spill) \subseteq InMemory
           /\ InMemory' \subseteq InMemory /\ InMemory \ InMemory' \subseteq Elements(spill)
           /\ InTable' = InTable \cup Elements(spill)
<1>1. Elements(spill) \subseteq Deliveries
  BY ElementsType DEF TypeInv, TypeOK
<1>2. Elements(spill') = {}
  BY ElementsOfEmpty DEF StoreSpill
<1>3. InTable' = InTable \cup Elements(spill)
  BY <1>1 DEF StoreSpill, InTable, Pending
<1> QED
  BY <1>2, <1>3 DEF StoreSpill, InMemory

\* A failing statement only empties the buffer.
LEMMA StoreFailureLeaves ==
    ASSUME TypeInv, StoreSpillFails
    PROVE  /\ Elements(spill) \subseteq InMemory \cap Deliveries
           /\ InMemory' \subseteq InMemory /\ InMemory \ InMemory' \subseteq Elements(spill)
<1>1. Elements(spill) \subseteq Deliveries
  BY ElementsType DEF TypeInv, TypeOK
<1>2. Elements(spill') = {}
  BY ElementsOfEmpty DEF StoreSpillFails
<1> QED
  BY <1>1, <1>2 DEF StoreSpillFails, InMemory

\* A row that becomes older stays pending.
LEMMA RipeningKeeps ==
    ASSUME TypeOK, NEW d \in Deliveries, RowRipens(d)
    PROVE  InTable' = InTable
  BY DEF RowRipens, InTable, Pending, TypeOK

\* Marking a row takes this row out of the pending ones and no other.
LEMMA MarkLeaves ==
    ASSUME TypeOK, NEW d \in Deliveries, MarkProcessed(d) \/ MarkFailed(d)
    PROVE  InTable' = InTable \ {d}
  BY DEF MarkProcessed, MarkFailed, InTable, Pending, TypeOK

-----------------------------------------------------------------------------
(* Each step is a step of the ledger.                                      *)

\* The ledger's view of a settled delivery.
LEMMA SettleIsLedger ==
    ASSUME TypeOK, NEW d \in Deliveries, NEW how \in Ledger!Fates, Settle(d, how),
           d \in InMemory \cup InTable,
           InMemory' \subseteq InMemory, InMemory \ InMemory' \subseteq {d},
           InTable' \subseteq InTable, InTable \ InTable' \subseteq {d}
    PROVE  Ledger!Next
<1>1. fate' = [e \in Deliveries |-> IF e \in {d} THEN Ledger!Settled(e, how) ELSE fate[e]]
  BY DEF Settle, Outcome, Ledger!Settled, TypeOK
<1>2. {d} \in SUBSET (InMemory \cup InTable)
  OBVIOUS
<1>3. Ledger!Settle({d}, how)
  BY <1>1, <1>2 DEF Ledger!Settle
<1> QED
  BY <1>2, <1>3 DEF Ledger!Next

\* A delivery that joins the channel is accepted.
LEMMA EnqueueIsLedger ==
    ASSUME TypeOK, NEW d \in Deliveries, Enqueue(d), UNCHANGED <<ingestVars, table>>
    PROVE  Ledger!Next
<1>1. InMemory' = InMemory \cup {d} /\ InTable' = InTable
  BY EnqueueAdds DEF InTable, Pending
<1>2. fate' = [fate EXCEPT ![d] = Ledger!Settled(d, "none")]
  BY DEF Enqueue, Settle, Outcome, Ledger!Settled
<1>3. Ledger!Accept(d)
  BY <1>1, <1>2 DEF Ledger!Accept
<1> QED
  BY <1>3 DEF Ledger!Next

\* A step that moves no delivery and settles none.
LEMMA StutterIsLedger ==
    ASSUME UNCHANGED fate, InMemory' = InMemory, InTable' = InTable
    PROVE  [Ledger!Next]_(Ledger!ledgerVars)
  BY DEF Ledger!ledgerVars

\* ... as long as the channel, the workers' events and the table are as before.
LEMMA SameHoldings ==
    /\ UNCHANGED <<ingestCh, ingestEv, spill>> => InMemory' = InMemory
    /\ UNCHANGED table => InTable' = InTable
  BY DEF InMemory, InTable, Pending

\* Whatever the service does is something the ledger allows.
LEMMA LedgerStep ==
    ASSUME TypeInv, FlushControl, [Next]_vars
    PROVE  [Ledger!Next]_(Ledger!ledgerVars)
<1> DEFINE Stutter == UNCHANGED fate /\ InMemory' = InMemory /\ InTable' = InTable
<1>0. TypeOK
  BY DEF TypeInv
<1>1. ASSUME NEW d \in Deliveries, AddEvent(d) \/ AddEventSends(d) \/ AddEventGivesUp(d)
      PROVE  [Ledger!Next]_(Ledger!ledgerVars)
  <2>1. CASE Enqueue(d)
    BY <1>0, <1>1, <2>1, EnqueueIsLedger DEF AddEvent, AddEventSends, AddEventGivesUp
  <2>2. CASE UNCHANGED <<ingestCh, fate>>
    BY <1>1, <2>2, SameHoldings, StutterIsLedger
       DEF AddEvent, AddEventSends, AddEventGivesUp, ingestVars
  <2> QED
    BY <1>1, <2>1, <2>2 DEF AddEvent, AddEventSends, AddEventGivesUp
<1>2. CASE IngestStep
  <2>1. CASE IngestTake
    BY <2>1, TakeMoves, SameHoldings, StutterIsLedger DEF IngestTake
  <2>2. CASE IngestTick \/ IngestDrain \/ IngestLast
    BY <2>2, SameHoldings, StutterIsLedger DEF IngestTick, IngestDrain, IngestLast
  <2>3. CASE StoreSpill
    <3>1. Ledger!Spill(Elements(spill))
      BY <2>3, StoreMoves DEF Ledger!Spill, StoreSpill
    <3> QED
      BY <2>3, <3>1, StoreMoves DEF Ledger!Next
  <2>4. CASE StoreSpillFails
    <3>1. fate' = [d \in Deliveries |-> IF d \in Elements(spill)
                                        THEN Ledger!Settled(d, "dropped") ELSE fate[d]]
      BY <2>4 DEF StoreSpillFails, Outcome, Ledger!Settled
    <3>2. InTable' = InTable
      BY <2>4, SameHoldings DEF StoreSpillFails
    <3>3. Ledger!Settle(Elements(spill), "dropped")
      BY <2>4, <3>1, <3>2, StoreFailureLeaves DEF Ledger!Settle
    <3>4. Elements(spill) \in SUBSET (InMemory \cup InTable)
      BY <2>4, StoreFailureLeaves
    <3> QED
      BY <3>3, <3>4 DEF Ledger!Next, Ledger!Fates
  <2>5. ASSUME NEW d \in Deliveries, IngestHandled(d) \/ IngestPermanent(d)
        PROVE  Ledger!Next
    <3> PICK how \in {"handled", "permanent"} : IngestSettles(d, how)
      BY <2>5 DEF IngestHandled, IngestPermanent
    <3>1. Settle(d, how) /\ InTable' = InTable
      BY SameHoldings DEF IngestSettles
    <3> QED
      BY <1>0, <3>1, VerdictLeaves, SettleIsLedger DEF Ledger!Fates
  <2>6. ASSUME NEW d \in Deliveries, IngestSpills(d)
        PROVE  [Ledger!Next]_(Ledger!ledgerVars)
    BY <2>6, SpillMoves, SameHoldings, StutterIsLedger DEF IngestSpills
  <2> QED
    BY <1>2, <2>1, <2>2, <2>3, <2>4, <2>5, <2>6 DEF IngestStep
<1>3. CASE FlushStep
  <2>1. CASE FlushTick \/ FlushStops \/ FlushAllFetch \/ FlushAllGivesUp \/ FlushBatchDone
    BY <2>1, SameHoldings, StutterIsLedger
       DEF FlushTick, FlushStops, FlushAllFetch, FlushAllGivesUp, FlushBatchDone, ingestVars
  <2>2. ASSUME NEW d \in Deliveries, FlushNext(d) \/ FlushHandlerFails(d) \/ MarkFails(d)
        PROVE  [Ledger!Next]_(Ledger!ledgerVars)
    BY <2>2, SameHoldings, StutterIsLedger DEF FlushNext, FlushHandlerFails, MarkFails, ingestVars
  <2>3. ASSUME NEW d \in Deliveries, FlushHandled(d) PROVE Ledger!Next
    <3>1. Settle(d, "handled") /\ InMemory' = InMemory /\ InTable' = InTable
      BY <2>3, SameHoldings DEF FlushHandled, ingestVars
    <3>2. d \in InTable
      BY <2>3 DEF FlushHandled, FlushControl, InTable
    <3> QED
      BY <1>0, <3>1, <3>2, SettleIsLedger DEF Ledger!Fates
  <2>4. ASSUME NEW d \in Deliveries, MarkProcessed(d) PROVE Ledger!Next
    <3>1. InMemory' = InMemory /\ InTable' = InTable \ {d} /\ UNCHANGED fate
      BY <1>0, <2>4, SameHoldings, MarkLeaves DEF MarkProcessed, ingestVars
    <3>2. fate[d] # "none"
      BY <2>4 DEF MarkProcessed, FlushControl
    <3> QED
      BY <3>1, <3>2 DEF Ledger!Next, Ledger!Release
  <2>5. ASSUME NEW d \in Deliveries, MarkFailed(d) PROVE Ledger!Next
    <3>1. Settle(d, "failed") /\ InMemory' = InMemory /\ InTable' = InTable \ {d}
      BY <1>0, <2>5, SameHoldings, MarkLeaves DEF MarkFailed, ingestVars
    <3>2. d \in InTable
      BY <2>5 DEF MarkFailed, FlushControl, InTable
    <3> QED
      BY <1>0, <3>1, <3>2, SettleIsLedger DEF Ledger!Fates
  <2> QED
    BY <1>3, <2>1, <2>2, <2>3, <2>4, <2>5 DEF FlushStep
<1>4. ASSUME NEW d \in Deliveries, RowRipens(d) PROVE [Ledger!Next]_(Ledger!ledgerVars)
  BY <1>0, <1>4, RipeningKeeps, SameHoldings, StutterIsLedger DEF RowRipens, ingestVars
<1>5. CASE Stop \/ UNCHANGED vars
  BY <1>5, SameHoldings, StutterIsLedger DEF Stop, vars, ingestVars
<1>6. CASE Crash
  <2>1. InMemory' = {} /\ InTable' = InTable
    BY <1>6, ElementsOfEmpty, SameHoldings DEF Crash, InMemory
  <2> QED
    BY <1>6, <2>1 DEF Crash, Ledger!Next, Ledger!Crash
<1> QED
  BY <1>1, <1>2, <1>3, <1>4, <1>5, <1>6 DEF Next

\* What the ledger says of one delivery over one step: handled stays handled,
\* and one in custody or with a fate on record does not vanish.
LEMMA LedgerKeeps ==
    ASSUME TypeOK, [Ledger!Next]_(Ledger!ledgerVars), NEW d \in Deliveries
    PROVE  /\ fate[d] = "handled" => fate'[d] = "handled"
           /\ fate[d] # "none" \/ d \in InMemory \cup InTable
                => fate'[d] # "none" \/ d \in InMemory' \cup InTable'
<1>0. fate \in [Deliveries -> {"none", "handled", "permanent", "failed", "dropped", "lost"}]
  BY DEF TypeOK
<1>1. ASSUME NEW e \in Deliveries, Ledger!Accept(e)
      PROVE  /\ fate[d] = "handled" => fate'[d] = "handled"
             /\ fate[d] # "none" \/ d \in InMemory \cup InTable
                  => fate'[d] # "none" \/ d \in InMemory' \cup InTable'
  BY <1>0, <1>1 DEF Ledger!Accept, Ledger!Settled
<1>2. ASSUME NEW spilled, Ledger!Spill(spilled)
      PROVE  /\ UNCHANGED fate
             /\ d \in InMemory \cup InTable => d \in InMemory' \cup InTable'
  BY <1>2 DEF Ledger!Spill
<1>3. ASSUME NEW settled, NEW how \in Ledger!Fates, Ledger!Settle(settled, how)
      PROVE  /\ fate[d] = "handled" => fate'[d] = "handled"
             /\ fate[d] # "none" \/ d \in InMemory \cup InTable
                  => fate'[d] # "none" \/ d \in InMemory' \cup InTable'
  <2>1. CASE d \in settled
    BY <1>3, <2>1 DEF Ledger!Settle, Ledger!Settled, Ledger!Fates
  <2>2. CASE d \notin settled
    BY <1>3, <2>2 DEF Ledger!Settle
  <2> QED
    BY <2>1, <2>2
<1>4. CASE Ledger!Release
  BY <1>4 DEF Ledger!Release
<1>5. CASE Ledger!Crash
  BY <1>5 DEF Ledger!Crash
<1>6. CASE UNCHANGED Ledger!ledgerVars
  BY <1>6 DEF Ledger!ledgerVars
<1> QED
  BY <1>1, <1>2, <1>3, <1>4, <1>5, <1>6 DEF Ledger!Next

-----------------------------------------------------------------------------
(* The safety invariants.                                                  *)

\* How the status of a row may change, and by whose hands.
LEMMA RowSteps ==
    ASSUME TypeInv, [Next]_vars, NEW d \in Deliveries
    PROVE  \/ table'[d] = table[d]
           \/ table'[d] = "pending" /\ d \in Elements(spill)
           \/ table'[d] = "ripe" /\ table[d] = "pending"
           \/ table'[d] = "processed" /\ flushAt = "markProcessed" /\ flushEv = {d} /\ flushEv' = {}
           \/ table'[d] = "failed" /\ flushAt = "markFailed" /\ flushEv = {d} /\ flushEv' = {}
<1> DEFINE Goal == \/ table'[d] = table[d]
                   \/ table'[d] = "pending" /\ d \in Elements(spill)
                   \/ table'[d] = "ripe" /\ table[d] = "pending"
                   \/ table'[d] = "processed" /\ flushAt = "markProcessed" /\ flushEv = {d}
                        /\ flushEv' = {}
                   \/ table'[d] = "failed" /\ flushAt = "markFailed" /\ flushEv = {d}
                        /\ flushEv' = {}
<1>0. table \in [Deliveries -> RowStates]
  BY DEF TypeInv, TypeOK
<1>1. ASSUME NEW e \in Deliveries, AddEvent(e) \/ AddEventSends(e) \/ AddEventGivesUp(e)
      PROVE  Goal
  BY <1>1 DEF AddEvent, AddEventSends, AddEventGivesUp
<1>2. CASE IngestStep
  <2>1. CASE StoreSpill
    BY <2>1 DEF StoreSpill
  <2>2. CASE UNCHANGED table
    BY <2>2
  <2> QED
    BY <1>2, <2>1, <2>2
       DEF IngestStep, IngestTake, IngestTick, IngestDrain, IngestLast, StoreSpillFails,
           IngestHandled, IngestPermanent, IngestSettles, IngestSpills
<1>3. CASE FlushStep
  <2>1. ASSUME NEW e \in Deliveries, MarkProcessed(e) \/ MarkFailed(e) PROVE Goal
    BY <1>0, <2>1 DEF MarkProcessed, MarkFailed
  <2>2. CASE UNCHANGED table
    BY <2>2
  <2> QED
    BY <1>3, <2>1, <2>2
       DEF FlushStep, FlushTick, FlushStops, FlushAllFetch, FlushAllGivesUp, FlushBatchDone,
           FlushNext, FlushHandled, FlushHandlerFails, MarkFails
<1>4. ASSUME NEW e \in Deliveries, RowRipens(e) PROVE Goal
  BY <1>0, <1>4 DEF RowRipens
<1>5. CASE Stop \/ Crash \/ UNCHANGED vars
  BY <1>5 DEF Stop, Crash, vars
<1> QED
  BY <1>1, <1>2, <1>3, <1>4, <1>5 DEF Next

\* Only the flush worker takes a row out of the pending ones, and only the one
\* it replays.
LEMMA PendingStays ==
    ASSUME TypeInv, [Next]_vars, NEW d \in Deliveries, Pending(d)
    PROVE  Pending(d)' \/ (flushEv = {d} /\ flushEv' = {})
  BY RowSteps DEF Pending

\* The flush worker keeps to the rows in its hands, whatever the ingest worker
\* stores and the callers send in between.
LEMMA FlushControlStep ==
    ASSUME TypeInv, FlushControl, [Next]_vars
    PROVE  FlushControl'
<1>1. \A d \in Deliveries : fate[d] = "handled" => fate'[d] = "handled"
  BY LedgerStep, LedgerKeeps DEF TypeInv
<1>2. batch \subseteq Deliveries /\ flushEv \subseteq Deliveries
  BY DEF TypeInv, TypeOK
<1>3. ASSUME UNCHANGED <<flushAt, batch, flushEv>> PROVE FlushControl'
  <2>1. \A d \in batch \cup flushEv : Pending(d)'
    BY <1>2, <1>3, PendingStays DEF FlushControl
  <2> QED
    BY <1>1, <1>2, <1>3, <2>1 DEF FlushControl
<1>4. CASE FlushStep
  <2>1. CASE FlushTick
    <3>1. flushEv' = {} /\ flushAt' = "replay" /\ UNCHANGED table
      BY <2>1 DEF FlushTick, FlushControl
    <3>2. batch' \subseteq {d \in Deliveries : table[d] = "ripe"}
      BY <2>1, FirstRowsAreRows DEF FlushTick
    <3> QED
      BY <3>1, <3>2 DEF FlushControl, Pending
  <2>2. CASE FlushAllFetch
    <3>1. flushEv' = {} /\ flushAt' \in {"done", "replay"} /\ UNCHANGED table
      BY <2>2 DEF FlushAllFetch, FlushControl
    <3>2. batch' \subseteq InTable
      BY <2>2, FirstRowsAreRows DEF FlushAllFetch
    <3> QED
      BY <3>1, <3>2 DEF FlushControl, InTable, Pending
  <2>3. CASE FlushStops \/ FlushAllGivesUp \/ FlushBatchDone
    BY <2>3 DEF FlushStops, FlushAllGivesUp, FlushBatchDone, FlushControl, Pending
  <2>4. ASSUME NEW d \in Deliveries, FlushNext(d) PROVE FlushControl'
    BY <2>4 DEF FlushNext, FlushControl, Pending
  <2>5. ASSUME NEW d \in Deliveries, FlushHandled(d) PROVE FlushControl'
    <3>1. fate'[d] = "handled"
      BY <2>5 DEF FlushHandled, Settle, Outcome, TypeInv, TypeOK
    <3> QED
      BY <2>5, <3>1 DEF FlushHandled, FlushControl, Pending
  <2>6. ASSUME NEW d \in Deliveries, FlushHandlerFails(d) PROVE FlushControl'
    BY <2>6 DEF FlushHandlerFails, FlushControl, Pending
  <2>7. ASSUME NEW d \in Deliveries, MarkProcessed(d) \/ MarkFailed(d) \/ MarkFails(d)
        PROVE  FlushControl'
    <3>1. flushEv = {d} /\ flushEv' = {} /\ flushAt' = "replay" /\ UNCHANGED batch
      BY <2>7 DEF MarkProcessed, MarkFailed, MarkFails
    <3>2. \A e \in batch : e # d
      BY <3>1 DEF FlushControl
    <3>3. \A e \in batch : Pending(e)'
      BY <1>2, <3>1, <3>2, PendingStays DEF FlushControl
    <3> QED
      BY <3>1, <3>3 DEF FlushControl
  <2> QED
    BY <1>4, <2>1, <2>2, <2>3, <2>4, <2>5, <2>6, <2>7 DEF FlushStep
<1>5. CASE Crash
  BY <1>5 DEF Crash, FlushControl
<1>6. CASE UNCHANGED flushVars
  BY <1>3, <1>6 DEF flushVars
<1> QED
  BY <1>4, <1>5, <1>6
     DEF Next, AddEvent, AddEventSends, AddEventGivesUp, IngestStep, IngestTake, IngestTick,
         IngestDrain, IngestLast, StoreSpill, StoreSpillFails, IngestHandled, IngestPermanent,
         IngestSettles, IngestSpills, RowRipens, Stop, vars

\* A delivery is accepted when it is put into the channel, and not otherwise.
LEMMA AcceptedIsHeld ==
    ASSUME TypeInv, [Next]_vars, NEW d \in accepted' \ accepted
    PROVE  d \in InMemory'
<1>0. TypeOK
  BY DEF TypeInv
<1>1. ASSUME NEW e \in Deliveries, AddEvent(e) \/ AddEventSends(e) \/ AddEventGivesUp(e)
      PROVE  d \in InMemory'
  <2>1. Enqueue(e)
    BY <1>1 DEF AddEvent, AddEventSends, AddEventGivesUp
  <2>2. UNCHANGED ingestVars
    BY <1>1 DEF AddEvent, AddEventSends, AddEventGivesUp
  <2>3. d = e /\ InMemory' = InMemory \cup {e}
    BY <1>0, <2>1, <2>2, EnqueueAdds DEF Enqueue
  <2> QED
    BY <2>3
<1>2. CASE UNCHANGED accepted
  BY <1>2
<1> QED
  BY <1>1, <1>2
     DEF Next, IngestStep, IngestTake, IngestTick, IngestDrain, IngestLast, StoreSpill,
         StoreSpillFails, IngestHandled, IngestPermanent, IngestSettles, IngestSpills,
         FlushStep, FlushTick, FlushStops, FlushAllFetch, FlushAllGivesUp, FlushBatchDone,
         FlushNext, FlushHandled, FlushHandlerFails, MarkProcessed, MarkFailed, MarkFails,
         RowRipens, Stop, Crash, vars

\* NothingForgotten follows from what the ledger says of each delivery.
LEMMA ForgottenStep ==
    ASSUME TypeInv, FlushControl, NothingForgotten, [Next]_vars
    PROVE  NothingForgotten'
<1> SUFFICES ASSUME NEW d \in accepted' PROVE fate'[d] # "none" \/ d \in InMemory' \cup InTable'
  BY DEF NothingForgotten
<1>1. CASE d \notin accepted
  BY <1>1, AcceptedIsHeld
<1>2. CASE d \in accepted
  <2>1. d \in Deliveries /\ TypeOK
    BY <1>2 DEF TypeInv, TypeOK
  <2>2. fate[d] # "none" \/ d \in InMemory \cup InTable
    BY <1>2 DEF NothingForgotten
  <2> QED
    BY <2>1, <2>2, LedgerStep, LedgerKeeps
<1> QED
  BY <1>1, <1>2

\* Only the row of an event that was handled becomes processed.
LEMMA ProcessedStep ==
    ASSUME TypeInv, FlushControl, ProcessedWasHandled, [Next]_vars
    PROVE  ProcessedWasHandled'
<1> SUFFICES ASSUME NEW d \in Deliveries, table'[d] = "processed" PROVE fate'[d] = "handled"
  BY DEF ProcessedWasHandled
<1>1. table[d] = "processed" \/ (flushAt = "markProcessed" /\ flushEv = {d})
  BY RowSteps
<1>2. fate[d] = "handled"
  BY <1>1 DEF ProcessedWasHandled, FlushControl
<1> QED
  BY <1>2, LedgerStep, LedgerKeeps DEF TypeInv

\* Only events that failed with another error join the spill buffer.
LEMMA SpillSteps ==
    ASSUME TypeInv, [Next]_vars, NEW d \in Permanent
    PROVE  d \in Elements(spill') => d \in Elements(spill)
<1>1. ASSUME NEW e \in Deliveries, IngestSpills(e)
      PROVE  d \in Elements(spill') => d \in Elements(spill)
  BY <1>1, SpillMoves DEF IngestSpills
<1>2. CASE spill' = <<>>
  BY <1>2, ElementsOfEmpty
<1>3. CASE UNCHANGED spill
  BY <1>3
<1> QED
  BY <1>1, <1>2, <1>3
     DEF Next, AddEvent, AddEventSends, AddEventGivesUp, IngestStep, IngestTake, IngestTick,
         IngestDrain, IngestLast, StoreSpill, StoreSpillFails, IngestHandled, IngestPermanent,
         IngestSettles, FlushStep, FlushTick, FlushStops, FlushAllFetch, FlushAllGivesUp,
         FlushBatchDone, FlushNext, FlushHandled, FlushHandlerFails, MarkProcessed,
         MarkFailed, MarkFails, RowRipens, Stop, Crash, ingestVars, vars

\* So a permanent event gets no row, and no row of one is marked.
LEMMA PermanentStep ==
    ASSUME TypeInv, FlushControl, PermanentNotRetried, [Next]_vars
    PROVE  PermanentNotRetried'
<1> SUFFICES ASSUME NEW d \in Permanent PROVE table'[d] = "none" /\ d \notin Elements(spill')
  BY DEF PermanentNotRetried
<1>1. d \in Deliveries /\ table[d] = "none" /\ d \notin Elements(spill)
  BY OrderingAssumption DEF OrderingAssumption, PermanentNotRetried
<1>2. flushEv # {d}
  BY <1>1 DEF FlushControl, Pending
<1> QED
  BY <1>1, <1>2, RowSteps, SpillSteps

\* The inductive invariant.
THEOREM OrderingInvariant == Spec => []OrderingInv
<1>1. ASSUME Init PROVE OrderingInv
  <2>1. TypeInv
    BY <1>1, TypeInit
  <2>2. FlushControl
    BY <1>1 DEF Init, FlushControl
  <2>3. NothingForgotten /\ ProcessedWasHandled
    BY <1>1 DEF Init, NothingForgotten, ProcessedWasHandled
  <2>4. PermanentNotRetried
    BY <1>1, ElementsOfEmpty, OrderingAssumption
       DEF OrderingAssumption, Init, PermanentNotRetried
  <2> QED
    BY <2>1, <2>2, <2>3, <2>4 DEF OrderingInv
<1>2. OrderingInv /\ [Next]_vars => OrderingInv'
  BY TypeStep, FlushControlStep, ForgottenStep, ProcessedStep, PermanentStep DEF OrderingInv
<1> QED
  BY <1>1, <1>2, PTL DEF Spec

\* No accepted delivery vanishes without a record.
THEOREM NoSilentLoss == Spec => []NothingForgotten
  BY OrderingInvariant, PTL DEF OrderingInv

\* A processed row is one whose event was handled.
THEOREM ProcessedMeansHandled == Spec => []ProcessedWasHandled
  BY OrderingInvariant, PTL DEF OrderingInv

\* Permanent failures take the fast path out.
THEOREM PermanentIsFinal == Spec => []PermanentNotRetried
  BY OrderingInvariant, PTL DEF OrderingInv

\* The service implements the ledger: every behaviour of the channel, the two
\* workers, the table and the crashes is one of the ledger's.
THEOREM ImplementsLedger == Spec => LedgerSpec
<1>1. ASSUME Init PROVE Ledger!Init
  <2>1. InMemory = {} /\ InTable = {}
    BY <1>1, ElementsOfEmpty DEF Init, InMemory, InTable, Pending
  <2> QED
    BY <1>1, <2>1 DEF Init, Ledger!Init
<1>2. OrderingInv /\ [Next]_vars => [Ledger!Next]_(Ledger!ledgerVars)
  BY LedgerStep DEF OrderingInv
<1> QED
  BY <1>1, <1>2, OrderingInvariant, PTL DEF Spec, LedgerSpec, Ledger!Spec

-----------------------------------------------------------------------------
(* Nothing is held or settled that was not accepted.                       *)

\* The service works on deliveries for which AddEvent returned nil, and on no
\* others.
NothingInvented ==
    \A d \in Deliveries : d \in InMemory \cup InTable \/ fate[d] # "none" => d \in accepted

\* What appears in memory or in the table was there or was just accepted.
LEMMA NothingAppears ==
    ASSUME TypeInv, [Next]_vars
    PROVE  /\ accepted \subseteq accepted'
           /\ InMemory' \cup InTable' \subseteq InMemory \cup InTable \cup accepted'
<1> DEFINE Goal == /\ accepted \subseteq accepted'
                   /\ InMemory' \cup InTable' \subseteq InMemory \cup InTable \cup accepted'
<1>0. TypeOK
  BY DEF TypeInv
<1>1. ASSUME NEW d \in Deliveries, AddEvent(d) \/ AddEventSends(d) \/ AddEventGivesUp(d)
      PROVE  Goal
  <2>1. InTable' = InTable /\ UNCHANGED ingestVars
    BY <1>1, SameHoldings DEF AddEvent, AddEventSends, AddEventGivesUp
  <2>2. CASE Enqueue(d)
    BY <1>0, <2>1, <2>2, EnqueueAdds DEF Enqueue
  <2>3. CASE UNCHANGED <<ingestCh, accepted>>
    BY <2>1, <2>3, SameHoldings DEF ingestVars
  <2> QED
    BY <1>1, <2>2, <2>3 DEF AddEvent, AddEventSends, AddEventGivesUp
<1>2. CASE IngestStep
  <2>1. UNCHANGED accepted
    BY <1>2 DEF IngestStep, IngestTake, IngestTick, IngestDrain, IngestLast, StoreSpill,
                StoreSpillFails, IngestHandled, IngestPermanent, IngestSettles, IngestSpills
  <2>2. CASE StoreSpill
    BY <2>1, <2>2, StoreMoves
  <2>3. CASE ~StoreSpill
    <3>1. InTable' = InTable
      BY <1>2, <2>3, SameHoldings
         DEF IngestStep, IngestTake, IngestTick, IngestDrain, IngestLast, StoreSpillFails,
             IngestHandled, IngestPermanent, IngestSettles, IngestSpills
    <3>2. InMemory' \subseteq InMemory
      BY <1>2, <2>3, SameHoldings, TakeMoves, VerdictLeaves, SpillMoves, StoreFailureLeaves
         DEF IngestStep, IngestTick, IngestDrain, IngestLast, IngestHandled, IngestPermanent
    <3> QED
      BY <2>1, <3>1, <3>2
  <2> QED
    BY <2>2, <2>3
<1>3. CASE FlushStep
  <2>1. InMemory' = InMemory /\ UNCHANGED accepted
    BY <1>3, SameHoldings
       DEF FlushStep, FlushTick, FlushStops, FlushAllFetch, FlushAllGivesUp, FlushBatchDone,
           FlushNext, FlushHandled, FlushHandlerFails, MarkProcessed, MarkFailed, MarkFails,
           ingestVars
  <2>2. InTable' \subseteq InTable
    BY <1>0, <1>3, SameHoldings, MarkLeaves
       DEF FlushStep, FlushTick, FlushStops, FlushAllFetch, FlushAllGivesUp, FlushBatchDone,
           FlushNext, FlushHandled, FlushHandlerFails, MarkFails
  <2> QED
    BY <2>1, <2>2
<1>4. ASSUME NEW d \in Deliveries, RowRipens(d) PROVE Goal
  BY <1>0, <1>4, RipeningKeeps, SameHoldings DEF RowRipens, ingestVars
<1>5. CASE Stop \/ UNCHANGED vars
  BY <1>5, SameHoldings DEF Stop, vars, ingestVars
<1>6. CASE Crash
  <2>1. InMemory' = {} /\ InTable' = InTable /\ UNCHANGED accepted
    BY <1>6, ElementsOfEmpty, SameHoldings DEF Crash, InMemory
  <2> QED
    BY <2>1
<1> QED
  BY <1>1, <1>2, <1>3, <1>4, <1>5, <1>6 DEF Next

\* The ledger settles only what is in custody.
LEMMA LedgerSettlesHeld ==
    ASSUME TypeOK, [Ledger!Next]_(Ledger!ledgerVars), NEW d \in Deliveries,
           d \notin InMemory \cup InTable, fate[d] = "none"
    PROVE  fate'[d] = "none"
<1>1. ASSUME NEW e \in Deliveries, Ledger!Accept(e) PROVE fate'[d] = "none"
  BY <1>1 DEF Ledger!Accept, Ledger!Settled, TypeOK
<1>2. ASSUME NEW settled, NEW how, Ledger!Settle(settled, how) PROVE fate'[d] = "none"
  BY <1>2 DEF Ledger!Settle
<1>3. CASE Ledger!Crash
  BY <1>3 DEF Ledger!Crash
<1>4. CASE UNCHANGED fate
  BY <1>4
<1> QED
  BY <1>1, <1>2, <1>3, <1>4 DEF Ledger!Next, Ledger!Spill, Ledger!Release, Ledger!ledgerVars

\* No interleaving makes the service work on a delivery it has not accepted.
THEOREM OnlyAccepted == Spec => []NothingInvented
<1>1. ASSUME Init PROVE NothingInvented
  BY <1>1, ElementsOfEmpty DEF Init, NothingInvented, InMemory, InTable, Pending
<1>2. ASSUME OrderingInv, NothingInvented, [Next]_vars PROVE NothingInvented'
  <2> SUFFICES ASSUME NEW d \in Deliveries, d \notin accepted'
               PROVE  d \notin InMemory' \cup InTable' /\ fate'[d] = "none"
    BY DEF NothingInvented
  <2>1. d \notin InMemory \cup InTable /\ fate[d] = "none" /\ TypeOK
    BY <1>2, NothingAppears DEF NothingInvented, OrderingInv, TypeInv
  <2> QED
    BY <1>2, <2>1, NothingAppears, LedgerStep, LedgerSettlesHeld DEF OrderingInv
<1>3. OrderingInv /\ NothingInvented /\ [Next]_vars => NothingInvented'
  BY <1>2
<1> QED
  BY <1>1, <1>3, OrderingInvariant, PTL DEF Spec

-----------------------------------------------------------------------------
(* The last pass: nothing stays pending when both workers have returned.   *)

\* A query that returns fewer rows than its limit returns all there are.
LEMMA ShortBatchIsAll ==
    ASSUME NEW rows \in SUBSET Deliveries, NEW limit \in Nat,
           Cardinality(FirstRows(rows, limit)) < limit
    PROVE  FirstRows(rows, limit) = rows
<1> DEFINE before(d) == {e \in rows : Rank[e] < Rank[d]}
           first == FirstRows(rows, limit)
           others == {before(d) : d \in rows \ first}
<1>1. /\ IsFiniteSet(rows) /\ first \subseteq rows
      /\ \A d \in rows : Rank[d] \in Nat /\ IsFiniteSet(before(d))
  <2>1. IsFiniteSet(rows)
    BY OrderingAssumption, FS_Subset DEF OrderingAssumption
  <2>2. \A d \in rows : IsFiniteSet(before(d))
    BY <2>1, FS_Subset
  <2> QED
    BY <2>1, <2>2, FirstRowsAreRows, OrderingAssumption DEF OrderingAssumption
<1> SUFFICES ASSUME rows \ first # {} PROVE FALSE
  BY <1>1
<1>2. PICK d \in rows \ first : \A e \in rows \ first :
        ~ (before(e) \subseteq before(d) /\ before(e) # before(d))
  <2>1. others \subseteq FiniteSubsetsOf(rows) /\ others # {}
    BY <1>1 DEF FiniteSubsetsOf
  <2>2. IsWellFoundedOn(StrictSubsetOrdering(rows), FiniteSubsetsOf(rows))
    BY FS_StrictSubsetOrderingWellFounded
  <2>3. PICK least \in others : \A other \in others : <<other, least>> \notin StrictSubsetOrdering(rows)
    BY <2>1, <2>2, WFMin
  <2>4. least \in SUBSET rows /\ \A other \in others : other \in SUBSET rows
    OBVIOUS
  <2>5. \A other \in others : ~ (other \subseteq least /\ other # least)
    BY <2>3, <2>4 DEF StrictSubsetOrdering
  <2>6. PICK d \in rows \ first : least = before(d)
    OBVIOUS
  <2>7. \A e \in rows \ first : before(e) \in others
    OBVIOUS
  <2> HIDE DEF before, others, first
  <2> QED
    BY <2>5, <2>6, <2>7
<1>3. before(d) \subseteq first
  <2> SUFFICES ASSUME NEW e \in before(d), e \notin first PROVE FALSE
    OBVIOUS
  <2>1. d \in rows /\ e \in rows \ first /\ Rank[e] < Rank[d]
    OBVIOUS
  <2>2. Rank[e] \in Nat /\ Rank[d] \in Nat /\ \A r \in rows : Rank[r] \in Nat
    BY <1>1, <2>1
  <2>3. before(e) \subseteq before(d)
    BY <2>1, <2>2
  <2>4. e \notin before(e)
    BY <2>1, <2>2
  <2> HIDE DEF before
  <2> QED
    BY <1>2, <2>1, <2>3, <2>4
<1>4. Cardinality(before(d)) =< Cardinality(first)
  BY <1>1, <1>3, FS_Subset
<1>5. ~ (Cardinality(before(d)) < limit)
  BY <1>2 DEF FirstRows
<1>6. Cardinality(before(d)) \in Nat /\ Cardinality(first) \in Nat
  BY <1>1, <1>2, FS_Subset, FS_CardinalityType
<1> HIDE DEF before, first
<1> QED
  BY <1>4, <1>5, <1>6 DEF first

\* The order in which the workers end: Stop, the drain of the ingest worker
\* and its last store, then the last pass of the flush worker.
StopControl ==
    /\ draining => ctxDone
    /\ ingestAt \in {"storeLast", "done"} => draining
    /\ ingestAt = "done" => spill = <<>>
    /\ final => ingestAt = "done"
    /\ flushAt \in {"fetchAll", "done"} => final
    /\ flushAt = "select" => ~final

\* In the last pass a batch that is not full holds all the rows that are
\* pending, and no row is added any more.
LastPass ==
    /\ final /\ ~fullBatch /\ flushAt \in {"replay", "handle", "markProcessed", "markFailed"}
         => InTable \subseteq batch \cup flushEv
    /\ flushAt = "done" => InTable = {}

DrainInv == OrderingInv /\ StopControl /\ (~cutShort => LastPass)

\* The workers end in this order, whatever fails.
LEMMA StopControlStep ==
    ASSUME TypeInv, StopControl, [Next]_vars
    PROVE  StopControl'
<1>1. ASSUME NEW d \in Deliveries,
             AddEvent(d) \/ AddEventSends(d) \/ AddEventGivesUp(d) \/ RowRipens(d)
      PROVE  StopControl'
  BY <1>1 DEF AddEvent, AddEventSends, AddEventGivesUp, RowRipens, StopControl, ingestVars, flushVars
<1>2. CASE IngestStep
  <2>1. CASE IngestTake \/ IngestTick \/ IngestDrain \/ IngestLast
    BY <2>1 DEF IngestTake, IngestTick, IngestDrain, IngestLast, StopControl, flushVars
  <2>2. CASE StoreSpill \/ StoreSpillFails
    BY <2>2 DEF StoreSpill, StoreSpillFails, AfterStore, StopControl, flushVars
  <2>3. ASSUME NEW d \in Deliveries, IngestHandled(d) \/ IngestPermanent(d) PROVE StopControl'
    BY <2>3 DEF IngestHandled, IngestPermanent, IngestSettles, StopControl, flushVars
  <2>4. ASSUME NEW d \in Deliveries, IngestSpills(d) PROVE StopControl'
    <3>1. ingestAt = "process" /\ ingestAt' \in {"select", "store"}
      BY <2>4, SpillRoom DEF IngestSpills
    <3> QED
      BY <2>4, <3>1 DEF IngestSpills, StopControl, flushVars
  <2> QED
    BY <1>2, <2>1, <2>2, <2>3, <2>4 DEF IngestStep
<1>3. CASE FlushStep
  <2>1. CASE FlushTick \/ FlushStops \/ FlushAllFetch \/ FlushAllGivesUp
    BY <2>1 DEF FlushTick, FlushStops, FlushAllFetch, FlushAllGivesUp, StopControl, ingestVars
  <2>2. CASE FlushBatchDone
    BY <2>2 DEF FlushBatchDone, StopControl, ingestVars
  <2>3. ASSUME NEW d \in Deliveries,
               FlushNext(d) \/ FlushHandled(d) \/ FlushHandlerFails(d)
        PROVE  StopControl'
    BY <2>3 DEF FlushNext, FlushHandled, FlushHandlerFails, StopControl, ingestVars
  <2>4. ASSUME NEW d \in Deliveries, MarkProcessed(d) \/ MarkFailed(d) \/ MarkFails(d)
        PROVE  StopControl'
    BY <2>4 DEF MarkProcessed, MarkFailed, MarkFails, StopControl, ingestVars
  <2> QED
    BY <1>3, <2>1, <2>2, <2>3, <2>4 DEF FlushStep
<1>4. CASE Stop \/ Crash \/ UNCHANGED vars
  BY <1>4 DEF Stop, Crash, vars, StopControl, ingestVars, flushVars
<1> QED
  BY <1>1, <1>2, <1>3, <1>4 DEF Next

\* Nothing is stored any more once the ingest worker has returned.
LEMMA NothingStoredAfterwards ==
    ASSUME TypeInv, [Next]_vars, ingestAt = "done"
    PROVE  InTable' \subseteq InTable
<1>1. CASE StoreSpill
  BY <1>1 DEF StoreSpill
<1>2. ASSUME NEW d \in Deliveries, RowRipens(d) PROVE InTable' \subseteq InTable
  BY <1>2, RipeningKeeps DEF TypeInv
<1>3. ASSUME NEW d \in Deliveries, MarkProcessed(d) \/ MarkFailed(d) PROVE InTable' \subseteq InTable
  BY <1>3, MarkLeaves DEF TypeInv
<1>4. CASE UNCHANGED table
  BY <1>4, SameHoldings
<1> QED
  BY <1>1, <1>2, <1>3, <1>4
     DEF Next, AddEvent, AddEventSends, AddEventGivesUp, IngestStep, IngestTake, IngestTick,
         IngestDrain, IngestLast, StoreSpillFails, IngestHandled, IngestPermanent,
         IngestSettles, IngestSpills, FlushStep, FlushTick, FlushStops, FlushAllFetch,
         FlushAllGivesUp, FlushBatchDone, FlushNext, FlushHandled, FlushHandlerFails,
         MarkFails, Stop, Crash, vars

\* The last pass replays everything that is pending, unless a query or an
\* update of a row fails in it or its time is up.
LEMMA LastPassStep ==
    ASSUME TypeInv, FlushControl, StopControl, LastPass, [Next]_vars, ~cutShort'
    PROVE  LastPass'
<1>1. ASSUME UNCHANGED flushVars PROVE LastPass'
  <2>1. CASE ~final
    BY <1>1, <2>1 DEF LastPass, StopControl, flushVars
  <2>2. CASE final
    <3>1. InTable' \subseteq InTable
      BY <2>2, NothingStoredAfterwards DEF StopControl
    <3> QED
      BY <1>1, <3>1 DEF LastPass, flushVars
  <2> QED
    BY <2>1, <2>2
<1>2. CASE FlushStep
  <2>1. CASE FlushTick \/ FlushStops
    BY <2>1 DEF FlushTick, FlushStops, LastPass, StopControl
  <2>2. CASE FlushAllFetch
    <3>1. /\ batch' = FirstRows(InTable, FinalBatch)
          /\ fullBatch' = (Cardinality(batch') >= FinalBatch)
          /\ flushAt' = IF InTable = {} THEN "done" ELSE "replay"
          /\ InTable' = InTable
      BY <2>2, SameHoldings DEF FlushAllFetch
    <3>2. InTable \in SUBSET Deliveries /\ FinalBatch \in Nat
      BY OrderingAssumption DEF OrderingAssumption, InTable
    <3>3. IsFiniteSet(batch')
      BY <3>1, <3>2, FirstRowsAreRows, OrderingAssumption, FS_Subset DEF OrderingAssumption
    <3>4. Cardinality(batch') \in Nat
      BY <3>3, FS_CardinalityType
    <3>5. ~fullBatch' => Cardinality(batch') < FinalBatch
      <4> DEFINE size == Cardinality(batch')
      <4>1. fullBatch' = (size >= FinalBatch) /\ size \in Nat
        BY <3>1, <3>4
      <4> HIDE DEF size
      <4>2. size >= FinalBatch \/ size < FinalBatch
        BY <3>2, <4>1
      <4>3. ~fullBatch' => size < FinalBatch
        BY <4>1, <4>2, Zenon
      <4> QED
        BY <4>3 DEF size
    <3>6. ~fullBatch' => batch' = InTable
      BY <3>1, <3>2, <3>5, ShortBatchIsAll
    <3> QED
      BY <3>1, <3>6 DEF LastPass
  <2>3. CASE FlushAllGivesUp
    <3>1. final /\ (Fails("fetch") \/ Fails("deadline"))
      BY <2>3 DEF FlushAllGivesUp, StopControl
    <3> QED
      BY <3>1 DEF Fails
  <2>4. CASE FlushBatchDone
    <3>1. InTable' = InTable /\ batch = {} /\ flushEv = {} /\ flushAt = "replay"
      BY <2>4, SameHoldings DEF FlushBatchDone, FlushControl
    <3> QED
      BY <2>4, <3>1 DEF FlushBatchDone, LastPass
  <2>5. ASSUME NEW d \in Deliveries, FlushNext(d) PROVE LastPass'
    <3>1. InTable' = InTable /\ batch \cup flushEv \subseteq batch' \cup flushEv'
      BY <2>5, SameHoldings DEF FlushNext, FlushControl
    <3>2. flushAt = "replay" /\ flushAt' = "handle" /\ UNCHANGED <<final, fullBatch>>
      BY <2>5 DEF FlushNext
    <3> QED
      BY <3>1, <3>2 DEF LastPass
  <2>6. ASSUME NEW d \in Deliveries, FlushHandled(d) \/ FlushHandlerFails(d) PROVE LastPass'
    <3>1. InTable' = InTable
      BY <2>6, SameHoldings DEF FlushHandled, FlushHandlerFails
    <3> QED
      BY <2>6, <3>1 DEF FlushHandled, FlushHandlerFails, LastPass
  <2>7. ASSUME NEW d \in Deliveries, MarkProcessed(d) \/ MarkFailed(d) PROVE LastPass'
    <3>1. InTable' = InTable \ {d}
      BY <2>7, MarkLeaves DEF TypeInv
    <3> QED
      BY <2>7, <3>1 DEF MarkProcessed, MarkFailed, LastPass
  <2>8. ASSUME NEW d \in Deliveries, MarkFails(d) PROVE LastPass'
    <3>1. Fails("mark") /\ UNCHANGED final /\ flushAt' = "replay"
      BY <2>8 DEF MarkFails
    <3>2. ~final
      BY <3>1 DEF Fails
    <3> QED
      BY <3>1, <3>2 DEF LastPass
  <2> QED
    BY <1>2, <2>1, <2>2, <2>3, <2>4, <2>5, <2>6, <2>7, <2>8 DEF FlushStep
<1>3. CASE Crash
  BY <1>3 DEF Crash, LastPass
<1> QED
  BY <1>1, <1>2, <1>3
     DEF Next, AddEvent, AddEventSends, AddEventGivesUp, IngestStep, IngestTake, IngestTick,
         IngestDrain, IngestLast, StoreSpill, StoreSpillFails, IngestHandled, IngestPermanent,
         IngestSettles, IngestSpills, RowRipens, Stop, flushVars, vars

\* What cuts the last pass short is on record until the next start.
LEMMA CutShortStays ==
    ASSUME [Next]_vars, cutShort, ~cutShort'
    PROVE  LastPass'
<1>1. Crash
  BY DEF Next, AddEvent, AddEventSends, AddEventGivesUp, IngestStep, IngestTake, IngestTick,
         IngestDrain, IngestLast, StoreSpill, StoreSpillFails, IngestHandled, IngestPermanent,
         IngestSettles, IngestSpills, FlushStep, FlushTick, FlushStops, FlushAllFetch,
         FlushAllGivesUp, FlushBatchDone, FlushNext, FlushHandled, FlushHandlerFails,
         MarkProcessed, MarkFailed, MarkFails, RowRipens, Stop, Fails, boundVars, vars
<1> QED
  BY <1>1 DEF Crash, LastPass

\* A graceful stop leaves nothing behind in memory, whatever fails: when the
\* flush worker has returned, which Stop waits for, the worker holds no event
\* and the buffer is empty.  No row is pending either, unless a query or an
\* update of a row failed in the last pass or its time was up.
StoppedIsDrained ==
    flushAt = "done" =>
        /\ spill = <<>> /\ ingestEv = {}
        /\ ~cutShort => InTable = {}

\* How Stop and the two workers end (event_ordering_service.go:115-118).
THEOREM StopDrains == Spec => []DrainInv /\ []StoppedIsDrained
<1> DEFINE Last == ~cutShort => LastPass
<1>1. Init => StopControl /\ Last
  BY DEF Init, StopControl, LastPass
<1>2. OrderingInv /\ StopControl /\ Last /\ [Next]_vars => StopControl' /\ Last'
  <2> SUFFICES ASSUME OrderingInv, StopControl, Last, [Next]_vars
               PROVE  StopControl' /\ Last'
    OBVIOUS
  <2>1. StopControl'
    BY StopControlStep DEF OrderingInv
  <2>2. ASSUME ~cutShort' PROVE LastPass'
    <3>1. CASE cutShort
      BY <2>2, <3>1, CutShortStays
    <3>2. CASE ~cutShort
      BY <2>2, <3>2, LastPassStep DEF OrderingInv
    <3> QED
      BY <3>1, <3>2
  <2>3. Last'
    BY <2>2
  <2> QED
    BY <2>1, <2>3
<1>3. OrderingInv /\ StopControl /\ Last => DrainInv /\ StoppedIsDrained
  BY DEF DrainInv, OrderingInv, TypeInv, StopControl, LastPass, IngestControl, StoppedIsDrained
<1> HIDE DEF Last
<1> QED
  BY <1>1, <1>2, <1>3, OrderingInvariant, PTL DEF Spec
=============================================================================
