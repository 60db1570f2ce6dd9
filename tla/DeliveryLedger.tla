---------------------------- MODULE DeliveryLedger ----------------------------
(***************************************************************************)
(* What the ingest pipeline promises of a webhook delivery, whatever its   *)
(* channels, buffers and tables: a delivery that was accepted (answered    *)
(* 202) stays in the pipeline's custody until its fate is on record; what  *)
(* is stored survives a crash; what was handled stays handled.             *)
(***************************************************************************)
CONSTANT Deliveries

VARIABLES
    memory,   \* deliveries the process holds in memory
    stored,   \* deliveries held in the database, to be replayed
    fate      \* fate[d]: how d was settled, "none" while it is not

ledgerVars == <<memory, stored, fate>>

\* handled: a handler stored its effect; permanent: it can never be handled;
\* failed: given up after the replay; dropped: the spill could not be stored;
\* lost: held in memory only when the process died.
Fates == {"handled", "permanent", "failed", "dropped", "lost"}

Settled(d, how) == IF fate[d] = "handled" THEN "handled" ELSE how

Init ==
    /\ memory = {}
    /\ stored = {}
    /\ fate = [d \in Deliveries |-> "none"]

Accept(d) ==
    /\ memory' = memory \cup {d}
    /\ fate' = [fate EXCEPT ![d] = Settled(d, "none")]
    /\ UNCHANGED stored

\* Deliveries move from memory to the database; copies may stay in memory.
Spill(spilled) ==
    /\ spilled \subseteq memory
    /\ stored' = stored \cup spilled
    /\ memory' \subseteq memory
    /\ memory \ memory' \subseteq spilled
    /\ UNCHANGED fate

\* Deliveries in custody get a fate; copies of them may stay in custody.
Settle(settled, how) ==
    /\ settled \subseteq memory \cup stored
    /\ fate' = [d \in Deliveries |-> IF d \in settled THEN Settled(d, how) ELSE fate[d]]
    /\ memory' \subseteq memory /\ memory \ memory' \subseteq settled
    /\ stored' \subseteq stored /\ stored \ stored' \subseteq settled

\* A stored delivery is taken off the books once its fate is on record, or
\* when another copy of it is still held in memory.
Release ==
    /\ stored' \subseteq stored
    /\ \A d \in stored \ stored' : fate[d] # "none" \/ d \in memory
    /\ UNCHANGED <<memory, fate>>

\* The process dies and takes its memory with it.
Crash ==
    /\ memory' = {}
    /\ fate' = [d \in Deliveries |->
                  IF d \in memory \ stored /\ fate[d] = "none" THEN "lost" ELSE fate[d]]
    /\ UNCHANGED stored

Next ==
    \/ \E d \in Deliveries : Accept(d)
    \/ \E spilled \in SUBSET memory : Spill(spilled)
    \/ \E settled \in SUBSET (memory \cup stored), how \in Fates : Settle(settled, how)
    \/ Release
    \/ Crash

Spec == Init /\ [][Next]_ledgerVars
=============================================================================
