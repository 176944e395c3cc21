------------------------- MODULE ChunkedComputation -------------------------
(***************************************************************************)
(* What JobScheduler::run promises its caller: the chunks of the file are   *)
(* handed out, processed once each, and run() either returns when all are   *)
(* done and nothing failed, or throws after a device failed.                *)
(***************************************************************************)
EXTENDS Naturals

CONSTANT ChunkCount

VARIABLES
    pending,     \* chunks not handed out yet
    running,     \* chunks in a job of some device
    completed,   \* chunks whose results have been collected
    failed,      \* an error has been recorded
    outcome      \* "none" until run() has decided how to end

compVars == <<pending, running, completed, failed, outcome>>

Init ==
    /\ pending = 0..(ChunkCount - 1)
    /\ running = {}
    /\ completed = {}
    /\ failed = FALSE
    /\ outcome = "none"

Assign(chunks) ==
    /\ outcome = "none"
    /\ pending' = pending \ chunks
    /\ running' = running \cup chunks
    /\ UNCHANGED <<completed, failed, outcome>>

\* A device may still deliver after run() has thrown.
Complete(chunks) ==
    /\ outcome # "returned"
    /\ running' = running \ chunks
    /\ completed' = completed \cup chunks
    /\ UNCHANGED <<pending, failed, outcome>>

Fail ==
    /\ running # {}
    /\ ~failed
    /\ failed' = TRUE
    /\ UNCHANGED <<pending, running, completed, outcome>>

Return ==
    /\ outcome = "none"
    /\ pending = {}
    /\ running = {}
    /\ ~failed
    /\ outcome' = "returned"
    /\ UNCHANGED <<pending, running, completed, failed>>

Throw ==
    /\ outcome = "none"
    /\ failed
    /\ outcome' = "threw"
    /\ UNCHANGED <<pending, running, completed, failed>>

Next ==
    \/ \E chunks \in (SUBSET pending) \ {{}} : Assign(chunks)
    \/ \E chunks \in (SUBSET running) \ {{}} : Complete(chunks)
    \/ Fail
    \/ Return
    \/ Throw

\* run() always ends, in one of its two ways.
Fairness == WF_compVars(outcome = "none" /\ Next)

Spec == Init /\ [][Next]_compVars

FairSpec == Spec /\ Fairness
=============================================================================
