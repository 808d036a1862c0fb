----------------------------- MODULE MCServedSessions -----------------------------
EXTENDS ServedSessions, TLC

CONSTANTS a0, a1, b0

\* Two steps of one episode, and the first step of the next.
MCStepOf == [id \in StepIds |-> IF id = a1 THEN 1 ELSE 0]

\* Handlers and reset ids are interchangeable; the three adapters are not.
Interchangeable == Permutations(Handlers) \cup Permutations(ResetIds)
=============================================================================
