----------------------------- MODULE SessionRegister -----------------------------
(***************************************************************************)
(* What engine/session.py promises its callers (SessionStore's docstring): *)
(* per session, a register with at most one writer at a time.  A turn is   *)
(* begun, and then it either extends the episode as it stands, or never    *)
(* has an effect; an episode is otherwise only ever forgotten.  The turns  *)
(* of a group extend their sessions together or not at all.                *)
(***************************************************************************)
EXTENDS Naturals, Sequences

CONSTANTS
  Keys,
  MaxTurns  \* bound: how many turns are ever begun

VARIABLES
  episode,  \* the committed turns of each session since it was last forgotten
  open,     \* the turn that may still extend each session, 0 for none
  issued    \* how many turns were begun; turns are numbered from 1

vars == <<episode, open, issued>>

Init ==
  /\ episode = [k \in Keys |-> <<>>]
  /\ open = [k \in Keys |-> 0]
  /\ issued = 0

\* A new turn begins on a session that has none.
Begin(k) ==
  /\ issued < MaxTurns
  /\ open[k] = 0
  /\ issued' = issued + 1
  /\ open' = [open EXCEPT ![k] = issued + 1]
  /\ UNCHANGED episode

\* The open turns of some sessions take effect together.
Extend(ks) ==
  /\ \A k \in ks : open[k] # 0
  /\ episode' = [k \in Keys |-> IF k \in ks THEN Append(episode[k], open[k])
                                            ELSE episode[k]]
  /\ open' = [k \in Keys |-> IF k \in ks THEN 0 ELSE open[k]]
  /\ UNCHANGED issued

\* The open turns of some sessions are given up; their episodes stand, or are
\* forgotten with them.
Abandon(ks) ==
  /\ open' = [k \in Keys |-> IF k \in ks THEN 0 ELSE open[k]]
  /\ UNCHANGED <<episode, issued>>

Forget(ks) ==
  /\ open' = [k \in Keys |-> IF k \in ks THEN 0 ELSE open[k]]
  /\ episode' = [k \in Keys |-> IF k \in ks THEN <<>> ELSE episode[k]]
  /\ UNCHANGED issued

Next ==
  \/ \E k \in Keys : Begin(k)
  \/ \E ks \in SUBSET Keys : Extend(ks) \/ Abandon(ks) \/ Forget(ks)

Spec == Init /\ [][Next]_vars
=============================================================================
