------------------------------- MODULE SessionGates -------------------------------
(***************************************************************************)
(* engine/parallel/data_parallel.py: the per-session lifecycle gates that  *)
(* serialize turns and resets of an episode (_hold_session_lifecycle).  A  *)
(* gate is made when a first call needs it, counted while calls need it,   *)
(* and dropped with the last of them.  Every call locks its gates in the   *)
(* order the gates were made, which is one order for all calls.            *)
(*                                                                         *)
(* Only the order of the gates that exist matters: a new one comes after   *)
(* them, and counting starts again when there are none, where the code     *)
(* counts on.                                                              *)
(*                                                                         *)
(* What a call does while it has its gates, its body, is left open here;   *)
(* DataParallel fills it in.                                               *)
(***************************************************************************)
EXTENDS Naturals, FiniteSets, FiniteSetsExt, Functions, SequencesExt

CONSTANTS
  Callers,   \* threads that call execute or reset_sessions
  Keys,      \* the SessionKeys in use
  MaxGates   \* bound: the orders of the gates that exist

VARIABLES
  session_gates,  \* _session_gates: from keys to gates
  gates,          \* the gates of the dictionary, by their order
  pc,             \* where each caller is
  asked,          \* per caller, the sessions of its call, in its own order
  entries         \* per caller, the gates its call is counted in

gateVars == <<session_gates, gates, pc, asked, entries>>

Nobody == "nobody"

ASSUME GatesAssumption ==
  /\ IsFiniteSet(Callers) /\ Nobody \notin Callers
  /\ IsFiniteSet(Keys)
  /\ MaxGates \in Nat

Order == 1 .. MaxGates
Gate == [users : 0 .. Cardinality(Callers), owner : Callers \cup {Nobody}]

\* The sessions a call may name: distinct ones (_unique_sessions), any order.
Asked == {ks \in SeqOf(Keys, Cardinality(Keys)) : ks # <<>> /\ IsInjective(ks)}

Acquired(c) == {g \in entries[c] : gates[g].owner = c}

GatesInit ==
  /\ session_gates = [k \in {} |-> 0]
  /\ gates = [g \in {} |-> 0]
  /\ pc = [c \in Callers |-> "idle"]
  /\ asked = [c \in Callers |-> <<>>]
  /\ entries = [c \in Callers |-> {}]

Goto(c, label) == pc' = [pc EXCEPT ![c] = label]

-----------------------------------------------------------------------------
\* Where counting has got to among the gates that exist.
LastOrder == Max({0} \cup DOMAIN gates)

\* The keys of ks that have no gate yet, and how early they come among them.
Missing(ks) == Range(ks) \ DOMAIN session_gates
Place(ks, k) ==
  Cardinality({m \in DOMAIN ks : ks[m] \in Missing(ks) /\ \E n \in DOMAIN ks : m <= n /\ ks[n] = k})

\* The dictionary once every key of ks has a gate.
WithGates(ks) ==
  [k \in DOMAIN session_gates \cup Range(ks) |->
     IF k \in Missing(ks) THEN LastOrder + Place(ks, k) ELSE session_gates[k]]

\* A gate that exists, or a new one.
GateAt(g) == IF g \in DOMAIN gates THEN gates[g] ELSE [users |-> 0, owner |-> Nobody]

\* One critical section: missing gates are made, and the call is counted in
\* all of its own.
Register(c, ks) ==
  LET mine == {WithGates(ks)[k] : k \in Range(ks)}
  IN  /\ pc[c] = "idle"
      /\ mine \subseteq Order
      /\ session_gates' = WithGates(ks)
      /\ gates' = [g \in DOMAIN gates \cup mine |->
                     [GateAt(g) EXCEPT !.users = IF g \in mine THEN @ + 1 ELSE @]]
      /\ entries' = [entries EXCEPT ![c] = mine]
      /\ asked' = [asked EXCEPT ![c] = ks]
      /\ Goto(c, "acquire")

\* Mutant: gates are locked in the order the call names its sessions.
NextAsked(c) ==
  session_gates[SelectSeq(asked[c], LAMBDA k : session_gates[k] \notin Acquired(c))[1]]

\* The gate to lock next: the first, in their common order, not yet locked.
NextGate(c) == Min(entries[c] \ Acquired(c))

Acquire(c) ==
  /\ pc[c] = "acquire"
  /\ entries[c] # Acquired(c)
  /\ gates[NextGate(c)].owner = Nobody
  /\ gates' = [gates EXCEPT ![NextGate(c)].owner = c]
  /\ UNCHANGED <<session_gates, pc, asked, entries>>

\* Mutant: a call works once it has any of its gates.
EnterEarly(c) ==
  /\ pc[c] = "acquire"
  /\ Acquired(c) # {}
  /\ Goto(c, "body")
  /\ UNCHANGED <<session_gates, gates, asked, entries>>

Enter(c) ==
  /\ pc[c] = "acquire"
  /\ entries[c] = Acquired(c)
  /\ Goto(c, "body")
  /\ UNCHANGED <<session_gates, gates, asked, entries>>

\* The body is over, whether it returned or raised.
Leave(c) ==
  /\ pc[c] = "body"
  /\ Goto(c, "release")
  /\ UNCHANGED <<session_gates, gates, asked, entries>>

\* One lock after the other is released, the last one first.
Release(c) ==
  /\ pc[c] = "release"
  /\ Acquired(c) # {}
  /\ gates' = [gates EXCEPT ![Max(Acquired(c))].owner = Nobody]
  /\ UNCHANGED <<session_gates, pc, asked, entries>>

\* The gates when call c is not counted in its own any more.
Uncounted(c) ==
  [g \in DOMAIN gates |-> [gates[g] EXCEPT !.users = IF g \in entries[c] THEN @ - 1 ELSE @]]

\* Mutant: gates are never dropped.
DeregisterNone(c) ==
  /\ pc[c] = "release"
  /\ Acquired(c) = {}
  /\ gates' = Uncounted(c)
  /\ asked' = [asked EXCEPT ![c] = <<>>]
  /\ entries' = [entries EXCEPT ![c] = {}]
  /\ Goto(c, "idle")
  /\ UNCHANGED session_gates

\* One critical section: the call is not counted any more, and a gate that
\* nobody is counted in leaves the dictionary.
Deregister(c) ==
  LET unused == {g \in entries[c] : Uncounted(c)[g].users = 0}
  IN  /\ pc[c] = "release"
      /\ Acquired(c) = {}
      /\ gates' = Restrict(Uncounted(c), DOMAIN gates \ unused)
      /\ session_gates' = Restrict(session_gates,
           {k \in DOMAIN session_gates : session_gates[k] \notin unused})
      /\ asked' = [asked EXCEPT ![c] = <<>>]
      /\ entries' = [entries EXCEPT ![c] = {}]
      /\ Goto(c, "idle")

\* The steps the gates themselves give a call after it has registered.
GateStep(c) == Acquire(c) \/ Enter(c) \/ Release(c) \/ Deregister(c)

GatesNext ==
  \E c \in Callers : \/ \E ks \in Asked : Register(c, ks)
                     \/ GateStep(c)
                     \/ Leave(c)

GatesSpec == GatesInit /\ [][GatesNext]_gateVars

-----------------------------------------------------------------------------
(* Properties.                                                             *)

GatesTypeOK ==
  /\ DOMAIN gates \subseteq Order /\ Range(gates) \subseteq Gate
  /\ DOMAIN session_gates \subseteq Keys
  /\ pc \in [Callers -> {"idle", "acquire", "body", "release"}]
  /\ \A c \in Callers : asked[c] \in Asked \cup {<<>>}
  /\ \A c \in Callers : entries[c] \subseteq DOMAIN gates

\* The calls that work on session k right now.
Inside(k) == {c \in Callers : pc[c] = "body" /\ k \in Range(asked[c])}

\* Two calls that share a session never work at the same time, though gates
\* come and go with the calls that need them.
OneCallPerSession == \A k \in Keys : \A c, d \in Inside(k) : c = d

\* The dictionary holds the gates of the calls under way, and only those: a
\* call never waits on a gate that another has already replaced, and finished
\* episodes leave no lock behind.
GatesAreThoseInUse ==
  /\ DOMAIN session_gates = UNION {Range(asked[c]) : c \in Callers}
  /\ \A c \in Callers : entries[c] = {session_gates[k] : k \in Range(asked[c])}

\* Whom a call waits for, if anybody.
Waiting(c) ==
  /\ pc[c] = "acquire"
  /\ entries[c] # Acquired(c)
  /\ gates[NextGate(c)].owner # Nobody

Blocker(c) == gates[NextGate(c)].owner

\* Calls with overlapping sessions, named in any order, never wait in a circle:
\* a call that holds others up is itself waiting for a later gate, or not at all.
WaitsClimb ==
  \A c \in Callers : Waiting(c) /\ Waiting(Blocker(c)) => NextGate(Blocker(c)) > NextGate(c)

\* While calls wait for their gates, some call gets all of its own.  (Which one
\* is up to the locks: threading.Lock promises no order.)
SomeCallEnters ==
  (\E c \in Callers : pc[c] = "acquire") ~> (\E c \in Callers : pc[c] = "body")
=============================================================================
