------------------------------ MODULE SessionStore ------------------------------
(***************************************************************************)
(* engine/session.py: the transactional store of recurrent policy memory.  *)
(*                                                                         *)
(* A slot holds the committed memory of one session, its epoch and the id  *)
(* of the lease that may still write it.  A lease object captures the      *)
(* epoch and the memory of its slot at checkout; it commits, rolls back,   *)
(* or is overtaken by a reset or a cancel.  Every method holds the store's *)
(* lock for its whole body, so each is one action; the flag _closed is     *)
(* read and set outside it, by the one thread that has the lease.          *)
(* checkout_many is not one critical section and is composed of Checkout   *)
(* and Rollback steps in RecurrentEngine.                                  *)
(*                                                                         *)
(* Memory is opaque to the store.  It is represented by what it was        *)
(* computed from: the sequence of the leases whose turns it contains, <<>> *)
(* being None (the callers never commit None).  Here any caller may use    *)
(* any lease object at any time; RecurrentEngine has the real callers.     *)
(***************************************************************************)
EXTENDS Naturals, Sequences

CONSTANTS
  Keys,       \* the SessionKeys in use
  MaxLeases,  \* bound: how many leases are ever handed out
  MaxEpoch    \* bound: how often one session is reset or cancelled

ASSUME BoundsAssumption == MaxLeases \in Nat /\ MaxEpoch \in Nat

VARIABLES
  slots,      \* _slots: the dictionary from keys to slots; it only grows
  leases      \* every SessionLease handed out, at the index lease_id

vars == <<slots, leases>>

NoLease == 0  \* active_lease_id is None; ids start at 1

LeaseId == 1 .. MaxLeases
Memory == Seq(LeaseId)
Slot == [memory : Memory, epoch : 0 .. MaxEpoch, active : {NoLease} \cup LeaseId]
Lease == [key : Keys, epoch : 0 .. MaxEpoch, memory : Memory, closed : BOOLEAN]

FreshSlot == [memory |-> <<>>, epoch |-> 0, active |-> NoLease]

\* _slots.setdefault(key, _SessionSlot()), and the dictionary after it.
SlotOf(k) == IF k \in DOMAIN slots THEN slots[k] ELSE FreshSlot
WithSlot(k, s) == [x \in DOMAIN slots \cup {k} |-> IF x = k THEN s ELSE slots[x]]

NextLease == Len(leases) + 1

-----------------------------------------------------------------------------
(* Validity of a lease: the test that commit, rollback and cancelled share. *)

\* Mutant: any busy slot validates any lease of its session.
CurrentIfBusy(i) ==
  leases[i].key \in DOMAIN slots /\ slots[leases[i].key].active # NoLease

Current(i) ==
  /\ leases[i].key \in DOMAIN slots
  /\ slots[leases[i].key].epoch = leases[i].epoch
  /\ slots[leases[i].key].active = i

Cancelled(i) == leases[i].closed \/ ~Current(i)

\* The memory a turn under lease i hands back: what it was given, and itself.
NextMemory(i) == Append(leases[i].memory, i)

\* The lease objects after those of group are closed.
Close(group) ==
  [i \in DOMAIN leases |-> [leases[i] EXCEPT !.closed = @ \/ i \in group]]

-----------------------------------------------------------------------------
Init ==
  /\ slots = [k \in {} |-> FreshSlot]
  /\ leases = <<>>

\* checkout: a busy session raises SessionBusyError and leaves the store alone.
Checkout(k) ==
  /\ NextLease <= MaxLeases
  /\ SlotOf(k).active = NoLease
  /\ slots' = WithSlot(k, [SlotOf(k) EXCEPT !.active = NextLease])
  /\ leases' = Append(leases, [key |-> k, epoch |-> SlotOf(k).epoch,
                               memory |-> SlotOf(k).memory, closed |-> FALSE])

\* SessionLease.commit: a closed or overtaken lease raises StaleSessionError.
Commit(i) ==
  /\ ~Cancelled(i)
  /\ slots' = [slots EXCEPT ![leases[i].key].memory = NextMemory(i),
                            ![leases[i].key].active = NoLease]
  /\ leases' = Close({i})

\* Mutant: memories are paired with the wrong leases.
AnyLeaseOf(group, k) == CHOOSE i \in group : TRUE

\* The lease of group on key k.
LeaseOn(group, k) == CHOOSE i \in group : leases[i].key = k

\* The slots after the memories of group are written.
Written(group) ==
  [k \in DOMAIN slots |->
     IF \E i \in group : leases[i].key = k
     THEN [slots[k] EXCEPT !.memory = NextMemory(LeaseOn(group, k)), !.active = NoLease]
     ELSE slots[k]]

\* Mutants: one valid lease lets the group through; stale ones are skipped.
CommitManyIfAny(group) ==
  /\ \E i \in group : ~Cancelled(i)
  /\ slots' = Written(group)
  /\ leases' = Close(group)

CommitManyValid(group) ==
  /\ \E i \in group : ~Cancelled(i)
  /\ slots' = Written({i \in group : ~Cancelled(i)})
  /\ leases' = Close(group)

\* commit_many: every lease of the group is validated before any is written.
CommitMany(group) ==
  /\ group # {}
  /\ \A i \in group : ~Cancelled(i)
  /\ slots' = Written(group)
  /\ leases' = Close(group)

\* SessionLease.rollback: frees the slot only while the lease still owns it.
Rollback(i) ==
  /\ ~leases[i].closed
  /\ slots' = IF Current(i) THEN [slots EXCEPT ![leases[i].key].active = NoLease]
                            ELSE slots
  /\ leases' = Close({i})

\* Mutant: the lease under way stays the slot's lease.
OvertakenKeepsLease(s, clear_memory) ==
  [s EXCEPT !.memory = IF clear_memory THEN <<>> ELSE @, !.epoch = @ + 1]

\* What reset, cancel and reset_all do to one slot: the epoch is the tombstone.
Overtaken(s, clear_memory) ==
  [memory |-> IF clear_memory THEN <<>> ELSE s.memory,
   epoch |-> s.epoch + 1,
   active |-> NoLease]

\* _invalidate, behind reset (clear_memory) and cancel.
Invalidate(ks, clear_memory) ==
  /\ \A k \in ks : SlotOf(k).epoch < MaxEpoch
  /\ slots' = [k \in DOMAIN slots \cup ks |->
                 IF k \in ks THEN Overtaken(SlotOf(k), clear_memory) ELSE slots[k]]
  /\ UNCHANGED leases

Reset(ks) == Invalidate(ks, TRUE)
Cancel(ks) == Invalidate(ks, FALSE)

\* reset_all touches the slots that exist.
ResetAll ==
  /\ \A k \in DOMAIN slots : slots[k].epoch < MaxEpoch
  /\ slots' = [k \in DOMAIN slots |-> Overtaken(slots[k], TRUE)]
  /\ UNCHANGED leases

Next ==
  \/ \E k \in Keys : Checkout(k)
  \/ \E i \in DOMAIN leases : Commit(i)
  \/ \E group \in SUBSET DOMAIN leases : CommitMany(group)
  \/ \E i \in DOMAIN leases : Rollback(i)
  \/ \E ks \in SUBSET Keys : Reset(ks)
  \/ \E ks \in SUBSET Keys : Cancel(ks)
  \/ ResetAll

Spec == Init /\ [][Next]_vars

-----------------------------------------------------------------------------
(* Queries.  has_session_state of EngineCore asks both, one lock each.     *)

HasCommitted == \E k \in DOMAIN slots : slots[k].memory # <<>>
HasInflight == \E k \in DOMAIN slots : slots[k].active # NoLease

-----------------------------------------------------------------------------
(* Properties.                                                             *)

\* Every variable of the store keeps its shape, and no key is invented.
TypeOK ==
  /\ DOMAIN slots \subseteq Keys
  /\ slots \in [DOMAIN slots -> Slot]
  /\ leases \in Seq(Lease)
  /\ Len(leases) <= MaxLeases

\* The lease that slot k names is open, of this session and epoch, and was
\* computed from the very memory that is still committed.
ActiveLeaseFits(k) ==
  slots[k].active # NoLease =>
    LET i == slots[k].active
    IN  /\ i \in DOMAIN leases
        /\ leases[i].key = k
        /\ leases[i].epoch = slots[k].epoch
        /\ leases[i].memory = slots[k].memory
        /\ ~leases[i].closed

\* Each turn in the committed memory of session k belongs to k, has ended, and
\* was computed from exactly the turns before it.
OneEpisode(k) ==
  \A n \in DOMAIN slots[k].memory :
    LET i == slots[k].memory[n]
    IN  /\ i \in DOMAIN leases
        /\ leases[i].key = k
        /\ leases[i].closed
        /\ leases[i].memory = SubSeq(slots[k].memory, 1, n - 1)

\* Whatever resets, cancels and commits happened since its checkout, a lease
\* that passes the test of commit and commit_many loses no update.
ActiveLeaseIsCurrent == \A k \in DOMAIN slots : ActiveLeaseFits(k)

\* Committed memory never crosses sessions or skips a turn: it is one chain of
\* turns of its own session, each computed from the turns before it, however
\* groups, late commits and resets were mixed.
CommittedIsOneEpisode == \A k \in DOMAIN slots : OneEpisode(k)

\* A lease that a reset, a cancel or its own end invalidated never becomes
\* valid again, so a late generation cannot revive it.
StaleStaysStale ==
  [][\A i \in DOMAIN leases : Cancelled(i) => Cancelled(i)']_vars

\* What the store promises its callers, without epochs, lease objects or
\* captured memories: SessionRegister.
Register == INSTANCE SessionRegister
  WITH MaxTurns <- MaxLeases,
       episode <- [k \in Keys |-> SlotOf(k).memory],
       open <- [k \in Keys |-> SlotOf(k).active],
       issued <- Len(leases)

ImplementsRegister == Register!Spec
=============================================================================
