---------------------------- MODULE Recurrent_proofs ----------------------------
(***************************************************************************)
(* Proofs about SessionStore, about RecurrentEngine, which calls it, and   *)
(* about RecurrentRefit, for any sessions, threads, tensors and bounds.    *)
(***************************************************************************)
EXTENDS RecurrentRefit, SequenceTheorems, FiniteSetTheorems, TLAPS

(* The inductive invariant: the two safety properties support each other.  *)
(* A commit extends the episode correctly because the active lease was     *)
(* computed from the memory in place.                                      *)
StoreInv == TypeOK /\ ActiveLeaseIsCurrent /\ CommittedIsOneEpisode

-----------------------------------------------------------------------------
(* Type correctness, one lemma per kind of update.                         *)

\* Closing leases changes nothing but their closed flag.
LEMMA CloseIsTyped ==
  ASSUME TypeOK, NEW group
  PROVE  /\ Close(group) \in Seq(Lease)
         /\ Len(Close(group)) = Len(leases)
         /\ DOMAIN Close(group) = DOMAIN leases
         /\ \A i \in DOMAIN leases :
              /\ Close(group)[i].key = leases[i].key
              /\ Close(group)[i].epoch = leases[i].epoch
              /\ Close(group)[i].memory = leases[i].memory
              /\ Close(group)[i].closed <=> (leases[i].closed \/ i \in group)
<1>1. /\ leases \in [1 .. Len(leases) -> Lease]
      /\ DOMAIN leases = 1 .. Len(leases)
      /\ Len(leases) \in Nat
  BY LenProperties DEF TypeOK
<1>2. Close(group) \in [1 .. Len(leases) -> Lease]
  BY <1>1 DEF Close, Lease
<1>3. Close(group) \in Seq(Lease)
  BY <1>1, <1>2, SeqDef
<1>4. Len(Close(group)) = Len(leases)
  BY <1>1, <1>2, <1>3, LenProperties
<1>5. \A i \in DOMAIN leases :
              /\ Close(group)[i].key = leases[i].key
              /\ Close(group)[i].epoch = leases[i].epoch
              /\ Close(group)[i].memory = leases[i].memory
              /\ Close(group)[i].closed <=> (leases[i].closed \/ i \in group)
  BY <1>1 DEF Close, Lease
<1> QED
  BY <1>1, <1>2, <1>3, <1>4, <1>5

\* The slot a key has, or would be given by setdefault.
LEMMA SlotIsTyped ==
  ASSUME TypeOK, NEW k \in Keys
  PROVE  SlotOf(k) \in Slot
BY BoundsAssumption DEF TypeOK, SlotOf, FreshSlot, Slot, NoLease, Memory

\* A turn hands back a memory.
LEMMA NextMemoryIsTyped ==
  ASSUME TypeOK, NEW i \in DOMAIN leases
  PROVE  i \in LeaseId /\ leases[i] \in Lease /\ NextMemory(i) \in Memory
<1>1. i \in LeaseId /\ leases[i] \in Lease
  BY BoundsAssumption, LenProperties DEF TypeOK, LeaseId
<1> QED
  BY <1>1, AppendProperties DEF NextMemory, Lease, Memory

\* Checkout keeps the shape of the variables.
LEMMA CheckoutType ==
  ASSUME TypeOK, NEW k \in Keys, Checkout(k)
  PROVE  TypeOK'
<1>1. NextLease \in LeaseId
  BY BoundsAssumption DEF TypeOK, Checkout, NextLease, LeaseId
<1>2. SlotOf(k) \in Slot
  BY SlotIsTyped
<1>3. [SlotOf(k) EXCEPT !.active = NextLease] \in Slot
  BY <1>1, <1>2 DEF Slot
<1>4. /\ DOMAIN slots' = DOMAIN slots \cup {k}
      /\ slots' \in [DOMAIN slots' -> Slot]
  BY <1>3 DEF TypeOK, Checkout, WithSlot
<1>5. [key |-> k, epoch |-> SlotOf(k).epoch, memory |-> SlotOf(k).memory,
       closed |-> FALSE] \in Lease
  BY <1>2 DEF Slot, Lease
<1>6. leases' \in Seq(Lease) /\ Len(leases') <= MaxLeases
  BY <1>5, BoundsAssumption DEF TypeOK, Checkout, NextLease
<1> QED
  BY <1>4, <1>6 DEF TypeOK

\* So does the commit of one lease.
LEMMA CommitType ==
  ASSUME TypeOK, NEW i \in DOMAIN leases, Commit(i)
  PROVE  TypeOK'
<1>1. leases[i].key \in DOMAIN slots
  BY DEF Commit, Cancelled, Current
<1>2. NextMemory(i) \in Memory
  BY NextMemoryIsTyped
<1>3. /\ DOMAIN slots' = DOMAIN slots
      /\ slots' \in [DOMAIN slots' -> Slot]
  BY <1>1, <1>2 DEF TypeOK, Commit, Slot
<1> QED
  BY <1>3, CloseIsTyped DEF TypeOK, Commit

\* LeaseOn picks a lease of the group on the session.
LEMMA LeaseOnPicks ==
  ASSUME NEW group, NEW k, \E i \in group : leases[i].key = k
  PROVE  LeaseOn(group, k) \in group /\ leases[LeaseOn(group, k)].key = k
BY DEF LeaseOn

\* So does the commit of a group.
LEMMA CommitManyType ==
  ASSUME TypeOK, NEW group \in SUBSET DOMAIN leases, CommitMany(group)
  PROVE  TypeOK'
<1>1. ASSUME NEW k \in DOMAIN slots, \E i \in group : leases[i].key = k
      PROVE  NextMemory(LeaseOn(group, k)) \in Memory
  BY <1>1, LeaseOnPicks, NextMemoryIsTyped
<1>2. /\ DOMAIN slots' = DOMAIN slots
      /\ slots' \in [DOMAIN slots' -> Slot]
  BY <1>1 DEF TypeOK, CommitMany, Written, Slot
<1> QED
  BY <1>2, CloseIsTyped DEF TypeOK, CommitMany

\* So does a rollback, of a lease that still owns its slot or not.
LEMMA RollbackType ==
  ASSUME TypeOK, NEW i \in DOMAIN leases, Rollback(i)
  PROVE  TypeOK'
<1>1. /\ DOMAIN slots' = DOMAIN slots
      /\ slots' \in [DOMAIN slots' -> Slot]
  BY DEF TypeOK, Rollback, Current, Slot
<1> QED
  BY <1>1, CloseIsTyped DEF TypeOK, Rollback

\* A reset or cancel of a slot below the epoch bound leaves a slot.
LEMMA OvertakenIsTyped ==
  ASSUME NEW s \in Slot, s.epoch < MaxEpoch, NEW clear_memory \in BOOLEAN
  PROVE  Overtaken(s, clear_memory) \in Slot
<1>1. (IF clear_memory THEN <<>> ELSE s.memory) \in Memory
  BY EmptySeq DEF Slot, Memory
<1>2. s.epoch + 1 \in 0 .. MaxEpoch
  BY BoundsAssumption DEF Slot
<1> QED
  BY <1>1, <1>2 DEF Slot, Overtaken

\* So does a reset or a cancel of any set of sessions.
LEMMA InvalidateType ==
  ASSUME TypeOK, NEW ks \in SUBSET Keys, NEW clear_memory \in BOOLEAN,
         Invalidate(ks, clear_memory)
  PROVE  TypeOK'
<1>1. /\ DOMAIN slots' = DOMAIN slots \cup ks
      /\ slots' \in [DOMAIN slots' -> Slot]
  BY SlotIsTyped, OvertakenIsTyped DEF TypeOK, Invalidate
<1> QED
  BY <1>1 DEF TypeOK, Invalidate

\* So does a reset of every session.
LEMMA ResetAllType ==
  ASSUME TypeOK, ResetAll
  PROVE  TypeOK'
<1>1. /\ DOMAIN slots' = DOMAIN slots
      /\ slots' \in [DOMAIN slots' -> Slot]
  BY OvertakenIsTyped DEF TypeOK, ResetAll
<1> QED
  BY <1>1 DEF TypeOK, ResetAll

\* The empty store has its shape.
LEMMA InitType == Init => TypeOK
BY BoundsAssumption DEF Init, TypeOK, Slot, Lease, LeaseId, Memory

\* Every step of the store keeps the shape of its variables.
LEMMA TypeInductive == TypeOK /\ [Next]_vars => TypeOK'
<1> SUFFICES ASSUME TypeOK, [Next]_vars PROVE TypeOK'
  OBVIOUS
<1>1. ASSUME NEW k \in Keys, Checkout(k) PROVE TypeOK'
  BY <1>1, CheckoutType
<1>2. ASSUME NEW i \in DOMAIN leases, Commit(i) PROVE TypeOK'
  BY <1>2, CommitType
<1>3. ASSUME NEW group \in SUBSET DOMAIN leases, CommitMany(group) PROVE TypeOK'
  BY <1>3, CommitManyType
<1>4. ASSUME NEW i \in DOMAIN leases, Rollback(i) PROVE TypeOK'
  BY <1>4, RollbackType
<1>5. ASSUME NEW ks \in SUBSET Keys, Reset(ks) \/ Cancel(ks) PROVE TypeOK'
  BY <1>5, InvalidateType DEF Reset, Cancel
<1>6. CASE ResetAll
  BY <1>6, ResetAllType
<1>7. CASE UNCHANGED vars
  BY <1>7 DEF vars, TypeOK
<1> QED
  BY <1>1, <1>2, <1>3, <1>4, <1>5, <1>6, <1>7 DEF Next

\* The store's variables keep their shape whatever its callers do.
THEOREM TypeCorrect == Spec => []TypeOK
BY InitType, TypeInductive, PTL DEF Spec

-----------------------------------------------------------------------------
(* The safety properties.                                                  *)

\* The lease objects that exist stay, and can only be closed.
LeasesKept ==
  \A i \in DOMAIN leases :
    /\ i \in DOMAIN leases'
    /\ leases'[i].key = leases[i].key
    /\ leases'[i].epoch = leases[i].epoch
    /\ leases'[i].memory = leases[i].memory
    /\ leases[i].closed => leases'[i].closed

\* Handing out or closing leases, and dropping a memory, break no episode.
LEMMA EpisodeKept ==
  ASSUME NEW k, OneEpisode(k),
         LeasesKept,
         slots'[k].memory = slots[k].memory
  PROVE  OneEpisode(k)'
BY DEF OneEpisode, LeasesKept

\* So does a memory that is None.
LEMMA NoEpisode ==
  ASSUME NEW k, slots'[k].memory = <<>>
  PROVE  OneEpisode(k)'
BY DEF OneEpisode

\* A lease that is current and open makes its session's episode one turn longer.
LEMMA EpisodeExtended ==
  ASSUME StoreInv, NEW i \in DOMAIN leases, NEW k \in DOMAIN slots,
         ~Cancelled(i), leases[i].key = k,
         slots'[k].memory = NextMemory(i),
         LeasesKept,
         leases'[i].closed
  PROVE  OneEpisode(k)'
<1> DEFINE m == slots[k].memory
<1>1. m \in Memory /\ i \in LeaseId
  BY NextMemoryIsTyped DEF StoreInv, TypeOK, Slot
<1>2. leases[i].memory = m
  BY DEF StoreInv, ActiveLeaseIsCurrent, ActiveLeaseFits, Cancelled, Current, TypeOK, LeaseId, NoLease
<1>3. slots'[k].memory = Append(m, i)
  BY <1>2 DEF NextMemory
<1>4. /\ Append(m, i) \in Memory
      /\ Len(m) \in Nat
      /\ DOMAIN m = 1 .. Len(m)
      /\ DOMAIN Append(m, i) = 1 .. Len(m) + 1
      /\ \A n \in 1 .. Len(m) : Append(m, i)[n] = m[n]
      /\ Append(m, i)[Len(m) + 1] = i
  BY <1>1, AppendProperties, LenProperties DEF Memory
<1>5. \A n \in 1 .. Len(m) + 1 : SubSeq(Append(m, i), 1, n - 1) = SubSeq(m, 1, n - 1)
  BY <1>1, <1>4 DEF Memory
<1>6. SubSeq(m, 1, Len(m)) = m
  BY <1>1, SubSeqFull DEF Memory
<1>7. ASSUME NEW n \in 1 .. Len(m)
      PROVE  /\ m[n] \in DOMAIN leases'
             /\ leases'[m[n]].key = k
             /\ leases'[m[n]].closed
             /\ leases'[m[n]].memory = SubSeq(m, 1, n - 1)
  <2>1. n \in DOMAIN m
    BY <1>4
  <2>2. /\ m[n] \in DOMAIN leases
        /\ leases[m[n]].key = k
        /\ leases[m[n]].closed
        /\ leases[m[n]].memory = SubSeq(m, 1, n - 1)
    BY <2>1 DEF StoreInv, CommittedIsOneEpisode, OneEpisode
  <2> QED
    BY <2>2 DEF LeasesKept
<1> QED
  BY <1>2, <1>3, <1>4, <1>5, <1>6, <1>7 DEF OneEpisode, LeasesKept

\* Closing leases keeps them.
LEMMA CloseKeeps ==
  ASSUME TypeOK, NEW group, leases' = Close(group)
  PROVE  LeasesKept
BY CloseIsTyped DEF LeasesKept

\* Checkout keeps the inductive invariant: the new lease is what its slot names.
LEMMA CheckoutSafe ==
  ASSUME StoreInv, NEW k \in Keys, Checkout(k)
  PROVE  (ActiveLeaseIsCurrent /\ CommittedIsOneEpisode)'
<1> USE DEF StoreInv
<1> DEFINE new == [key |-> k, epoch |-> SlotOf(k).epoch,
                   memory |-> SlotOf(k).memory, closed |-> FALSE]
<1>1. SlotOf(k) \in Slot
  BY SlotIsTyped
<1>2. new \in Lease
  BY <1>1 DEF Slot, Lease
<1>3. /\ DOMAIN leases = 1 .. Len(leases)
      /\ DOMAIN leases' = 1 .. Len(leases) + 1
      /\ Len(leases) \in Nat
      /\ \A i \in DOMAIN leases : leases'[i] = leases[i]
      /\ leases'[NextLease] = new
  BY <1>2, AppendProperties, LenProperties DEF TypeOK, Checkout, NextLease
<1>4. LeasesKept
  BY <1>3 DEF LeasesKept
<1>5. /\ DOMAIN slots' = DOMAIN slots \cup {k}
      /\ slots'[k] = [SlotOf(k) EXCEPT !.active = NextLease]
      /\ \A x \in DOMAIN slots : x # k => slots'[x] = slots[x]
  BY DEF Checkout, WithSlot
<1>6. /\ slots'[k].active = NextLease
      /\ slots'[k].memory = SlotOf(k).memory
      /\ slots'[k].epoch = SlotOf(k).epoch
  BY <1>1, <1>5 DEF Slot
<1>7. ASSUME NEW x \in DOMAIN slots' PROVE ActiveLeaseFits(x)'
  <2>1. CASE x = k
    BY <2>1, <1>3, <1>6 DEF ActiveLeaseFits, NextLease
  <2>2. CASE x # k
    BY <2>2, <1>3, <1>5 DEF ActiveLeaseIsCurrent, ActiveLeaseFits
  <2> QED
    BY <2>1, <2>2
<1>8. ASSUME NEW x \in DOMAIN slots' PROVE OneEpisode(x)'
  <2>1. CASE x \in DOMAIN slots
    BY <2>1, <1>4, <1>5, <1>6, EpisodeKept DEF CommittedIsOneEpisode, SlotOf
  <2>2. CASE x \notin DOMAIN slots
    BY <2>2, <1>5, <1>6, NoEpisode DEF SlotOf, FreshSlot
  <2> QED
    BY <2>1, <2>2
<1> QED
  BY <1>7, <1>8 DEF ActiveLeaseIsCurrent, CommittedIsOneEpisode

\* What commit and commit_many have in common: the sessions of some current
\* leases move on to the memory of their turn, the other slots stay.
CommitsGroup(group) ==
  /\ \A i \in group : ~Cancelled(i)
  /\ leases' = Close(group)
  /\ DOMAIN slots' = DOMAIN slots
  /\ \A k \in DOMAIN slots :
       \/ slots'[k] = slots[k] /\ \A i \in group : leases[i].key # k
       \/ \E i \in group : /\ leases[i].key = k
                           /\ slots'[k].memory = NextMemory(i)
                           /\ slots'[k].active = NoLease

\* A step that commits the memories of current leases and closes them keeps the
\* inductive invariant.
LEMMA CommittedSafe ==
  ASSUME StoreInv, NEW group \in SUBSET DOMAIN leases,
         CommitsGroup(group)
  PROVE  (ActiveLeaseIsCurrent /\ CommittedIsOneEpisode)'
<1> USE DEF StoreInv, CommitsGroup
<1>1. LeasesKept
  BY CloseKeeps
<1>2. ASSUME NEW k \in DOMAIN slots' PROVE ActiveLeaseFits(k)'
  <2>1. CASE slots'[k] = slots[k] /\ \A i \in group : leases[i].key # k
    BY <2>1, CloseIsTyped DEF ActiveLeaseIsCurrent, ActiveLeaseFits
  <2>2. CASE slots'[k].active = NoLease
    BY <2>2 DEF ActiveLeaseFits
  <2> QED
    BY <2>1, <2>2
<1>3. ASSUME NEW k \in DOMAIN slots' PROVE OneEpisode(k)'
  <2>1. CASE slots'[k] = slots[k]
    BY <2>1, <1>1, EpisodeKept DEF CommittedIsOneEpisode
  <2>2. CASE \E i \in group : leases[i].key = k /\ slots'[k].memory = NextMemory(i)
    <3>1. PICK i \in group : leases[i].key = k /\ slots'[k].memory = NextMemory(i)
      BY <2>2
    <3>2. leases'[i].closed
      BY CloseIsTyped
    <3> QED
      BY <3>1, <3>2, <1>1, EpisodeExtended
  <2> QED
    BY <2>1, <2>2
<1> QED
  BY <1>2, <1>3 DEF ActiveLeaseIsCurrent, CommittedIsOneEpisode

\* Commit is such a step.
LEMMA CommitShape ==
  ASSUME TypeOK, NEW i \in DOMAIN leases, Commit(i)
  PROVE  CommitsGroup({i})
<1>1. /\ leases[i].key \in DOMAIN slots
      /\ ~Cancelled(i)
      /\ leases' = Close({i})
  BY DEF Commit, Cancelled, Current
<1>2. slots[leases[i].key] \in Slot
  BY <1>1 DEF TypeOK
<1>3. /\ DOMAIN slots' = DOMAIN slots
      /\ slots'[leases[i].key].memory = NextMemory(i)
      /\ slots'[leases[i].key].active = NoLease
      /\ \A k \in DOMAIN slots : k # leases[i].key => slots'[k] = slots[k]
  BY <1>1, <1>2 DEF Commit, Slot
<1> QED
  BY <1>1, <1>3 DEF CommitsGroup

\* CommitMany is such a step, for as many leases.
LEMMA CommitManyShape ==
  ASSUME TypeOK, NEW group \in SUBSET DOMAIN leases, CommitMany(group)
  PROVE  CommitsGroup(group)
<1>1. ASSUME NEW k \in DOMAIN slots
      PROVE  \/ slots'[k] = slots[k] /\ \A i \in group : leases[i].key # k
             \/ \E i \in group : /\ leases[i].key = k
                                 /\ slots'[k].memory = NextMemory(i)
                                 /\ slots'[k].active = NoLease
  <2>1. slots[k] \in Slot
    BY DEF TypeOK
  <2>2. CASE \E i \in group : leases[i].key = k
    <3>1. /\ slots'[k].memory = NextMemory(LeaseOn(group, k))
          /\ slots'[k].active = NoLease
      BY <2>1, <2>2 DEF CommitMany, Written, Slot
    <3> QED
      BY <2>2, <3>1, LeaseOnPicks
  <2>3. CASE \A i \in group : leases[i].key # k
    BY <2>3 DEF CommitMany, Written
  <2> QED
    BY <2>2, <2>3
<1> QED
  BY <1>1 DEF CommitMany, Written, CommitsGroup

\* Rollback keeps the inductive invariant: only the lease's own slot is freed.
LEMMA RollbackSafe ==
  ASSUME StoreInv, NEW i \in DOMAIN leases, Rollback(i)
  PROVE  (ActiveLeaseIsCurrent /\ CommittedIsOneEpisode)'
<1> USE DEF StoreInv
<1>1. LeasesKept
  BY CloseKeeps DEF Rollback
<1>2. i # NoLease
  BY NextMemoryIsTyped DEF LeaseId, NoLease
\* No other slot is busy with i.
<1>3. \A k \in DOMAIN slots : slots[k].active = i => k = leases[i].key /\ Current(i)
  BY <1>2 DEF ActiveLeaseIsCurrent, ActiveLeaseFits, Current
<1>4. /\ DOMAIN slots' = DOMAIN slots
      /\ \A k \in DOMAIN slots :
           \/ slots'[k] = slots[k] /\ slots[k].active # i
           \/ slots'[k] = [slots[k] EXCEPT !.active = NoLease]
  <2>1. CASE Current(i)
    BY <1>3, <2>1 DEF Rollback, Current, TypeOK
  <2>2. CASE ~Current(i)
    BY <1>3, <2>2 DEF Rollback
  <2> QED
    BY <2>1, <2>2
<1>5. \A k \in DOMAIN slots :
        /\ slots'[k].memory = slots[k].memory
        /\ slots'[k].epoch = slots[k].epoch
        /\ \/ slots'[k].active = slots[k].active /\ slots[k].active # i
           \/ slots'[k].active = NoLease
  BY <1>4 DEF TypeOK, Slot
<1>6. ASSUME NEW k \in DOMAIN slots' PROVE ActiveLeaseFits(k)'
  <2>1. CASE slots'[k].active = NoLease
    BY <2>1 DEF ActiveLeaseFits
  <2>2. CASE /\ slots'[k].active = slots[k].active
             /\ slots[k].active \notin {i, NoLease}
    <3>1. ActiveLeaseFits(k)
      BY <1>4 DEF ActiveLeaseIsCurrent
    <3>2. ~leases'[slots[k].active].closed
      BY <2>2, <3>1, CloseIsTyped DEF ActiveLeaseFits, Rollback
    <3> QED
      BY <1>1, <1>4, <1>5, <2>2, <3>1, <3>2 DEF ActiveLeaseFits, LeasesKept
  <2> QED
    BY <1>4, <1>5, <2>1, <2>2
<1>7. ASSUME NEW k \in DOMAIN slots' PROVE OneEpisode(k)'
  BY <1>1, <1>4, <1>5, EpisodeKept DEF CommittedIsOneEpisode
<1> QED
  BY <1>6, <1>7 DEF ActiveLeaseIsCurrent, CommittedIsOneEpisode

\* Invalidating slots, whichever they are, leaves each of them free.
LEMMA OvertakenSafe ==
  ASSUME StoreInv, UNCHANGED leases, NEW clear_memory \in BOOLEAN,
         \A k \in DOMAIN slots' :
           \/ k \in DOMAIN slots /\ slots'[k] = slots[k]
           \/ slots'[k] = Overtaken(SlotOf(k), clear_memory)
  PROVE  (ActiveLeaseIsCurrent /\ CommittedIsOneEpisode)'
<1> USE DEF StoreInv
<1>1. LeasesKept
  BY DEF LeasesKept
<1>2. ASSUME NEW k \in DOMAIN slots', slots'[k] = Overtaken(SlotOf(k), clear_memory)
      PROVE  /\ slots'[k].active = NoLease
             /\ \/ k \in DOMAIN slots /\ slots'[k].memory = slots[k].memory
                \/ slots'[k].memory = <<>>
  BY <1>2 DEF Overtaken, SlotOf, FreshSlot
<1>3. ASSUME NEW k \in DOMAIN slots' PROVE ActiveLeaseFits(k)'
  <2>1. CASE k \in DOMAIN slots /\ slots'[k] = slots[k]
    BY <2>1 DEF ActiveLeaseIsCurrent, ActiveLeaseFits
  <2>2. CASE slots'[k] = Overtaken(SlotOf(k), clear_memory)
    BY <1>2, <2>2 DEF ActiveLeaseFits
  <2> QED
    BY <2>1, <2>2
<1>4. ASSUME NEW k \in DOMAIN slots' PROVE OneEpisode(k)'
  <2>1. CASE k \in DOMAIN slots /\ slots'[k].memory = slots[k].memory
    BY <1>1, <2>1, EpisodeKept DEF CommittedIsOneEpisode
  <2>2. CASE slots'[k].memory = <<>>
    BY <2>2, NoEpisode
  <2> QED
    BY <1>2, <2>1, <2>2
<1> QED
  BY <1>3, <1>4 DEF ActiveLeaseIsCurrent, CommittedIsOneEpisode

\* Every step of the store keeps the inductive invariant.
LEMMA InvInductive == StoreInv /\ [Next]_vars => StoreInv'
<1> SUFFICES ASSUME StoreInv, [Next]_vars
             PROVE  (ActiveLeaseIsCurrent /\ CommittedIsOneEpisode)'
  BY TypeInductive DEF StoreInv
<1>1. ASSUME NEW k \in Keys, Checkout(k)
      PROVE  (ActiveLeaseIsCurrent /\ CommittedIsOneEpisode)'
  BY <1>1, CheckoutSafe
<1>2. ASSUME NEW i \in DOMAIN leases, Commit(i)
      PROVE  (ActiveLeaseIsCurrent /\ CommittedIsOneEpisode)'
  BY <1>2, CommitShape, CommittedSafe, {i} \in SUBSET DOMAIN leases DEF StoreInv
<1>3. ASSUME NEW group \in SUBSET DOMAIN leases, CommitMany(group)
      PROVE  (ActiveLeaseIsCurrent /\ CommittedIsOneEpisode)'
  BY <1>3, CommitManyShape, CommittedSafe DEF StoreInv
<1>4. ASSUME NEW i \in DOMAIN leases, Rollback(i)
      PROVE  (ActiveLeaseIsCurrent /\ CommittedIsOneEpisode)'
  BY <1>4, RollbackSafe
<1>5. ASSUME NEW ks \in SUBSET Keys, NEW clear_memory \in BOOLEAN,
             Invalidate(ks, clear_memory)
      PROVE  (ActiveLeaseIsCurrent /\ CommittedIsOneEpisode)'
  BY <1>5, OvertakenSafe DEF Invalidate
<1>6. CASE ResetAll
  BY <1>6, OvertakenSafe DEF ResetAll, SlotOf
<1>7. CASE UNCHANGED vars
  BY <1>7 DEF vars, StoreInv, ActiveLeaseIsCurrent, ActiveLeaseFits,
              CommittedIsOneEpisode, OneEpisode
<1> QED
  BY <1>1, <1>2, <1>3, <1>4, <1>5, <1>6, <1>7 DEF Next, Reset, Cancel

\* The inductive invariant holds in every state of the store.
LEMMA InvHolds == Spec => []StoreInv
<1>1. Init => StoreInv
  BY InitType DEF Init, StoreInv, ActiveLeaseIsCurrent, CommittedIsOneEpisode
<1> QED
  BY <1>1, InvInductive, PTL DEF Spec

\* No update is lost: a lease the store would let commit was computed from
\* the memory that is committed.
THEOREM LeasesAreCurrent == Spec => []ActiveLeaseIsCurrent
BY InvHolds, PTL DEF StoreInv

\* What a session has committed is always one unbroken episode.
THEOREM EpisodesAreUnbroken == Spec => []CommittedIsOneEpisode
BY InvHolds, PTL DEF StoreInv

-----------------------------------------------------------------------------
(* A lease that was overtaken stays so.                                    *)

\* A step makes a slot busy only with a lease it hands out in that step.
LEMMA OnlyNewLeasesActivate ==
  ASSUME StoreInv, [Next]_vars, NEW k \in DOMAIN slots',
         slots'[k].active # NoLease
  PROVE  \/ k \in DOMAIN slots /\ slots'[k].active = slots[k].active
         \/ slots'[k].active \notin DOMAIN leases
<1> USE DEF StoreInv
<1>1. ASSUME NEW x \in Keys, Checkout(x), k = x
      PROVE  slots'[k].active \notin DOMAIN leases
  <2>1. slots'[k].active = NextLease
    BY <1>1, SlotIsTyped DEF Checkout, WithSlot, Slot
  <2> QED
    BY <2>1, LenProperties DEF NextLease, TypeOK
<1>2. ASSUME NEW x \in Keys, Checkout(x), k # x
      PROVE  k \in DOMAIN slots /\ slots'[k] = slots[k]
  BY <1>2 DEF Checkout, WithSlot
<1>3. ASSUME NEW i \in DOMAIN leases, Commit(i)
      PROVE  k \in DOMAIN slots /\ slots'[k].active = slots[k].active
  BY <1>3 DEF Commit, Cancelled, Current, TypeOK, Slot
<1>4. ASSUME NEW group \in SUBSET DOMAIN leases, CommitMany(group)
      PROVE  k \in DOMAIN slots /\ slots'[k].active = slots[k].active
  BY <1>4 DEF CommitMany, Written, TypeOK, Slot
<1>5. ASSUME NEW i \in DOMAIN leases, Rollback(i)
      PROVE  k \in DOMAIN slots /\ slots'[k].active = slots[k].active
  BY <1>5 DEF Rollback, Current, TypeOK, Slot
<1>6. ASSUME NEW ks \in SUBSET Keys, NEW clear_memory \in BOOLEAN,
             Invalidate(ks, clear_memory)
      PROVE  k \in DOMAIN slots /\ slots'[k].active = slots[k].active
  BY <1>6 DEF Invalidate, Overtaken
<1>7. CASE ResetAll
  BY <1>7 DEF ResetAll, Overtaken
<1>8. CASE UNCHANGED vars
  BY <1>8 DEF vars
<1> QED
  BY <1>1, <1>2, <1>3, <1>4, <1>5, <1>6, <1>7, <1>8 DEF Next, Reset, Cancel

\* No step takes a lease object away or reopens it.
LEMMA StepKeepsLeases ==
  ASSUME TypeOK, [Next]_vars
  PROVE  LeasesKept
<1>1. ASSUME NEW k \in Keys, Checkout(k) PROVE LeasesKept
  <2> DEFINE new == [key |-> k, epoch |-> SlotOf(k).epoch,
                     memory |-> SlotOf(k).memory, closed |-> FALSE]
  <2>1. new \in Lease
    BY SlotIsTyped DEF Slot, Lease
  <2>2. leases' = Append(leases, new) /\ leases \in Seq(Lease)
    BY <1>1 DEF Checkout, TypeOK
  <2>3. \A i \in DOMAIN leases : i \in DOMAIN leases' /\ leases'[i] = leases[i]
    BY <2>1, <2>2, AppendProperties, LenProperties
  <2> QED
    BY <2>3 DEF LeasesKept
<1>2. CASE UNCHANGED leases
  BY <1>2 DEF LeasesKept
<1> QED
  BY <1>1, <1>2, CloseKeeps
     DEF Next, vars, Commit, CommitMany, Written, Rollback, Reset, Cancel, Invalidate, ResetAll

\* No step revives an invalid lease.
THEOREM StaleLeasesStayStale == Spec => StaleStaysStale
<1>1. ASSUME StoreInv, [Next]_vars, NEW i \in DOMAIN leases, Cancelled(i)
      PROVE  Cancelled(i)'
  <2>1. LeasesKept
    BY <1>1, StepKeepsLeases DEF StoreInv
  <2>2. CASE leases[i].closed
    BY <2>1, <2>2 DEF LeasesKept, Cancelled
  <2>3. CASE ~Current(i)
    <3> SUFFICES ASSUME Current(i)' PROVE FALSE
      BY DEF Cancelled
    <3> DEFINE k == leases[i].key
    <3>1. k \in DOMAIN slots' /\ slots'[k].active = i
      BY <2>1 DEF Current, LeasesKept
    <3>2. i # NoLease
      BY <1>1, NextMemoryIsTyped DEF LeaseId, NoLease, StoreInv
    <3>3. k \in DOMAIN slots /\ slots[k].active = i
      BY <1>1, <3>1, <3>2, OnlyNewLeasesActivate
    <3>4. ActiveLeaseFits(k)
      BY <1>1, <3>3 DEF StoreInv, ActiveLeaseIsCurrent
    <3> QED
      BY <2>3, <3>2, <3>3, <3>4 DEF ActiveLeaseFits, Current
  <2> QED
    BY <1>1, <2>2, <2>3 DEF Cancelled
<1>2. StoreInv /\ [Next]_vars => [\A i \in DOMAIN leases : Cancelled(i) => Cancelled(i)']_vars
  BY <1>1
<1> QED
  BY <1>2, InvHolds, PTL DEF Spec, StaleStaysStale

-----------------------------------------------------------------------------
(* The store implements SessionRegister: a checkout begins a turn, a       *)
(* commit extends episodes, the rest gives turns up or forgets.            *)

\* Checkout is the beginning of a turn.
LEMMA CheckoutBegins ==
  ASSUME TypeOK, NEW k \in Keys, Checkout(k)
  PROVE  Register!Begin(k)
<1>1. SlotOf(k) \in Slot
  BY SlotIsTyped
<1>2. SlotOf(k)' = [SlotOf(k) EXCEPT !.active = NextLease]
  BY DEF Checkout, WithSlot, SlotOf
<1>3. \A x \in Keys : x # k => SlotOf(x)' = SlotOf(x)
  BY DEF Checkout, WithSlot, SlotOf
<1>4. Len(leases') = Len(leases) + 1
  BY DEF Checkout, TypeOK
<1>5. Len(leases) < MaxLeases
  BY BoundsAssumption, LenProperties DEF Checkout, NextLease, TypeOK
<1>6. [x \in Keys |-> SlotOf(x).active]'
        = [[x \in Keys |-> SlotOf(x).active] EXCEPT ![k] = Len(leases) + 1]
  BY <1>1, <1>2, <1>3 DEF Slot, NextLease
<1>7. [x \in Keys |-> SlotOf(x).memory]' = [x \in Keys |-> SlotOf(x).memory]
  BY <1>1, <1>2, <1>3 DEF Slot
<1>8. SlotOf(k).active = 0
  BY DEF Checkout, NoLease
<1> QED
  BY <1>4, <1>5, <1>6, <1>7, <1>8 DEF Register!Begin

\* The slot of a session as the register sees it.
SameView(k) ==
  SlotOf(k)'.memory = SlotOf(k).memory /\ SlotOf(k)'.active = SlotOf(k).active

\* What commits some open turns extends exactly their episodes.
LEMMA Extends ==
  ASSUME NEW ks \in SUBSET Keys, Len(leases') = Len(leases),
         \A k \in Keys \ ks : SameView(k),
         \A k \in ks : /\ SlotOf(k).active # NoLease
                      /\ SlotOf(k)'.memory = Append(SlotOf(k).memory, SlotOf(k).active)
                      /\ SlotOf(k)'.active = NoLease
  PROVE  Register!Extend(ks)
BY DEF Register!Extend, SameView, NoLease

\* What only frees slots abandons exactly the turns those slots named.
LEMMA Abandons ==
  ASSUME NEW ks \in SUBSET Keys, Len(leases') = Len(leases),
         \A k \in Keys \ ks : SameView(k),
         \A k \in ks : /\ SlotOf(k)'.memory = SlotOf(k).memory
                      /\ SlotOf(k)'.active = NoLease
  PROVE  Register!Abandon(ks)
BY DEF Register!Abandon, SameView, NoLease

\* What frees slots and clears their memories forgets exactly those sessions.
LEMMA Forgets ==
  ASSUME NEW ks \in SUBSET Keys, Len(leases') = Len(leases),
         \A k \in Keys \ ks : SameView(k),
         \A k \in ks : /\ SlotOf(k)'.memory = <<>>
                      /\ SlotOf(k)'.active = NoLease
  PROVE  Register!Forget(ks)
BY DEF Register!Forget, SameView, NoLease

\* The commit of some current leases extends the episodes of their sessions.
LEMMA CommitExtends ==
  ASSUME StoreInv, NEW group \in SUBSET DOMAIN leases,
         CommitsGroup(group)
  PROVE  Register!Extend({leases[i].key : i \in group})
<1> USE DEF StoreInv, CommitsGroup
<1> DEFINE ks == {leases[i].key : i \in group}
<1>1. ks \in SUBSET Keys /\ ks \subseteq DOMAIN slots
  BY NextMemoryIsTyped DEF Lease, Cancelled, Current
<1>2. Len(leases') = Len(leases)
  BY CloseIsTyped
<1>3. ASSUME NEW k \in Keys \ ks PROVE SameView(k)
  BY DEF SameView, SlotOf
<1>4. ASSUME NEW k \in ks
      PROVE  /\ SlotOf(k).active # NoLease
             /\ SlotOf(k)'.memory = Append(SlotOf(k).memory, SlotOf(k).active)
             /\ SlotOf(k)'.active = NoLease
  <2>1. PICK i \in group : /\ leases[i].key = k
                           /\ slots'[k].memory = NextMemory(i)
                           /\ slots'[k].active = NoLease
    BY <1>1
  <2>2. slots[k].active = i /\ i # NoLease
    BY <2>1, NextMemoryIsTyped DEF Cancelled, Current, LeaseId, NoLease
  <2>3. leases[i].memory = slots[k].memory
    BY <1>1, <2>2 DEF ActiveLeaseIsCurrent, ActiveLeaseFits
  <2> QED
    BY <1>1, <2>1, <2>2, <2>3 DEF SlotOf, NextMemory
<1> QED
  BY <1>1, <1>2, <1>3, <1>4, Extends

\* The detailed store implements the promise its docstring makes.
THEOREM StoreImplementsRegister == Spec => ImplementsRegister
<1>1. Init => Register!Init
  BY DEF Init, Register!Init, SlotOf, FreshSlot, NoLease
<1>2. ASSUME StoreInv, [Next]_vars
      PROVE  Register!Next \/ UNCHANGED Register!vars
  <2> USE DEF StoreInv, Register!Next
  <2>1. ASSUME NEW k \in Keys, Checkout(k) PROVE Register!Next
    BY <1>2, <2>1, CheckoutBegins
  <2>2. ASSUME NEW i \in DOMAIN leases, Commit(i) PROVE Register!Next
    <3>1. Register!Extend({leases[j].key : j \in {i}})
      BY <1>2, <2>2, CommitShape, CommitExtends, {i} \in SUBSET DOMAIN leases
    <3>2. {leases[j].key : j \in {i}} \in SUBSET Keys
      BY <1>2, NextMemoryIsTyped DEF Lease
    <3> QED
      BY <3>1, <3>2
  <2>3. ASSUME NEW group \in SUBSET DOMAIN leases, CommitMany(group)
        PROVE  Register!Next
    <3>1. Register!Extend({leases[j].key : j \in group})
      BY <1>2, <2>3, CommitManyShape, CommitExtends
    <3>2. {leases[j].key : j \in group} \in SUBSET Keys
      BY <1>2, NextMemoryIsTyped DEF Lease
    <3> QED
      BY <3>1, <3>2
  <2>4. ASSUME NEW i \in DOMAIN leases, Rollback(i) PROVE Register!Next
    <3> DEFINE ks == IF Current(i) THEN {leases[i].key} ELSE {}
    <3>1. ks \in SUBSET Keys
      BY <1>2, NextMemoryIsTyped DEF Lease
    <3>2. Len(leases') = Len(leases)
      BY <1>2, <2>4, CloseIsTyped DEF Rollback
    <3>3. /\ \A k \in Keys \ ks : SameView(k)
          /\ \A k \in ks : /\ SlotOf(k)'.memory = SlotOf(k).memory
                           /\ SlotOf(k)'.active = NoLease
      BY <1>2, <2>4 DEF Rollback, Current, SlotOf, SameView, TypeOK, Slot
    <3>4. Register!Abandon(ks)
      BY <3>1, <3>2, <3>3, Abandons
    <3> QED
      BY <3>1, <3>4
  <2>5. ASSUME NEW ks \in SUBSET Keys, Reset(ks) PROVE Register!Next
    <3>1. Register!Forget(ks)
      BY <2>5, Forgets DEF Reset, Invalidate, Overtaken, SlotOf, SameView
    <3> QED
      BY <3>1
  <2>6. ASSUME NEW ks \in SUBSET Keys, Cancel(ks) PROVE Register!Next
    <3>1. Register!Abandon(ks)
      BY <2>6, Abandons DEF Cancel, Invalidate, Overtaken, SlotOf, SameView
    <3> QED
      BY <3>1
  <2>7. CASE ResetAll
    <3>1. DOMAIN slots \in SUBSET Keys /\ Len(leases') = Len(leases)
      BY <1>2, <2>7 DEF ResetAll, TypeOK
    <3>2. \A k \in Keys \ DOMAIN slots : SameView(k)
      BY <2>7 DEF ResetAll, SlotOf, SameView
    <3>3. \A k \in DOMAIN slots : /\ SlotOf(k)'.memory = <<>>
                                 /\ SlotOf(k)'.active = NoLease
      BY <2>7 DEF ResetAll, Overtaken, SlotOf
    <3>4. Register!Forget(DOMAIN slots)
      BY <3>1, <3>2, <3>3, Forgets
    <3> QED
      BY <3>1, <3>4
  <2>8. CASE UNCHANGED vars
    BY <2>8 DEF vars, Register!vars, SlotOf
  <2> QED
    BY <1>2, <2>1, <2>2, <2>3, <2>4, <2>5, <2>6, <2>7, <2>8 DEF Next
<1> QED
  BY <1>1, <1>2, InvHolds, PTL DEF Spec, ImplementsRegister, Register!Spec
(***************************************************************************)
(* The callers of the store.                                               *)
(***************************************************************************)

Busyness == {"checkout", "timer", "prefill", "decode", "unwind"}

(* The leases a thread holds exist, and nobody else holds them.            *)
HeldInv ==
  /\ held \in [Threads -> Seq(Nat)]
  /\ \A t \in Threads : Held(t) \subseteq DOMAIN leases
  /\ \A t, u \in Threads : t # u => Held(t) \cap Held(u) = {}

(* Where a call is, and how many leases it has by then.                    *)
CallInv ==
  /\ pc \in [Threads -> {"idle"} \cup Busyness]
  /\ DOMAIN call = Threads
  /\ \A t \in Threads :
       /\ pc[t] = "idle" => held[t] = <<>>
       /\ pc[t] # "idle" => /\ call[t].keys \in Seq(Keys)
                            /\ ~call[t].group => Len(call[t].keys) = 1
       /\ pc[t] = "checkout" => Len(held[t]) < Len(call[t].keys)
       /\ pc[t] \in {"timer", "prefill", "decode"} => Len(held[t]) = Len(call[t].keys)

EngineInv == StoreInv /\ HeldInv /\ CallInv /\ NoOrphanLease

(* A call names sessions.                                                  *)
LEMMA CallNames ==
  ASSUME NEW c \in Call
  PROVE  c.keys \in Seq(Keys) /\ Len(c.keys) \in Nat \ {0}
<1>1. Cardinality(Keys) \in Nat
  BY EngineAssumption, FS_CardinalityType
<1>2. c.keys \in UNION {[1..m -> Keys] : m \in 0..Cardinality(Keys)} /\ c.keys # <<>>
  BY DEF Call, SeqOf
<1>3. c.keys \in Seq(Keys)
  BY <1>1, <1>2
<1> QED BY <1>2, <1>3, EmptySeq, LenProperties

(* What a lease in the store's slot is.                                    *)
LEMMA ActiveIsHeldCurrent ==
  ASSUME StoreInv, NEW k \in DOMAIN slots, slots[k].active # NoLease
  PROVE  /\ slots[k].active \in DOMAIN leases /\ leases[slots[k].active].key = k
         /\ Current(slots[k].active)
BY DEF StoreInv, ActiveLeaseIsCurrent, ActiveLeaseFits, Current

(* A thread that publishes commits all the leases it holds.                *)
LEMMA PublishCommits ==
  ASSUME EngineInv, NEW t \in Threads, Publish(t)
  PROVE  /\ CommitsGroup(Held(t)) /\ Held(t) \subseteq DOMAIN leases /\ Return(t)
         /\ [Next]_vars
<1>1. /\ pc[t] = "decode" /\ Return(t) /\ Held(t) \in SUBSET DOMAIN leases
      /\ Len(held[t]) = Len(call[t].keys) /\ held[t] \in Seq(Nat)
      /\ ~call[t].group => Len(call[t].keys) = 1
  BY DEF Publish, EngineInv, HeldInv, CallInv
<1>2. CASE call[t].group
  <2>1. CommitMany(Held(t))
    BY <1>2 DEF Publish
  <2> QED BY <1>1, <2>1, CommitManyShape DEF EngineInv, StoreInv, Next
<1>3. CASE ~call[t].group
  <2>1. Commit(held[t][1]) /\ DOMAIN held[t] = {1}
    BY <1>1, <1>3, LenProperties DEF Publish
  <2>2. Held(t) = {held[t][1]}
    BY <2>1 DEF Held, Range
  <2> QED BY <1>1, <2>1, <2>2, CommitShape DEF EngineInv, StoreInv, Next
<1> QED BY <1>2, <1>3

(* Every step of the callers and of the control threads is one of the      *)
(* store, or leaves it alone.                                              *)
LEMMA EngineStepIsStoreStep ==
  ASSUME EngineInv, [EngineNext]_engineVars
  PROVE  [Next]_vars
<1>1. ASSUME NEW t \in Threads, Acquire(t) PROVE [Next]_vars
  <2>1. /\ call[t].keys \in Seq(Keys) /\ held[t] \in Seq(Nat)
        /\ Len(held[t]) < Len(call[t].keys)
    BY <1>1 DEF EngineInv, HeldInv, CallInv, Acquire
  <2>2. Len(held[t]) + 1 \in 1..Len(call[t].keys)
    BY <2>1, LenProperties
  <2>3. call[t].keys[Len(held[t]) + 1] \in Keys
    BY <2>1, <2>2, ElementOfSeq
  <2> QED BY <1>1, <2>3 DEF Acquire, Next
<1>2. ASSUME NEW t \in Threads, Unwind(t) PROVE [Next]_vars
  <2>1. CASE held[t] # <<>> /\ Rollback(Head(held[t]))
    <3>1. held[t] \in Seq(Nat) /\ 1 \in DOMAIN held[t] /\ Head(held[t]) = held[t][1]
      BY <2>1, LenProperties, EmptySeq DEF EngineInv, HeldInv
    <3>2. Head(held[t]) \in DOMAIN leases
      BY <3>1 DEF EngineInv, HeldInv, Held, Range
    <3> QED BY <2>1, <3>2 DEF Next
  <2>2. CASE UNCHANGED <<slots, leases>>
    BY <2>2 DEF vars
  <2> QED BY <1>2, <2>1, <2>2 DEF Unwind
<1>3. ASSUME NEW t \in Threads, Publish(t) PROVE [Next]_vars
  BY <1>3, PublishCommits
<1>4. ASSUME NEW t \in Threads,
             \/ Busy(t) \/ StartTimer(t) \/ TimerFails(t) \/ Prefill(t) \/ PrefillFails(t)
             \/ Decode(t) \/ DecodeFails(t) \/ PublishFails(t) \/ \E c \in Call : Begin(t, c)
      PROVE  [Next]_vars
  BY <1>4 DEF Busy, StartTimer, TimerFails, Prefill, PrefillFails, Decode, DecodeFails, PublishFails, Begin, Raise, vars
<1>5. CASE Control
  BY <1>5 DEF Control, Next
<1>6. CASE UNCHANGED engineVars
  BY <1>6 DEF engineVars, vars
<1> QED BY <1>1, <1>2, <1>3, <1>4, <1>5, <1>6 DEF EngineNext, Step
(* A step that hands out no lease makes no session busy.                   *)
LEMMA NobodyNew ==
  ASSUME EngineInv, [EngineNext]_engineVars, DOMAIN leases' = DOMAIN leases,
         NEW k \in DOMAIN slots', slots'[k].active # NoLease
  PROVE  /\ k \in DOMAIN slots /\ slots'[k].active = slots[k].active
         /\ slots'[k].active \in lost \/ \E t \in Threads : slots'[k].active \in Held(t)
<1>1. StoreInv /\ StoreInv' /\ [Next]_vars
  BY EngineStepIsStoreStep, InvInductive DEF EngineInv
<1>2. slots'[k].active \in DOMAIN leases
  BY <1>1 DEF StoreInv, ActiveLeaseIsCurrent, ActiveLeaseFits
<1>3. k \in DOMAIN slots /\ slots'[k].active = slots[k].active
  BY <1>1, <1>2, OnlyNewLeasesActivate
<1> QED BY <1>3 DEF EngineInv, NoOrphanLease

(* So one that leaves the hands of all callers alone orphans none.         *)
LEMMA CalmKeeps ==
  ASSUME EngineInv, [EngineNext]_engineVars, DOMAIN leases' = DOMAIN leases, UNCHANGED <<held, lost>>
  PROVE  HeldInv' /\ NoOrphanLease'
<1>1. HeldInv'
  BY DEF EngineInv, HeldInv, Held
<1>2. NoOrphanLease'
  BY NobodyNew DEF NoOrphanLease, Held
<1> QED BY <1>1, <1>2

(* A thread that drops leases no slot names, or that it notes as lost.     *)
LEMMA DropKeeps ==
  ASSUME EngineInv, [EngineNext]_engineVars, DOMAIN leases' = DOMAIN leases,
         NEW t \in Threads, NEW rest \in Seq(Nat), held' = [held EXCEPT ![t] = rest],
         Range(rest) \subseteq Held(t), lost \subseteq lost',
         \A i \in Held(t) \ Range(rest) :
           i \in lost' \/ \A k \in DOMAIN slots' : slots'[k].active # i
  PROVE  HeldInv' /\ NoOrphanLease'
<1>1. /\ held' \in [Threads -> Seq(Nat)] /\ held'[t] = rest
      /\ \A u \in Threads : u # t => held'[u] = held[u]
  BY DEF EngineInv, HeldInv
<1>2. Held(t)' = Range(rest) /\ \A u \in Threads : u # t => Held(u)' = Held(u)
  BY <1>1 DEF Held
<1>3. HeldInv'
  <2>1. /\ \A u \in Threads : Held(u)' \subseteq Held(u)
        /\ \A u \in Threads : Held(u) \subseteq DOMAIN leases
        /\ \A u, v \in Threads : u # v => Held(u) \cap Held(v) = {}
    BY <1>2 DEF EngineInv, HeldInv
  <2>2. \A u \in Threads : Held(u)' \subseteq DOMAIN leases'
    BY <2>1
  <2>3. \A u, v \in Threads : u # v => Held(u)' \cap Held(v)' = {}
    BY <2>1
  <2> QED BY <1>1, <2>2, <2>3 DEF HeldInv, Held
<1>4. ASSUME NEW k \in DOMAIN slots', slots'[k].active # NoLease
      PROVE  slots'[k].active \in lost' \/ \E u \in Threads : slots'[k].active \in Held(u)'
  <2>1. slots'[k].active \in lost \/ \E u \in Threads : slots'[k].active \in Held(u)
    BY <1>4, NobodyNew
  <2> QED BY <1>2, <2>1
<1>5. NoOrphanLease'
  BY <1>4 DEF NoOrphanLease, Held
<1> QED BY <1>3, <1>5

(* What a sequence contains once one more element is appended.             *)
LEMMA RangeOfAppend ==
  ASSUME NEW S, NEW m \in Seq(S), NEW j \in S
  PROVE  Range(Append(m, j)) = Range(m) \cup {j}
<1>1. /\ Len(m) \in Nat /\ DOMAIN m = 1..Len(m) /\ DOMAIN Append(m, j) = 1..Len(m) + 1
      /\ Append(m, j)[Len(m) + 1] = j /\ \A n \in 1..Len(m) : Append(m, j)[n] = m[n]
  BY AppendProperties, LenProperties
<1>2. ASSUME NEW n \in DOMAIN Append(m, j) PROVE Append(m, j)[n] \in Range(m) \cup {j}
  <2>1. CASE n = Len(m) + 1
    BY <1>1, <2>1
  <2>2. CASE n # Len(m) + 1
    <3>1. n \in DOMAIN m /\ Append(m, j)[n] = m[n]
      BY <1>1, <2>2
    <3> QED BY <3>1 DEF Range
  <2> QED BY <2>1, <2>2
<1>3. ASSUME NEW n \in DOMAIN m PROVE m[n] \in Range(Append(m, j))
  <2>1. n \in DOMAIN Append(m, j) /\ Append(m, j)[n] = m[n]
    BY <1>1
  <2> QED BY <2>1 DEF Range
<1>4. j \in Range(Append(m, j))
  <2>1. Len(m) + 1 \in DOMAIN Append(m, j)
    BY <1>1
  <2> QED BY <1>1, <2>1 DEF Range
<1> QED BY <1>2, <1>3, <1>4 DEF Range

(* The lease a thread has just taken is the one its session is busy with.  *)
LEMMA AcquireKeeps ==
  ASSUME EngineInv, NEW t \in Threads, Acquire(t)
  PROVE  EngineInv'
<1>1. [EngineNext]_engineVars /\ [Next]_vars
  BY EngineStepIsStoreStep DEF EngineNext, Step
<1>2. StoreInv'
  BY <1>1, InvInductive DEF EngineInv
<1>3. /\ leases \in Seq(Lease) /\ Len(leases) \in Nat /\ DOMAIN leases = 1..Len(leases)
      /\ leases' \in Seq(Lease) /\ DOMAIN leases' = 1..Len(leases')
  BY <1>2, LenProperties DEF EngineInv, StoreInv, TypeOK
<1>4. /\ held[t] \in Seq(Nat) /\ Len(held[t]) \in Nat /\ DOMAIN held[t] = 1..Len(held[t])
      /\ call[t].keys \in Seq(Keys) /\ Len(call[t].keys) \in Nat
      /\ Len(held[t]) < Len(call[t].keys) /\ pc[t] = "checkout"
  BY LenProperties DEF EngineInv, HeldInv, CallInv, Acquire
<1>5. DOMAIN leases' = 1..Len(leases) + 1 /\ NextLease = Len(leases) + 1
  BY <1>2, <1>3 DEF Acquire, Checkout, NextLease
<1> DEFINE mine == Append(held[t], NextLease)
<1>6. /\ mine \in Seq(Nat) /\ Len(mine) = Len(held[t]) + 1 /\ DOMAIN mine = 1..Len(held[t]) + 1
      /\ mine[Len(held[t]) + 1] = NextLease
      /\ \A n \in 1..Len(held[t]) : mine[n] = held[t][n]
  BY <1>3, <1>4, <1>5, AppendProperties, LenProperties
<1> HIDE DEF mine
<1>7. Range(mine) = Held(t) \cup {NextLease}
  <2>1. held[t] \in Seq(Nat) /\ NextLease \in Nat
    BY <1>3, <1>4, <1>5
  <2>2. Range(Append(held[t], NextLease)) = Range(held[t]) \cup {NextLease}
    BY <2>1, RangeOfAppend
  <2> QED BY <2>2 DEF Held, mine
<1>8. held' = [held EXCEPT ![t] = mine]
  BY DEF Acquire, mine
<1>9. /\ held' \in [Threads -> Seq(Nat)] /\ held'[t] = mine
      /\ \A u \in Threads : u # t => held'[u] = held[u]
  BY <1>6, <1>8 DEF EngineInv, HeldInv
<1>10. Held(t)' = Held(t) \cup {NextLease} /\ \A u \in Threads : u # t => Held(u)' = Held(u)
  BY <1>7, <1>9 DEF Held
<1>11. NextLease \notin DOMAIN leases /\ DOMAIN leases' = DOMAIN leases \cup {NextLease}
  BY <1>3, <1>5
<1>12. HeldInv'
  <2>1. \A u \in Threads : Held(u) \subseteq DOMAIN leases
    BY DEF EngineInv, HeldInv
  <2>2. \A u \in Threads : Held(u)' \subseteq DOMAIN leases'
    BY <1>10, <1>11, <2>1
  <2>3. \A u, v \in Threads : u # v => Held(u)' \cap Held(v)' = {}
    BY <1>10, <1>11, <2>1 DEF EngineInv, HeldInv
  <2> QED BY <1>9, <2>2, <2>3 DEF HeldInv, Held
<1>13. CallInv'
  <2> DEFINE next == IF call[t].group THEN "prefill" ELSE "timer"
  <2>1. call' = call /\ pc' = [pc EXCEPT ![t] = IF Len(held[t]) + 1 < Len(call[t].keys)
                                               THEN "checkout" ELSE next]
    BY DEF Acquire, Goto
  <2>2. ASSUME NEW u \in Threads, u # t
        PROVE  pc'[u] = pc[u] /\ held'[u] = held[u]
    BY <1>9, <2>1, <2>2 DEF EngineInv, CallInv
  <2>3. Len(held'[t]) = Len(held[t]) + 1
    BY <1>6, <1>9
  <2>4. CASE Len(held[t]) + 1 = Len(call[t].keys)
    <3>1. pc'[t] \in {"timer", "prefill"} /\ pc' \in [Threads -> {"idle"} \cup Busyness]
      BY <1>4, <2>1, <2>4 DEF EngineInv, CallInv, Busyness
    <3> QED BY <1>4, <2>1, <2>2, <2>3, <2>4, <3>1 DEF EngineInv, CallInv
  <2>5. CASE Len(held[t]) + 1 # Len(call[t].keys)
    <3>1. Len(held[t]) + 1 < Len(call[t].keys)
      BY <1>4, <2>5
    <3>2. pc'[t] = "checkout" /\ pc' \in [Threads -> {"idle"} \cup Busyness]
      BY <2>1, <3>1 DEF EngineInv, CallInv, Busyness
    <3> QED BY <1>4, <2>1, <2>2, <2>3, <3>1, <3>2 DEF EngineInv, CallInv
  <2> QED BY <2>4, <2>5
<1>14. ASSUME NEW k \in DOMAIN slots', slots'[k].active # NoLease
       PROVE  slots'[k].active \in lost' \/ \E u \in Threads : slots'[k].active \in Held(u)'
  <2>1. slots'[k].active \in DOMAIN leases'
    BY <1>2, <1>14 DEF StoreInv, ActiveLeaseIsCurrent, ActiveLeaseFits
  <2>2. CASE slots'[k].active = NextLease
    BY <1>10, <2>2
  <2>3. CASE slots'[k].active # NextLease
    <3>1. k \in DOMAIN slots /\ slots'[k].active = slots[k].active
      BY <1>1, <1>11, <1>14, <2>1, <2>3, OnlyNewLeasesActivate DEF EngineInv
    <3>2. slots[k].active \in lost \/ \E u \in Threads : slots[k].active \in Held(u)
      BY <1>14, <3>1 DEF EngineInv, NoOrphanLease
    <3>3. lost' = lost
      BY DEF Acquire
    <3> QED BY <1>10, <3>1, <3>2, <3>3
  <2> QED BY <2>2, <2>3
<1>15. NoOrphanLease'
  BY <1>14 DEF NoOrphanLease, Held
<1> QED BY <1>2, <1>12, <1>13, <1>15 DEF EngineInv

(* A call that publishes leaves none of its leases in a slot.              *)
LEMMA PublishKeeps ==
  ASSUME EngineInv, NEW t \in Threads, Publish(t)
  PROVE  EngineInv'
<1>1. [EngineNext]_engineVars /\ [Next]_vars /\ CommitsGroup(Held(t)) /\ Return(t)
  BY PublishCommits DEF EngineNext, Step
<1>2. StoreInv'
  BY <1>1, InvInductive DEF EngineInv
<1>3. DOMAIN leases' = DOMAIN leases
  BY <1>1, CloseIsTyped DEF CommitsGroup, EngineInv, StoreInv
<1>4. ASSUME NEW i \in Held(t), NEW k \in DOMAIN slots' PROVE slots'[k].active # i
  <2>1. i \in DOMAIN leases /\ i # NoLease /\ k \in DOMAIN slots
    BY <1>1, <1>4, NextMemoryIsTyped DEF EngineInv, HeldInv, StoreInv, LeaseId, NoLease, CommitsGroup
  <2>2. SUFFICES ASSUME slots'[k].active = i PROVE FALSE
    OBVIOUS
  <2>3. slots'[k] = slots[k] /\ leases[i].key # k
    BY <1>1, <1>4, <2>1, <2>2 DEF CommitsGroup
  <2> QED BY <2>1, <2>2, <2>3 DEF EngineInv, StoreInv, ActiveLeaseIsCurrent, ActiveLeaseFits
<1>5. /\ <<>> \in Seq(Nat) /\ held' = [held EXCEPT ![t] = <<>>] /\ Range(<<>>) = {}
  BY <1>1, EmptySeq DEF Return, Range
<1>6. HeldInv' /\ NoOrphanLease'
  BY <1>1, <1>3, <1>4, <1>5, DropKeeps DEF Publish
<1>7. CallInv'
  BY <1>1 DEF Return, Goto, EngineInv, HeldInv, CallInv
<1> QED BY <1>2, <1>6, <1>7 DEF EngineInv

(* A turn whose timer raises lets go of a lease that stays active.         *)
LEMMA TimerFailsKeeps ==
  ASSUME EngineInv, NEW t \in Threads, TimerFails(t)
  PROVE  EngineInv'
<1>1. /\ [EngineNext]_engineVars /\ Return(t) /\ UNCHANGED <<slots, leases>>
      /\ lost' = lost \cup Held(t)
  BY DEF EngineNext, Step, TimerFails
<1>2. StoreInv'
  BY <1>1 DEF EngineInv, StoreInv, TypeOK, ActiveLeaseIsCurrent, ActiveLeaseFits,
              CommittedIsOneEpisode, OneEpisode
<1>3. /\ <<>> \in Seq(Nat) /\ held' = [held EXCEPT ![t] = <<>>] /\ Range(<<>>) = {}
  BY <1>1, EmptySeq DEF Return, Range
<1>4. HeldInv' /\ NoOrphanLease'
  BY <1>1, <1>3, DropKeeps
<1>5. CallInv'
  BY <1>1 DEF Return, Goto, EngineInv, HeldInv, CallInv
<1> QED BY <1>2, <1>4, <1>5 DEF EngineInv

(* A rollback frees the session, if it is still busy with that lease.      *)
LEMMA UnwindKeeps ==
  ASSUME EngineInv, NEW t \in Threads, Unwind(t)
  PROVE  EngineInv'
<1>1. [EngineNext]_engineVars /\ [Next]_vars /\ pc[t] = "unwind" /\ lost' = lost
  BY EngineStepIsStoreStep DEF EngineNext, Step, Unwind
<1>2. StoreInv'
  BY <1>1, InvInductive DEF EngineInv
<1>3. CASE held[t] = <<>> /\ Return(t) /\ UNCHANGED <<slots, leases>>
  <2>1. held' = held
    BY <1>3 DEF Return, EngineInv, HeldInv
  <2>2. CallInv'
    BY <1>3, <2>1 DEF Return, Goto, EngineInv, CallInv
  <2> QED BY <1>1, <1>2, <1>3, <2>1, <2>2, CalmKeeps DEF EngineInv
<1>4. CASE /\ held[t] # <<>> /\ Rollback(Head(held[t]))
           /\ held' = [held EXCEPT ![t] = Tail(@)] /\ UNCHANGED <<pc, call, done>>
  <2> DEFINE i == Head(held[t])
             rest == Tail(held[t])
  <2>1. /\ held[t] \in Seq(Nat) /\ Len(held[t]) \in Nat \ {0} /\ DOMAIN held[t] = 1..Len(held[t])
        /\ i = held[t][1]
    BY <1>4, LenProperties, EmptySeq DEF EngineInv, HeldInv
  <2>2. /\ rest \in Seq(Nat) /\ DOMAIN rest = 1..Len(held[t]) - 1
        /\ \A n \in 1..Len(held[t]) - 1 : rest[n] = held[t][n + 1]
    BY <1>4, <2>1, HeadTailProperties, LenProperties
  <2>3. i \in Held(t)
    BY <2>1 DEF Held, Range
  <2> HIDE DEF i, rest
  <2>4. Range(rest) \subseteq Held(t) /\ Held(t) \ Range(rest) \subseteq {i}
    <3>1. ASSUME NEW n \in DOMAIN held[t] PROVE held[t][n] = i \/ held[t][n] \in Range(rest)
      <4>1. CASE n = 1
        BY <2>1, <4>1
      <4>2. CASE n # 1
        <5> DEFINE m == Len(held[t])
        <5>1. m \in Nat \ {0} /\ n \in 1..m
          BY <2>1
        <5>2. DOMAIN rest = 1..m - 1 /\ \A x \in 1..m - 1 : rest[x] = held[t][x + 1]
          BY <2>2
        <5> HIDE DEF m
        <5>3. n - 1 \in 1..m - 1 /\ (n - 1) + 1 = n
          BY <4>2, <5>1
        <5>4. n - 1 \in DOMAIN rest /\ rest[n - 1] = held[t][n]
          BY <5>2, <5>3
        <5> QED BY <5>4 DEF Range
      <4> QED BY <4>1, <4>2
    <3>2. ASSUME NEW n \in DOMAIN rest PROVE rest[n] \in Held(t)
      <4>1. n + 1 \in DOMAIN held[t] /\ rest[n] = held[t][n + 1]
        <5> DEFINE m == Len(held[t])
        <5>1. m \in Nat \ {0} /\ n \in 1..m - 1 /\ DOMAIN held[t] = 1..m
          BY <2>1, <2>2
        <5> HIDE DEF m
        <5>2. n + 1 \in 1..m
          BY <5>1
        <5> QED BY <2>2, <5>1, <5>2 DEF m
      <4> QED BY <4>1 DEF Held, Range
    <3> QED BY <3>1, <3>2 DEF Held, Range
  <2>5. i \in DOMAIN leases /\ i # NoLease
    BY <2>3, NextMemoryIsTyped DEF EngineInv, HeldInv, StoreInv, LeaseId, NoLease
  <2>6. Rollback(i) /\ held' = [held EXCEPT ![t] = rest]
    BY <1>4 DEF i, rest
  <2>7. DOMAIN leases' = DOMAIN leases
    BY <2>6, CloseIsTyped DEF Rollback, EngineInv, StoreInv
  <2>8. ASSUME NEW k \in DOMAIN slots' PROVE slots'[k].active # i
    <3>1. SUFFICES ASSUME slots'[k].active = i PROVE FALSE
      OBVIOUS
    <3>2. k \in DOMAIN slots /\ slots[k].active = i
      BY <1>1, <2>5, <2>7, <3>1, NobodyNew
    <3>3. leases[i].key = k /\ Current(i)
      BY <2>5, <3>2, ActiveIsHeldCurrent DEF EngineInv
    <3>4. slots[k] \in Slot
      BY <3>2 DEF EngineInv, StoreInv, TypeOK
    <3> QED BY <2>5, <2>6, <3>1, <3>2, <3>3, <3>4 DEF Rollback, Slot
  <2>9. HeldInv' /\ NoOrphanLease'
    BY <1>1, <2>2, <2>4, <2>6, <2>7, <2>8, DropKeeps
  <2>10. CallInv'
    BY <1>1, <1>4, <2>6 DEF EngineInv, HeldInv, CallInv
  <2> QED BY <1>2, <2>9, <2>10 DEF EngineInv
<1> QED BY <1>1, <1>3, <1>4 DEF Unwind

(* The other steps of a thread only move it on.                            *)
LEMMA MoveKeeps ==
  ASSUME EngineInv, NEW t \in Threads,
         \/ Busy(t) \/ StartTimer(t) \/ Prefill(t) \/ PrefillFails(t) \/ Decode(t)
         \/ DecodeFails(t) \/ PublishFails(t)
  PROVE  EngineInv'
<1>1. [EngineNext]_engineVars /\ UNCHANGED <<slots, leases, call, held, lost>>
  BY DEF EngineNext, Step, Busy, StartTimer, Prefill, PrefillFails, Decode, DecodeFails, PublishFails, Raise
<1>2. /\ pc[t] \in Busyness /\ pc' = [pc EXCEPT ![t] = pc'[t]]
      /\ \/ pc'[t] = "unwind"
         \/ pc[t] = "timer" /\ pc'[t] = "prefill"
         \/ pc[t] \in {"prefill", "decode"} /\ pc'[t] = "decode"
  BY DEF Busy, StartTimer, Prefill, PrefillFails, Decode, DecodeFails, PublishFails, Raise, Goto, Busyness,
         EngineInv, CallInv
<1>3. CallInv'
  BY <1>1, <1>2 DEF EngineInv, CallInv, Busyness
<1>4. StoreInv'
  BY <1>1 DEF EngineInv, StoreInv, TypeOK, ActiveLeaseIsCurrent, ActiveLeaseFits,
              CommittedIsOneEpisode, OneEpisode
<1> QED BY <1>1, <1>3, <1>4, CalmKeeps DEF EngineInv

(* A call starts with nothing in its hands.                                *)
LEMMA BeginKeeps ==
  ASSUME EngineInv, NEW t \in Threads, NEW c \in Call, Begin(t, c)
  PROVE  EngineInv'
<1>1. [EngineNext]_engineVars /\ UNCHANGED <<slots, leases, held, lost>>
  BY DEF EngineNext, Begin
<1>2. /\ pc[t] = "idle" /\ pc' = [pc EXCEPT ![t] = "checkout"] /\ call' = [call EXCEPT ![t] = c]
      /\ c.group \/ Len(c.keys) = 1
  BY DEF Begin, Goto
<1>3. c.keys \in Seq(Keys) /\ Len(c.keys) \in Nat \ {0} /\ Len(<<>>) = 0
  BY CallNames, EmptySeq
<1>4. CallInv'
  <2>1. held[t] = <<>> /\ Len(held[t]) = 0
    BY <1>2, <1>3 DEF EngineInv, CallInv
  <2>2. 0 < Len(c.keys)
    BY <1>3
  <2>3. \A u \in Threads : u # t => pc'[u] = pc[u] /\ call'[u] = call[u] /\ held'[u] = held[u]
    BY <1>1, <1>2 DEF EngineInv, CallInv
  <2>4. /\ pc' \in [Threads -> {"idle"} \cup Busyness] /\ DOMAIN call' = Threads
        /\ pc'[t] = "checkout" /\ call'[t] = c
    BY <1>2 DEF EngineInv, CallInv, Busyness
  <2> QED BY <1>1, <1>2, <1>3, <2>1, <2>2, <2>3, <2>4 DEF EngineInv, CallInv
<1>5. StoreInv'
  BY <1>1 DEF EngineInv, StoreInv, TypeOK, ActiveLeaseIsCurrent, ActiveLeaseFits,
              CommittedIsOneEpisode, OneEpisode
<1> QED BY <1>1, <1>4, <1>5, CalmKeeps DEF EngineInv

(* Resets and cancels take no lease out of a caller's hands.               *)
LEMMA ControlKeeps ==
  ASSUME EngineInv, Control
  PROVE  EngineInv'
<1>1. [EngineNext]_engineVars /\ [Next]_vars /\ UNCHANGED <<leases, pc, call, held, lost>>
  BY EngineStepIsStoreStep
     DEF EngineNext, Control, callVars, Reset, Cancel, Invalidate, ResetAll
<1>2. StoreInv'
  BY <1>1, InvInductive DEF EngineInv
<1>3. CallInv'
  BY <1>1 DEF EngineInv, CallInv
<1> QED BY <1>1, <1>2, <1>3, CalmKeeps DEF EngineInv

(* The invariant of the callers is inductive.                              *)
LEMMA EngineStepKeeps == EngineInv /\ [EngineNext]_engineVars => EngineInv'
<1> SUFFICES ASSUME EngineInv, [EngineNext]_engineVars PROVE EngineInv'
  OBVIOUS
<1>1. ASSUME NEW t \in Threads, Step(t) PROVE EngineInv'
  BY <1>1, AcquireKeeps, MoveKeeps, TimerFailsKeeps, PublishKeeps, UnwindKeeps DEF Step
<1>2. ASSUME NEW t \in Threads, NEW c \in Call, Begin(t, c) PROVE EngineInv'
  BY <1>2, BeginKeeps
<1>3. CASE UNCHANGED engineVars
  BY <1>3 DEF engineVars, EngineInv, StoreInv, TypeOK, ActiveLeaseIsCurrent, ActiveLeaseFits,
              CommittedIsOneEpisode, OneEpisode, HeldInv, CallInv, NoOrphanLease, Held
<1> QED BY <1>1, <1>2, <1>3, ControlKeeps DEF EngineNext

(* A store without sessions, and threads without calls.                    *)
LEMMA InitEngine == EngineInit => EngineInv
<1> SUFFICES ASSUME EngineInit PROVE EngineInv
  OBVIOUS
<1>1. StoreInv
  BY InitType DEF EngineInit, Init, StoreInv, ActiveLeaseIsCurrent, CommittedIsOneEpisode
<1>2. \A t \in Threads : Held(t) = {}
  BY DEF EngineInit, Held, Range
<1>3. HeldInv
  BY <1>2, EmptySeq DEF EngineInit, HeldInv
<1>4. CallInv
  BY DEF EngineInit, CallInv
<1>5. NoOrphanLease
  BY DEF EngineInit, Init, NoOrphanLease
<1> QED BY <1>1, <1>3, <1>4, <1>5 DEF EngineInv

(* Whatever the callers do, the store is used as it may be and no lease is *)
(* forgotten.                                                              *)
THEOREM EngineInvariant == EngineSpec => []EngineInv
BY InitEngine, EngineStepKeeps, PTL DEF EngineSpec

(* A session is busy only while a call under way holds its lease, however  *)
(* turns and groups fail half way, or because the stage timer of a turn    *)
(* has raised before the block that rolls back.                            *)
THEOREM NoLeaseIsOrphaned == EngineSpec => []NoOrphanLease
BY EngineInvariant, PTL DEF EngineInv

(* Where the timer cannot raise, as on a CPU, every call rolls back.       *)
THEOREM CpuCallsRollBack == EngineSpec => [](~EventsFail => EveryCallRollsBack)
<1> DEFINE NoneLost == ~EventsFail => lost = {}
<1>1. EngineInit => NoneLost
  BY DEF EngineInit
<1>2. NoneLost /\ [EngineNext]_engineVars => NoneLost'
  BY DEF EngineNext, engineVars, Step, Acquire, Busy, StartTimer, TimerFails, Prefill,
         PrefillFails, Decode, DecodeFails, Publish, PublishFails, Unwind, Begin, Raise,
         Control, callVars
<1>3. EngineInv /\ NoneLost => (~EventsFail => EveryCallRollsBack)
  BY DEF EngineInv, NoOrphanLease, EveryCallRollsBack
<1> HIDE DEF NoneLost
<1> QED BY <1>1, <1>2, <1>3, EngineInvariant, PTL DEF EngineSpec

(* The callers use the store as its specification says, so what is proved  *)
(* of the store holds of the engine.                                       *)
THEOREM EngineUsesStore == EngineSpec => Spec
<1>1. EngineInit => Init
  BY DEF EngineInit
<1> QED BY <1>1, EngineInvariant, EngineStepIsStoreStep, PTL DEF EngineSpec, Spec

(* The steps that publish nothing.                                         *)
Unpublished ==
  \/ \E t \in Threads :
       \/ Acquire(t) \/ Busy(t) \/ StartTimer(t) \/ TimerFails(t)
       \/ Prefill(t) \/ PrefillFails(t) \/ Decode(t) \/ DecodeFails(t) \/ PublishFails(t) \/ Unwind(t) \/ \E c \in Call : Begin(t, c)
  \/ Control
  \/ UNCHANGED engineVars

(* What they make of a session's memory.                                   *)
LEMMA OnlyPublishExtends ==
  ASSUME EngineInv, Unpublished, NEW k \in Keys
  PROVE  SlotOf(k)'.memory \in {SlotOf(k).memory, <<>>}
<1>1. TypeOK
  BY DEF EngineInv, StoreInv
<1>2. ASSUME NEW x \in Keys, Checkout(x) PROVE SlotOf(k)'.memory = SlotOf(k).memory
  BY <1>1, <1>2, SlotIsTyped DEF Checkout, WithSlot, SlotOf, Slot
<1>3. ASSUME NEW t \in Threads, Acquire(t) PROVE SlotOf(k)'.memory = SlotOf(k).memory
  <2>1. /\ call[t].keys \in Seq(Keys) /\ held[t] \in Seq(Nat)
        /\ Len(held[t]) < Len(call[t].keys)
    BY <1>3 DEF EngineInv, HeldInv, CallInv, Acquire
  <2>2. Len(held[t]) + 1 \in 1..Len(call[t].keys)
    BY <2>1, LenProperties
  <2>3. call[t].keys[Len(held[t]) + 1] \in Keys
    BY <2>1, <2>2, ElementOfSeq
  <2> QED BY <1>2, <1>3, <2>3 DEF Acquire
<1>4. ASSUME NEW i, Rollback(i) PROVE SlotOf(k)'.memory = SlotOf(k).memory
  BY <1>1, <1>4 DEF Rollback, Current, SlotOf, TypeOK, Slot
<1>5. ASSUME NEW t \in Threads, Unwind(t) PROVE SlotOf(k)'.memory = SlotOf(k).memory
  BY <1>4, <1>5 DEF Unwind, SlotOf
<1>6. CASE Control
  <2>1. ASSUME NEW ks \in SUBSET Keys, NEW clear_memory \in BOOLEAN, Invalidate(ks, clear_memory)
        PROVE  SlotOf(k)'.memory \in {SlotOf(k).memory, <<>>}
    <3>1. CASE k \in ks
      <4>1. SlotOf(k)' = Overtaken(SlotOf(k), clear_memory)
        BY <2>1, <3>1 DEF Invalidate, SlotOf
      <4> QED BY <4>1 DEF Overtaken
    <3>2. CASE k \notin ks
      BY <2>1, <3>2 DEF Invalidate, SlotOf
    <3> QED BY <3>1, <3>2
  <2>2. CASE ResetAll
    BY <2>2 DEF ResetAll, Overtaken, SlotOf, FreshSlot
  <2> QED BY <1>6, <2>1, <2>2 DEF Control, Reset, Cancel
<1>7. CASE UNCHANGED slots
  BY <1>7 DEF SlotOf
<1> QED
  BY <1>3, <1>5, <1>6, <1>7
     DEF Unpublished, engineVars, Begin, Busy, StartTimer, TimerFails, Prefill, PrefillFails, Decode, DecodeFails,
         PublishFails, Raise

(* What a lease that may still commit adds: itself, to a memory that lacks *)
(* it.                                                                     *)
LEMMA CommitAddsItself ==
  ASSUME StoreInv, NEW j \in DOMAIN leases, ~Cancelled(j)
  PROVE  /\ leases[j].key \in DOMAIN slots /\ slots[leases[j].key].active = j
         /\ Range(NextMemory(j)) = Range(slots[leases[j].key].memory) \cup {j}
         /\ j \notin Range(slots[leases[j].key].memory)
<1> DEFINE k == leases[j].key
<1>1. k \in DOMAIN slots /\ slots[k].active = j /\ ~leases[j].closed
  BY DEF Cancelled, Current
<1>2. j \in LeaseId /\ j # NoLease /\ leases[j].memory \in Seq(LeaseId)
  BY NextMemoryIsTyped DEF StoreInv, Lease, Memory, LeaseId, NoLease
<1>3. leases[j].memory = slots[k].memory
  BY <1>1, <1>2 DEF StoreInv, ActiveLeaseIsCurrent, ActiveLeaseFits
<1>4. \A i \in Range(slots[k].memory) : leases[i].closed
  BY <1>1 DEF Range, StoreInv, CommittedIsOneEpisode, OneEpisode
<1> QED BY <1>1, <1>2, <1>3, <1>4, RangeOfAppend DEF NextMemory

(* A group takes effect whole or not at all.                               *)
LEMMA StepCommitsWhole ==
  ASSUME EngineInv, [EngineNext]_engineVars, NEW t \in Threads,
         NEW i \in Held(t), ~InEpisode(i), InEpisode(i)'
  PROVE  \A j \in Held(t) : ~InEpisode(j) /\ InEpisode(j)'
<1>1. StoreInv /\ [Next]_vars /\ LeasesKept /\ i \in DOMAIN leases
  BY EngineStepIsStoreStep, StepKeepsLeases DEF EngineInv, HeldInv, StoreInv
<1>0. PICK k \in Keys : k = leases[i].key
  BY <1>1, NextMemoryIsTyped DEF StoreInv, Lease
<1>2. /\ leases'[i].key = k
      /\ i \notin Range(SlotOf(k).memory) /\ i \in Range(SlotOf(k)'.memory)
  BY <1>0, <1>1 DEF InEpisode, LeasesKept, SlotOf
<1>3. i \notin Range(<<>>)
  BY DEF Range
<1>4. PICK u \in Threads : Publish(u)
  <2>1. SlotOf(k)'.memory # SlotOf(k).memory /\ SlotOf(k)'.memory # <<>>
    BY <1>2, <1>3
  <2> QED BY <2>1, OnlyPublishExtends DEF EngineNext, Step, Unpublished
<1>5. /\ CommitsGroup(Held(u)) /\ Held(u) \subseteq DOMAIN leases
      /\ \A j \in Held(u) : ~Cancelled(j)
  BY <1>4, PublishCommits DEF CommitsGroup
<1>6. k \in DOMAIN slots /\ SlotOf(k) = slots[k] /\ SlotOf(k)' = slots'[k]
  <2>1. k \in DOMAIN slots
    BY <1>2, <1>3, <1>5 DEF CommitsGroup, SlotOf, FreshSlot
  <2> QED BY <1>5, <2>1 DEF CommitsGroup, SlotOf
<1>7. i \in Held(u)
  <2>1. PICK j \in Held(u) : leases[j].key = k /\ slots'[k].memory = NextMemory(j)
    BY <1>2, <1>5, <1>6 DEF CommitsGroup
  <2>2. Range(NextMemory(j)) = Range(slots[k].memory) \cup {j}
    BY <1>1, <1>5, <2>1, CommitAddsItself
  <2> QED BY <1>2, <1>6, <2>1, <2>2
<1>8. u = t
  BY <1>7 DEF EngineInv, HeldInv
<1>9. ASSUME NEW j \in Held(t) PROVE ~InEpisode(j) /\ InEpisode(j)'
  <2> DEFINE l == leases[j].key
  <2>1. /\ j \in DOMAIN leases /\ l \in DOMAIN slots /\ slots[l].active = j
        /\ Range(NextMemory(j)) = Range(slots[l].memory) \cup {j}
        /\ j \notin Range(slots[l].memory)
    BY <1>1, <1>5, <1>8, CommitAddsItself
  <2>2. PICK m \in Held(t) : leases[m].key = l /\ slots'[l].memory = NextMemory(m)
    BY <1>5, <1>8, <2>1 DEF CommitsGroup
  <2>3. m = j
    BY <1>1, <1>5, <1>8, <2>1, <2>2, CommitAddsItself
  <2>4. leases'[j].key = l /\ l \in DOMAIN slots'
    BY <1>1, <1>5, <2>1 DEF LeasesKept, CommitsGroup
  <2> QED BY <2>1, <2>2, <2>3, <2>4 DEF InEpisode, SlotOf
<1> QED BY <1>9

(* A group that branched from one start is committed as a whole, even if a *)
(* reset or cancel hits one of its sessions while it runs.                 *)
THEOREM GroupsAreCommittedWhole == EngineSpec => GroupsCommitWhole
<1>1. ASSUME EngineInv, [EngineNext]_engineVars
      PROVE  \A t \in Threads :
               (\E i \in Held(t) : ~InEpisode(i) /\ InEpisode(i)')
                 => \A i \in Held(t) : ~InEpisode(i) /\ InEpisode(i)'
  BY <1>1, StepCommitsWhole
<1> QED BY <1>1, EngineInvariant, PTL DEF EngineSpec, GroupsCommitWhole

(***************************************************************************)
(* Weight updates.                                                         *)
(***************************************************************************)

RefitLabel == {"idle", "committed", "inflight", "validate", "copy", "publish"}

(* What has been copied, and what has been checked before publication.     *)
RefitInv ==
  /\ version \in Nat
  /\ DOMAIN weights = Tensors
  /\ refit \in [pc : RefitLabel, version : Nat, left : SUBSET Tensors, emptyAt : BOOLEAN]
  /\ refit.pc = "copy" => \A x \in Tensors \ refit.left : weights[x] = refit.version
  /\ refit.pc = "publish" => /\ \A x \in Tensors : weights[x] = refit.version
                             /\ refit.version >= version

(* The engine's steps leave an update where it is.                         *)
LEMMA EngineStepWatches ==
  ASSUME RefitInv, EngineStep
  PROVE  /\ EngineNext /\ UNCHANGED <<version, weights>>
         /\ refit' \in [pc : RefitLabel, version : Nat, left : SUBSET Tensors, emptyAt : BOOLEAN]
         /\ refit'.pc = refit.pc /\ refit'.version = refit.version /\ refit'.left = refit.left
<1>1. EngineNext
  BY DEF EngineStep, EngineNext, Step
<1>2. StoreIsEmpty' \in BOOLEAN
  BY DEF StoreIsEmpty
<1>3. (refit.emptyAt \/ StoreIsEmpty') \in BOOLEAN
  OBVIOUS
<1> DEFINE seen == refit.emptyAt \/ StoreIsEmpty'
<1>4. refit' = [refit EXCEPT !.emptyAt = seen] \/ refit' = refit
  BY DEF EngineStep, WatchGuard
<1>5. seen \in BOOLEAN
  BY <1>3
<1> HIDE DEF seen
<1> QED BY <1>1, <1>4, <1>5 DEF EngineStep, RefitInv

(* The invariant of an update is inductive.                                *)
LEMMA RefitKeeps == RefitInv /\ [RefitNext]_allVars => RefitInv'
<1> SUFFICES ASSUME RefitInv, [RefitNext]_allVars PROVE RefitInv'
  OBVIOUS
<1>1. ASSUME NEW v \in 0..MaxVersion, BeginRefit(v) PROVE RefitInv'
  <2>1. v \in Nat /\ StoreIsEmpty \in BOOLEAN
    BY RefitAssumption DEF StoreIsEmpty
  <2> QED BY <1>1, <2>1 DEF BeginRefit, RefitInv, RefitLabel
<1>2. CASE RaiseRefit
  BY <1>2 DEF RaiseRefit, RefitInv, Idle, RefitLabel
<1>3. CASE AskCommitted
  BY <1>2, <1>3 DEF AskCommitted, GotoRefit, RefitInv, RefitLabel
<1>4. CASE AskInflight
  BY <1>2, <1>4 DEF AskInflight, GotoRefit, RefitInv, RefitLabel
<1>5. CASE Validate
  BY <1>2, <1>5 DEF Validate, RefitInv, RefitLabel
<1>6. ASSUME NEW x \in Tensors, CopyTensor(x) PROVE RefitInv'
  BY <1>6 DEF CopyTensor, RefitInv, RefitLabel
<1>7. CASE RunHook
  BY <1>7 DEF RunHook, GotoRefit, RefitInv, RefitLabel
<1>8. CASE RefitFails
  BY <1>2, <1>8 DEF RefitFails
<1>9. CASE PublishVersion
  BY <1>9 DEF PublishVersion, RefitInv, Idle, RefitLabel
<1>10. CASE EngineStep
  BY <1>10, EngineStepWatches DEF RefitInv
<1>11. CASE UNCHANGED allVars
  BY <1>11 DEF allVars, RefitInv
<1> QED BY <1>1, <1>3, <1>4, <1>5, <1>6, <1>7, <1>8, <1>9, <1>10, <1>11 DEF RefitNext, RefitStep

LEMMA InitRefit == RefitInit => RefitInv /\ EngineInit
<1> SUFFICES ASSUME RefitInit PROVE RefitInv
  BY DEF RefitInit
<1> QED BY DEF RefitInit, RefitInv, Idle, RefitLabel

(* Updates or not, the engine's own steps are those of RecurrentEngine.    *)
LEMMA RefitStepIsEngineStep ==
  ASSUME RefitInv, [RefitNext]_allVars
  PROVE  [EngineNext]_engineVars
BY EngineStepWatches DEF RefitNext, RefitStep, allVars, engineVars

(* What holds of the engine holds while its weights are updated.           *)
THEOREM RefitInvariant == RefitSpec => [](RefitInv /\ EngineInv)
<1>1. RefitInit => RefitInv /\ EngineInv
  BY InitRefit, InitEngine
<1>2. RefitInv /\ EngineInv /\ [RefitNext]_allVars => (RefitInv /\ EngineInv)'
  BY RefitKeeps, RefitStepIsEngineStep, EngineStepKeeps
<1> QED BY <1>1, <1>2, PTL DEF RefitSpec

(* A version becomes visible only when every tensor is installed, and      *)
(* versions only grow, wherever updates fail.                              *)
THEOREM PublicationIsWhole == RefitSpec => PublishedVersionIsInstalled
<1>1. ASSUME RefitInv, [RefitNext]_allVars
      PROVE  [version' # version => version' > version /\ WeightsAreWhole']_allVars
  <2>1. SUFFICES ASSUME version' # version PROVE version' > version /\ WeightsAreWhole'
    OBVIOUS
  <2>2. PublishVersion
    BY <1>1, <2>1, EngineStepWatches
       DEF RefitNext, RefitStep, BeginRefit, AskCommitted, AskInflight, Validate, CopyTensor,
           RunHook, RefitFails, RaiseRefit, allVars
  <2>3. /\ version' = refit.version /\ weights' = weights /\ refit.version >= version
        /\ \A x \in Tensors : weights[x] = refit.version
        /\ version \in Nat /\ refit.version \in Nat
    BY <1>1, <2>2 DEF PublishVersion, RefitInv
  <2>4. version' > version
    BY <2>1, <2>3
  <2> QED BY <2>3, <2>4 DEF WeightsAreWhole
<1> QED BY <1>1, RefitInvariant, PTL DEF RefitSpec, PublishedVersionIsInstalled

(* With turns and updates kept apart: an update runs while no thread is in *)
(* a call and, once its guard has asked, with no memory in the store; what *)
(* is committed or about to be was read from the weights that are live.    *)
SerialInv ==
  /\ refit.pc # "idle" => \A t \in Threads : pc[t] = "idle"
  /\ refit.pc \notin {"idle", "committed"} => \A k \in DOMAIN slots : slots[k].memory = <<>>
  /\ \A k \in DOMAIN slots : \A i \in Range(slots[k].memory) :
       i \in DOMAIN made /\ made[i] = Range(weights)
  /\ DOMAIN reads = Threads
  /\ \A t \in Threads : pc[t] = "decode" => reads[t] = Range(weights)

(* An empty memory has no turns.                                           *)
LEMMA NoTurns == Range(<<>>) = {}
BY DEF Range

(* An update touches no turn: there is none to touch.                      *)
LEMMA UpdateKeepsSerial ==
  ASSUME SerialRefit, RefitInv, EngineInv, SerialInv, RefitStep
  PROVE  SerialInv'
<1>1. UNCHANGED <<slots, pc, reads, made>>
  BY DEF RefitStep, engineVars, traceVars
<1>2. CASE UNCHANGED weights
  <2>1. /\ refit'.pc # "idle" => refit.pc # "idle" \/ \A t \in Threads : pc[t] = "idle"
        /\ refit'.pc \notin {"idle", "committed"} =>
             refit.pc \notin {"idle", "committed"} \/ \A k \in DOMAIN slots : slots[k].memory = <<>>
    BY DEF RefitStep, BeginRefit, AskCommitted, AskInflight, Validate, CopyTensor, RunHook,
           RefitFails, PublishVersion, RaiseRefit, GotoRefit, Idle, HasCommitted, RefitInv
  <2> QED BY <1>1, <1>2, <2>1 DEF SerialInv
<1>3. ASSUME NEW x \in Tensors, CopyTensor(x) PROVE SerialInv'
  <2>1. refit.pc = "copy" /\ refit'.pc = "copy"
    BY <1>3 DEF CopyTensor, RefitInv
  <2>2. /\ \A t \in Threads : pc[t] = "idle"
        /\ \A k \in DOMAIN slots : slots[k].memory = <<>>
    BY <2>1 DEF SerialInv
  <2> QED BY <1>1, <2>1, <2>2, NoTurns DEF SerialInv
<1> QED
  BY <1>2, <1>3
     DEF RefitStep, BeginRefit, AskCommitted, AskInflight, Validate, RunHook, RefitFails,
         PublishVersion, RaiseRefit

(* A step that extends no episode leaves the committed turns as they were. *)
LEMMA NoNewTurns ==
  ASSUME EngineInv, EngineNext, SerialInv, Unpublished,
         weights' = weights, made' = made
  PROVE  /\ \A k \in DOMAIN slots' : \A i \in Range(slots'[k].memory) :
              i \in DOMAIN made' /\ made'[i] = Range(weights')
         /\ (\A k \in DOMAIN slots : slots[k].memory = <<>>)
              => \A k \in DOMAIN slots' : slots'[k].memory = <<>>
<1>1. StoreInv'
  BY EngineStepKeeps DEF EngineInv
<1>2. ASSUME NEW k \in DOMAIN slots'
      PROVE  \/ slots'[k].memory = <<>>
             \/ k \in DOMAIN slots /\ slots'[k].memory = slots[k].memory
  <2>1. k \in Keys
    BY <1>1 DEF StoreInv, TypeOK
  <2>2. SlotOf(k)'.memory \in {SlotOf(k).memory, <<>>}
    BY <2>1, OnlyPublishExtends
  <2> QED BY <2>2 DEF SlotOf, FreshSlot
<1>3. ASSUME NEW k \in DOMAIN slots', NEW i \in Range(slots'[k].memory)
      PROVE  i \in DOMAIN made' /\ made'[i] = Range(weights')
  BY <1>2, <1>3, NoTurns DEF SerialInv
<1> QED BY <1>2, <1>3

(* A turn is stamped with what its model run read.                         *)
LEMMA PublishKeepsSerial ==
  ASSUME SerialRefit, RefitInv, EngineInv, SerialInv, EngineStep,
         NEW t \in Threads, Publish(t),
         made' = [i \in DOMAIN made \cup Held(t) |-> IF i \in Held(t) THEN reads[t] ELSE made[i]],
         reads' = reads
  PROVE  SerialInv'
<1>1. /\ weights' = weights /\ refit'.pc = refit.pc /\ refit.pc = "idle"
      /\ pc[t] = "decode" /\ reads[t] = Range(weights)
  BY EngineStepWatches DEF Publish, SerialInv
<1>2. /\ CommitsGroup(Held(t)) /\ Held(t) \subseteq DOMAIN leases /\ Return(t)
      /\ \A j \in Held(t) : ~Cancelled(j)
  BY PublishCommits DEF CommitsGroup
<1>3. ASSUME NEW k \in DOMAIN slots', NEW i \in Range(slots'[k].memory)
      PROVE  i \in DOMAIN made' /\ made'[i] = Range(weights')
  <2>1. k \in DOMAIN slots
    BY <1>2 DEF CommitsGroup
  <2>2. i \in Range(slots[k].memory) \/ i \in Held(t)
    <3>1. CASE slots'[k] = slots[k]
      BY <1>3, <3>1
    <3>2. ASSUME NEW j \in Held(t), leases[j].key = k, slots'[k].memory = NextMemory(j)
          PROVE  i \in Range(slots[k].memory) \/ i \in Held(t)
      BY <1>2, <1>3, <3>2, CommitAddsItself DEF EngineInv
    <3> QED BY <1>2, <2>1, <3>1, <3>2 DEF CommitsGroup
  <2>3. i \in Held(t) \/ (i \in DOMAIN made /\ made[i] = Range(weights))
    BY <2>1, <2>2 DEF SerialInv
  <2> QED BY <1>1, <2>3
<1>4. \A u \in Threads : pc'[u] = "decode" => pc[u] = "decode"
  BY <1>2 DEF Return, Goto, EngineInv, CallInv
<1> QED BY <1>1, <1>3, <1>4 DEF SerialInv

(* A model run reads the weights that are live while it runs.              *)
LEMMA EngineKeepsSerial ==
  ASSUME SerialRefit, RefitInv, EngineInv, SerialInv, EngineStep
  PROVE  SerialInv'
<1>1. EngineNext /\ weights' = weights /\ refit'.pc = refit.pc
  BY EngineStepWatches
<1>2. CASE \E t \in Threads :
             /\ Publish(t)
             /\ made' = [i \in DOMAIN made \cup Held(t) |->
                           IF i \in Held(t) THEN reads[t] ELSE made[i]]
             /\ UNCHANGED reads
  BY <1>2, PublishKeepsSerial
<1>3. ASSUME Unpublished, made' = made, DOMAIN reads' = Threads,
             \A t \in Threads : pc'[t] = "decode" => reads'[t] = Range(weights)
      PROVE  SerialInv'
  <2>1. /\ \A k \in DOMAIN slots' : \A i \in Range(slots'[k].memory) :
              i \in DOMAIN made' /\ made'[i] = Range(weights')
        /\ (\A k \in DOMAIN slots : slots[k].memory = <<>>)
              => \A k \in DOMAIN slots' : slots'[k].memory = <<>>
    BY <1>1, <1>3, NoNewTurns
  <2>2. (\A t \in Threads : pc[t] = "idle") /\ refit.pc # "idle" => \A t \in Threads : pc'[t] = "idle"
    BY DEF EngineStep, MayBegin, Acquire, Busy, StartTimer, TimerFails, Prefill, PrefillFails,
           Decode, DecodeFails, PublishFails, Publish, Unwind, Control, callVars
  <2> QED BY <1>1, <1>3, <2>1, <2>2 DEF SerialInv
<1>4. ASSUME NEW t \in Threads,
             \/ Acquire(t) \/ Busy(t) \/ StartTimer(t) \/ TimerFails(t)
             \/ PrefillFails(t) \/ DecodeFails(t) \/ PublishFails(t) \/ Unwind(t) \/ \E c \in Call : Begin(t, c),
             UNCHANGED traceVars
      PROVE  SerialInv'
  <2>1. \A u \in Threads : pc'[u] = "decode" => pc[u] = "decode"
    BY <1>4 DEF Acquire, Busy, StartTimer, TimerFails, PrefillFails, DecodeFails, PublishFails, Unwind, Begin,
                Raise, Return, Goto, EngineInv, CallInv
  <2>2. Unpublished
    BY <1>4 DEF Unpublished
  <2> QED BY <1>3, <1>4, <2>1, <2>2 DEF SerialInv, traceVars
<1>5. ASSUME NEW t \in Threads, Prefill(t) \/ Decode(t), made' = made,
             reads' = [reads EXCEPT ![t] = IF pc[t] = "prefill" THEN Range(weights)
                                                        ELSE @ \cup Range(weights)]
      PROVE  SerialInv'
  <2>1. DOMAIN reads' = Threads /\ reads'[t] = Range(weights)
    BY <1>5 DEF SerialInv, Prefill, Decode
  <2>2. \A u \in Threads : u # t => reads'[u] = reads[u] /\ pc'[u] = pc[u]
    BY <1>5 DEF SerialInv, Prefill, Decode, Goto, EngineInv, CallInv
  <2>3. Unpublished
    BY <1>5 DEF Unpublished
  <2> QED BY <1>3, <1>5, <2>1, <2>2, <2>3 DEF SerialInv
<1>6. CASE Control /\ UNCHANGED traceVars
  <2>1. Unpublished /\ pc' = pc
    BY <1>6 DEF Unpublished, Control, callVars
  <2> QED BY <1>3, <1>6, <2>1 DEF SerialInv, traceVars
<1> QED BY <1>2, <1>4, <1>5, <1>6 DEF EngineStep

(* The invariant of serial updates is inductive.                           *)
LEMMA SerialKeeps ==
  ASSUME SerialRefit
  PROVE  RefitInv /\ EngineInv /\ SerialInv /\ [RefitNext]_allVars => SerialInv'
<1>1. ASSUME SerialInv, UNCHANGED allVars PROVE SerialInv'
  BY <1>1 DEF allVars, SerialInv
<1> QED BY <1>1, UpdateKeepsSerial, EngineKeepsSerial DEF RefitNext

(* If the caller keeps updates and turns apart, as the engine's docstring  *)
(* asks, a session's memory is of the policy that will continue it.        *)
THEOREM MemoryIsOfTheLivePolicy ==
  ASSUME SerialRefit
  PROVE  RefitSpec => []MemoryIsOfThisPolicy
<1>1. RefitInit => SerialInv
  BY DEF RefitInit, EngineInit, Init, Idle, SerialInv
<1>2. RefitInv /\ SerialInv => MemoryIsOfThisPolicy
  <2> SUFFICES ASSUME RefitInv, SerialInv, WeightsAreWhole,
                      NEW k \in DOMAIN slots, NEW i \in Range(slots[k].memory)
               PROVE  made[i] = {version}
    BY DEF MemoryIsOfThisPolicy
  <2>1. Range(weights) = {version}
    BY RefitAssumption DEF RefitInv, WeightsAreWhole, Range
  <2> QED BY <2>1 DEF SerialInv
<1> QED BY <1>1, <1>2, SerialKeeps, RefitInvariant, PTL DEF RefitSpec
=============================================================================
