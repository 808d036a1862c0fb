-------------------------- MODULE SessionGates_proofs --------------------------
(***************************************************************************)
(* Proofs about SessionGates, for any finite sets of callers and sessions. *)
(***************************************************************************)
EXTENDS SessionGates, FiniteSetTheorems, TLAPS

-----------------------------------------------------------------------------
(* Facts about the operators the module is built from.                     *)

\* A set of natural numbers that is not empty has a least element ...
LEMMA LeastExists ==
  ASSUME NEW S \in SUBSET Nat, S # {}
  PROVE  Min(S) \in S /\ \A y \in S : Min(S) <= y
<1>1. PICK x \in S : \A y \in S : <<y, x>> \notin OpToRel(<, Nat)
  BY NatLessThanWellFounded, WFMin, Zenon
<1>2. \A y \in S : ~(y < x)
  BY <1>1, Zenon DEF OpToRel
<1>3. \A y \in S : x =< y
  BY <1>2
<1> QED
  BY <1>3 DEF Min

\* ... and a greatest, if it is bounded.
LEMMA GreatestExists ==
  ASSUME NEW N \in Nat, NEW S \in SUBSET (0 .. N), S # {}
  PROVE  Max(S) \in S /\ \A y \in S : y <= Max(S)
<1> DEFINE Mirror == {n \in Nat : \E x \in S : n = N - x}
<1>1. \A x \in S : N - x \in Mirror
  OBVIOUS
<1>2. PICK m \in Mirror : \A y \in Mirror : m <= y
  <2>1. Mirror \in SUBSET Nat /\ Mirror # {}
    BY <1>1
  <2> QED
    BY <2>1, LeastExists
<1>3. PICK x \in S : m = N - x
  BY <1>2
<1>4. \A y \in S : x >= y
  <2> TAKE y \in S
  <2>1. N - x <= N - y
    BY <1>1, <1>2, <1>3
  <2> QED
    BY <2>1
<1>5. Max(S) \in S /\ \A y \in S : Max(S) >= y
  BY <1>4 DEF Max
<1> QED
  BY <1>5

\* The distinct sessions of a call come from a finite interval of positions.
LEMMA AskedIsFinite ==
  ASSUME NEW ks \in Asked
  PROVE  /\ IsFiniteSet(DOMAIN ks) /\ DOMAIN ks \subseteq Nat
         /\ Range(ks) \subseteq Keys /\ Range(ks) # {}
         /\ \A m, n \in DOMAIN ks : ks[m] = ks[n] => m = n
<1>1. Cardinality(Keys) \in Nat
  BY GatesAssumption, FS_CardinalityType
<1>2. ks # <<>> /\ IsInjective(ks) /\ ks \in SeqOf(Keys, Cardinality(Keys))
  BY DEF Asked
<1>3. PICK m \in 0 .. Cardinality(Keys) : ks \in [1 .. m -> Keys]
  BY <1>2 DEF SeqOf
<1>4. DOMAIN ks = 1 .. m
  BY <1>3
<1>5. m # 0
  BY <1>2, <1>3
<1>6. 1 \in DOMAIN ks
  BY <1>1, <1>4, <1>5
<1>7. IsFiniteSet(1 .. m)
  BY <1>1, FS_Interval
<1>8. Range(ks) \subseteq Keys /\ Range(ks) # {}
  BY <1>3, <1>4, <1>6 DEF Range
<1> QED
  BY <1>1, <1>2, <1>4, <1>7, <1>8 DEF IsInjective

\* A set that lacks something of a finite one is smaller.
LEMMA ProperIsSmaller ==
  ASSUME NEW T, IsFiniteSet(T), NEW S \in SUBSET T, NEW x \in T, x \notin S
  PROVE  /\ Cardinality(S) \in Nat /\ Cardinality(T) \in Nat
         /\ Cardinality(S) < Cardinality(T)
<1>1. IsFiniteSet(S)
  BY FS_Subset
<1>2. Cardinality(S) \in Nat /\ Cardinality(T) \in Nat
  BY <1>1, FS_CardinalityType
<1>3. Cardinality(S) <= Cardinality(T) /\ (Cardinality(S) = Cardinality(T) => S = T)
  BY FS_Subset
<1> QED
  BY <1>2, <1>3

\* A new gate whose key comes later gets a later place.
LEMMA PlacesClimb ==
  ASSUME NEW ks \in Asked, NEW k \in Missing(ks), NEW j \in Missing(ks),
         NEW kn \in DOMAIN ks, ks[kn] = k, NEW jn \in DOMAIN ks, ks[jn] = j, kn < jn
  PROVE  Place(ks, k) < Place(ks, j)
<1> DEFINE Upto(x) == {m \in DOMAIN ks : ks[m] \in Missing(ks)
                                         /\ \E n \in DOMAIN ks : m <= n /\ ks[n] = x}
<1>1. DOMAIN ks \subseteq Nat /\ IsFiniteSet(DOMAIN ks)
  BY AskedIsFinite
<1>2. IsFiniteSet(Upto(j))
  <2>1. Upto(j) \subseteq DOMAIN ks
    OBVIOUS
  <2> QED
    BY <1>1, <2>1, FS_Subset
<1>3. jn \in Upto(j)
  BY <1>1
<1>4. jn \notin Upto(k)
  <2> SUFFICES ASSUME NEW n \in DOMAIN ks, jn <= n, ks[n] = k PROVE FALSE
    OBVIOUS
  <2>1. n = kn
    BY AskedIsFinite
  <2> QED
    BY <1>1, <2>1
<1>5. Upto(k) \subseteq Upto(j)
  <2> SUFFICES ASSUME NEW m \in Upto(k) PROVE m \in Upto(j)
    OBVIOUS
  <2>1. PICK n \in DOMAIN ks : m <= n /\ ks[n] = k
    OBVIOUS
  <2>2. n = kn
    BY <2>1, AskedIsFinite
  <2>3. m <= jn
    BY <1>1, <2>1, <2>2
  <2> QED
    BY <2>3
<1>6. Place(ks, k) = Cardinality(Upto(k)) /\ Place(ks, j) = Cardinality(Upto(j))
  BY DEF Place
<1> HIDE DEF Upto
<1>7. Cardinality(Upto(k)) < Cardinality(Upto(j))
  BY <1>2, <1>3, <1>4, <1>5, ProperIsSmaller
<1> QED
  BY <1>6, <1>7

\* A new gate's place is counted from 1.
LEMMA PlaceIsPositive ==
  ASSUME NEW ks \in Asked, NEW k \in Missing(ks)
  PROVE  Place(ks, k) \in Nat \ {0}
<1> DEFINE Upto == {m \in DOMAIN ks : ks[m] \in Missing(ks)
                                      /\ \E n \in DOMAIN ks : m <= n /\ ks[n] = k}
<1>1. PICK kn \in DOMAIN ks : ks[kn] = k
  BY DEF Missing, Range
<1>2. DOMAIN ks \subseteq Nat /\ IsFiniteSet(DOMAIN ks)
  BY AskedIsFinite
<1>3. IsFiniteSet(Upto) /\ {} \subseteq Upto
  BY <1>2, FS_Subset
<1>4. kn \in Upto
  BY <1>1, <1>2
<1>5. Place(ks, k) = Cardinality(Upto)
  BY DEF Place
<1> HIDE DEF Upto
<1>6. Cardinality({}) < Cardinality(Upto) /\ Cardinality(Upto) \in Nat /\ Cardinality({}) = 0
  BY <1>3, <1>4, ProperIsSmaller, FS_EmptySet
<1> QED
  BY <1>5, <1>6

\* The new gates of one call get different places.
LEMMA PlacesDiffer ==
  ASSUME NEW ks \in Asked, NEW k \in Missing(ks), NEW j \in Missing(ks),
         Place(ks, k) = Place(ks, j)
  PROVE  k = j
<1>1. PICK kn \in DOMAIN ks : ks[kn] = k
  BY DEF Missing, Range
<1>2. PICK jn \in DOMAIN ks : ks[jn] = j
  BY DEF Missing, Range
<1>3. kn \in Nat /\ jn \in Nat
  BY AskedIsFinite
<1>4. Place(ks, k) \in Nat /\ Place(ks, j) \in Nat
  BY PlaceIsPositive
<1>5. ~(kn < jn)
  BY <1>1, <1>2, <1>4, PlacesClimb
<1>6. ~(jn < kn)
  BY <1>1, <1>2, <1>4, PlacesClimb
<1>7. kn = jn
  BY <1>3, <1>5, <1>6
<1> QED
  BY <1>1, <1>2, <1>7

-----------------------------------------------------------------------------
(* The inductive invariant.  OneCallPerSession needs that a gate that      *)
(* somebody is counted in is never dropped, so users must be the true      *)
(* count; WaitsClimb needs that gates are locked from the lowest up.       *)

GateTypes ==
  /\ DOMAIN gates \subseteq Order
  /\ gates \in [DOMAIN gates -> [users : Nat, owner : Callers \cup {Nobody}]]
  /\ DOMAIN session_gates \subseteq Keys
  /\ session_gates \in [DOMAIN session_gates -> DOMAIN gates]
  /\ pc \in [Callers -> {"idle", "acquire", "body", "release"}]
  /\ asked \in [Callers -> Asked \cup {<<>>}]
  /\ entries \in [Callers -> SUBSET DOMAIN gates]

\* No two sessions share a gate.
OneGateEach ==
  \A k, j \in DOMAIN session_gates : session_gates[k] = session_gates[j] => k = j

\* The calls that are counted in gate g.
UsersOf(g) == {c \in Callers : g \in entries[c]}

UsersAreCounted == \A g \in DOMAIN gates : gates[g].users = Cardinality(UsersOf(g))

\* A gate is locked only by a call that is counted in it.
OwnersAreUsers ==
  \A g \in DOMAIN gates : gates[g].owner # Nobody => g \in entries[gates[g].owner]

PhaseFits(c) ==
  /\ pc[c] = "idle" => asked[c] = <<>>
  /\ pc[c] = "acquire" => \A g \in Acquired(c), h \in entries[c] \ Acquired(c) : g < h
  /\ pc[c] = "body" => entries[c] = Acquired(c)

GatesInv ==
  /\ GateTypes
  /\ GatesAreThoseInUse
  /\ OneGateEach
  /\ UsersAreCounted
  /\ OwnersAreUsers
  /\ \A c \in Callers : PhaseFits(c)

LEMMA InitEstablishes ==
  ASSUME GatesInit
  PROVE  GatesInv
<1>1. GateTypes
  BY DEF GatesInit, GateTypes
<1>2. GatesAreThoseInUse
  BY DEF GatesInit, GatesAreThoseInUse, Range
<1>3. OneGateEach /\ UsersAreCounted /\ OwnersAreUsers
  BY DEF GatesInit, OneGateEach, UsersAreCounted, OwnersAreUsers
<1>4. \A c \in Callers : PhaseFits(c)
  BY DEF GatesInit, PhaseFits
<1> QED
  BY <1>1, <1>2, <1>3, <1>4 DEF GatesInv

\* Every caller's lists are finite, and so is the set of calls in a gate.
LEMMA UsersAreFinite ==
  ASSUME NEW g
  PROVE  IsFiniteSet(UsersOf(g)) /\ Cardinality(UsersOf(g)) \in Nat
BY GatesAssumption, FS_Subset, FS_CardinalityType DEF UsersOf

\* An idle call is counted nowhere and owns nothing.
LEMMA IdleHasNothing ==
  ASSUME GatesInv, NEW c \in Callers, pc[c] = "idle"
  PROVE  entries[c] = {} /\ Acquired(c) = {} /\ Range(asked[c]) = {}
<1>1. asked[c] = <<>>
  BY DEF GatesInv, PhaseFits
<1>2. Range(asked[c]) = {}
  BY <1>1 DEF Range
<1> QED
  BY <1>2 DEF GatesInv, GatesAreThoseInUse, Acquired

\* A new gate comes after every gate there is, and they are all different.
LEMMA WithGatesFits ==
  ASSUME GatesInv, NEW ks \in Asked
  PROVE  /\ DOMAIN WithGates(ks) = DOMAIN session_gates \cup Range(ks)
         /\ \A k \in DOMAIN session_gates : WithGates(ks)[k] = session_gates[k]
         /\ \A k \in Missing(ks) : WithGates(ks)[k] \in Nat \ DOMAIN gates
         /\ \A k, j \in DOMAIN WithGates(ks) : WithGates(ks)[k] = WithGates(ks)[j] => k = j
<1>1. LastOrder \in Nat /\ \A g \in DOMAIN gates : g <= LastOrder
  <2> DEFINE S == {0} \cup DOMAIN gates
  <2>1. MaxGates \in Nat /\ S \in SUBSET (0 .. MaxGates) /\ S # {}
    BY GatesAssumption DEF GatesInv, GateTypes, Order
  <2>2. Max(S) \in S /\ \A y \in S : y <= Max(S)
    BY <2>1, GreatestExists
  <2> QED
    BY <2>1, <2>2 DEF LastOrder
<1>2. DOMAIN gates \subseteq Nat
  BY GatesAssumption DEF GatesInv, GateTypes, Order
<1>3. DOMAIN WithGates(ks) = DOMAIN session_gates \cup Range(ks)
  BY DEF WithGates
<1>4. \A k \in DOMAIN session_gates : WithGates(ks)[k] = session_gates[k]
  BY DEF WithGates, Missing
<1>5. \A k \in Missing(ks) : WithGates(ks)[k] = LastOrder + Place(ks, k)
  BY DEF WithGates, Missing
<1>6. \A k \in Missing(ks) : Place(ks, k) \in Nat \ {0}
  BY PlaceIsPositive
<1>7. \A k \in Missing(ks) : WithGates(ks)[k] \in Nat \ DOMAIN gates
  BY <1>1, <1>2, <1>5, <1>6
<1>8. DOMAIN WithGates(ks) = DOMAIN session_gates \cup Missing(ks)
  BY <1>3 DEF Missing
<1>9. \A k \in DOMAIN session_gates : session_gates[k] \in DOMAIN gates
  BY DEF GatesInv, GateTypes
<1>10. \A k, j \in Missing(ks) : WithGates(ks)[k] = WithGates(ks)[j] => k = j
  BY <1>1, <1>5, <1>6, PlacesDiffer
<1>11. \A k, j \in DOMAIN WithGates(ks) : WithGates(ks)[k] = WithGates(ks)[j] => k = j
  BY <1>4, <1>7, <1>8, <1>9, <1>10 DEF GatesInv, OneGateEach
<1> QED
  BY <1>3, <1>4, <1>7, <1>11

-----------------------------------------------------------------------------
(* Every step of a call preserves the invariant.                           *)

\* The next gate of a call that still lacks one.
LEMMA NextGateIsNext ==
  ASSUME GatesInv, NEW c \in Callers, entries[c] # Acquired(c)
  PROVE  /\ NextGate(c) \in entries[c] \ Acquired(c)
         /\ \A h \in entries[c] \ Acquired(c) : NextGate(c) <= h
         /\ entries[c] \subseteq DOMAIN gates /\ DOMAIN gates \subseteq Nat
<1>1. entries[c] \subseteq DOMAIN gates /\ DOMAIN gates \subseteq Nat
  BY GatesAssumption DEF GatesInv, GateTypes, Order
<1>2. entries[c] \ Acquired(c) # {}
  BY DEF Acquired
<1>3. entries[c] \ Acquired(c) \in SUBSET Nat
  BY <1>1
<1> QED
  BY <1>1, <1>2, <1>3, LeastExists DEF NextGate

LEMMA AcquirePreserves ==
  ASSUME GatesInv, NEW c \in Callers, Acquire(c)
  PROVE  GatesInv'
<1> DEFINE n == NextGate(c)
<1>1. /\ n \in entries[c] \ Acquired(c) /\ \A h \in entries[c] \ Acquired(c) : n <= h
      /\ entries[c] \subseteq DOMAIN gates /\ DOMAIN gates \subseteq Nat
  BY NextGateIsNext DEF Acquire
<1> HIDE DEF n
<1>2. /\ pc[c] = "acquire" /\ gates[n].owner = Nobody
      /\ gates' = [gates EXCEPT ![n].owner = c]
      /\ UNCHANGED <<session_gates, pc, asked, entries>>
  BY DEF Acquire, n
<1>3. gates \in [DOMAIN gates -> [users : Nat, owner : Callers \cup {Nobody}]]
  BY DEF GatesInv, GateTypes
<1>4. DOMAIN gates' = DOMAIN gates
  BY <1>2
<1>5. /\ gates'[n].owner = c /\ \A g \in DOMAIN gates : g # n => gates'[g] = gates[g]
      /\ \A g \in DOMAIN gates : gates'[g].users = gates[g].users
      /\ gates' \in [DOMAIN gates -> [users : Nat, owner : Callers \cup {Nobody}]]
  BY <1>1, <1>2, <1>3
<1>6. GateTypes'
  BY <1>2, <1>4, <1>5 DEF GatesInv, GateTypes
<1>7. GatesAreThoseInUse' /\ OneGateEach'
  BY <1>2 DEF GatesInv, GatesAreThoseInUse, OneGateEach
<1>8. UsersAreCounted'
  BY <1>2, <1>4, <1>5 DEF GatesInv, UsersAreCounted, UsersOf
<1>9. OwnersAreUsers'
  <2> SUFFICES ASSUME NEW g \in DOMAIN gates, gates'[g].owner # Nobody
               PROVE  g \in entries[gates'[g].owner]
    BY <1>2, <1>4 DEF OwnersAreUsers
  <2>1. CASE g = n
    BY <2>1, <1>1, <1>5
  <2>2. CASE g # n
    BY <2>2, <1>5 DEF GatesInv, OwnersAreUsers
  <2> QED
    BY <2>1, <2>2
<1>10. Acquired(c)' = Acquired(c) \cup {n}
  BY <1>1, <1>2, <1>5 DEF Acquired
<1>11. ASSUME NEW d \in Callers, d # c PROVE Acquired(d)' = Acquired(d)
  <2>1. entries[d] \subseteq DOMAIN gates
    BY DEF GatesInv, GateTypes
  <2>2. gates[n].owner # d /\ gates'[n].owner # d
    BY <1>2, <1>5, <1>11, GatesAssumption
  <2> QED
    BY <1>2, <1>5, <2>1, <2>2 DEF Acquired
<1>12. ASSUME NEW d \in Callers PROVE PhaseFits(d)'
  <2>1. CASE d # c
    BY <2>1, <1>2, <1>11 DEF GatesInv, PhaseFits
  <2>2. CASE d = c
    <3>1. \A g \in Acquired(c), h \in entries[c] \ Acquired(c) : g < h
      BY <1>2 DEF GatesInv, PhaseFits
    <3>2. \A g \in Acquired(c)', h \in entries[c] \ Acquired(c)' : g < h
      BY <1>1, <1>10, <3>1
    <3> QED
      BY <2>2, <1>2, <3>2 DEF PhaseFits
  <2> QED
    BY <2>1, <2>2
<1> QED
  BY <1>6, <1>7, <1>8, <1>9, <1>12 DEF GatesInv

\* Steps that only move the call on.
LEMMA MovePreserves ==
  ASSUME GatesInv, NEW c \in Callers, Enter(c) \/ Leave(c)
  PROVE  GatesInv'
<1>1. UNCHANGED <<session_gates, gates, asked, entries>>
  BY DEF Enter, Leave
<1>2. pc' \in [Callers -> {"idle", "acquire", "body", "release"}]
  BY DEF GatesInv, GateTypes, Enter, Leave, Goto
<1>3. GateTypes'
  BY <1>1, <1>2 DEF GatesInv, GateTypes
<1>4. GatesAreThoseInUse' /\ OneGateEach' /\ UsersAreCounted' /\ OwnersAreUsers'
  BY <1>1 DEF GatesInv, GatesAreThoseInUse, OneGateEach, UsersAreCounted, UsersOf, OwnersAreUsers
<1>5. \A d \in Callers : Acquired(d)' = Acquired(d)
  BY <1>1 DEF Acquired
<1>6. \A d \in Callers : d # c => pc'[d] = pc[d]
  BY DEF GatesInv, GateTypes, Enter, Leave, Goto
<1>7. \/ pc'[c] = "body" /\ entries[c] = Acquired(c)
      \/ pc'[c] = "release"
  BY DEF GatesInv, GateTypes, Enter, Leave, Goto
<1>8. \A d \in Callers : PhaseFits(d)'
  BY <1>1, <1>5, <1>6, <1>7 DEF GatesInv, PhaseFits
<1> QED
  BY <1>3, <1>4, <1>8 DEF GatesInv

LEMMA ReleasePreserves ==
  ASSUME GatesInv, NEW c \in Callers, Release(c)
  PROVE  GatesInv'
<1> DEFINE n == Max(Acquired(c))
<1>1. n \in Acquired(c)
  <2>1. Acquired(c) \in SUBSET (0 .. MaxGates)
    BY GatesAssumption DEF GatesInv, GateTypes, Order, Acquired
  <2> QED
    BY <2>1, GatesAssumption, GreatestExists DEF Release
<1> HIDE DEF n
<1>2. /\ pc[c] = "release" /\ gates' = [gates EXCEPT ![n].owner = Nobody]
      /\ UNCHANGED <<session_gates, pc, asked, entries>>
  BY DEF Release, n
<1>3. gates \in [DOMAIN gates -> [users : Nat, owner : Callers \cup {Nobody}]]
  BY DEF GatesInv, GateTypes
<1>4. n \in DOMAIN gates /\ gates[n].owner = c /\ n \in entries[c]
  BY <1>1 DEF Acquired, GatesInv, GateTypes
<1>5. DOMAIN gates' = DOMAIN gates
  BY <1>2
<1>6. /\ gates'[n].owner = Nobody /\ \A g \in DOMAIN gates : g # n => gates'[g] = gates[g]
      /\ \A g \in DOMAIN gates : gates'[g].users = gates[g].users
      /\ gates' \in [DOMAIN gates -> [users : Nat, owner : Callers \cup {Nobody}]]
  BY <1>2, <1>3, <1>4
<1>7. GateTypes'
  BY <1>2, <1>5, <1>6 DEF GatesInv, GateTypes
<1>8. GatesAreThoseInUse' /\ OneGateEach'
  BY <1>2 DEF GatesInv, GatesAreThoseInUse, OneGateEach
<1>9. UsersAreCounted'
  BY <1>2, <1>5, <1>6 DEF GatesInv, UsersAreCounted, UsersOf
<1>10. OwnersAreUsers'
  BY <1>2, <1>5, <1>6 DEF GatesInv, OwnersAreUsers
<1>11. ASSUME NEW d \in Callers, d # c PROVE Acquired(d)' = Acquired(d)
  <2>1. entries[d] \subseteq DOMAIN gates
    BY DEF GatesInv, GateTypes
  <2>2. gates[n].owner # d /\ gates'[n].owner # d
    BY <1>4, <1>6, <1>11, GatesAssumption
  <2> QED
    BY <1>2, <1>6, <2>1, <2>2 DEF Acquired
<1>12. \A d \in Callers : PhaseFits(d)'
  BY <1>2, <1>11 DEF GatesInv, PhaseFits
<1> QED
  BY <1>7, <1>8, <1>9, <1>10, <1>12 DEF GatesInv

\* The count of a gate, which is 0 if the gate does not exist.
LEMMA GateAtFits ==
  ASSUME GatesInv, NEW g
  PROVE  /\ GateAt(g) \in [users : Nat, owner : Callers \cup {Nobody}]
         /\ GateAt(g).users = Cardinality(UsersOf(g))
         /\ GateAt(g).owner # Nobody => g \in entries[GateAt(g).owner]
         /\ g \in DOMAIN gates => GateAt(g) = gates[g]
<1>1. CASE g \in DOMAIN gates
  BY <1>1 DEF GatesInv, GateTypes, UsersAreCounted, OwnersAreUsers, GateAt
<1>2. CASE g \notin DOMAIN gates
  <2>1. UsersOf(g) = {}
    BY <1>2 DEF GatesInv, GateTypes, UsersOf
  <2>2. GateAt(g) = [users |-> 0, owner |-> Nobody]
    BY <1>2 DEF GateAt
  <2> QED
    BY <1>2, <2>1, <2>2, FS_EmptySet
<1> QED
  BY <1>1, <1>2

LEMMA RegisterPreserves ==
  ASSUME GatesInv, NEW c \in Callers, NEW ks \in Asked, Register(c, ks)
  PROVE  GatesInv'
<1> DEFINE mine == {WithGates(ks)[k] : k \in Range(ks)}
<1>1. entries[c] = {} /\ Acquired(c) = {} /\ Range(asked[c]) = {}
  BY IdleHasNothing DEF Register
<1>2. /\ mine \subseteq Order /\ session_gates' = WithGates(ks)
      /\ entries' = [entries EXCEPT ![c] = mine]
      /\ asked' = [asked EXCEPT ![c] = ks] /\ pc' = [pc EXCEPT ![c] = "acquire"]
  BY DEF Register, Goto
<1>3. gates' = [g \in DOMAIN gates \cup mine |->
                  [GateAt(g) EXCEPT !.users = IF g \in mine THEN GateAt(g).users + 1
                                                            ELSE GateAt(g).users]]
  BY DEF Register
<1>4. /\ DOMAIN session_gates' = DOMAIN session_gates \cup Range(ks)
      /\ \A k \in DOMAIN session_gates : session_gates'[k] = session_gates[k]
      /\ mine = {session_gates'[k] : k \in Range(ks)}
  BY <1>2, WithGatesFits
<1>5. OneGateEach'
  BY <1>2, WithGatesFits DEF OneGateEach
<1>6. /\ GateTypes /\ GatesAreThoseInUse /\ Range(ks) \subseteq Keys
  BY AskedIsFinite DEF GatesInv
<1>7. /\ entries'[c] = mine /\ asked'[c] = ks /\ pc'[c] = "acquire"
      /\ \A d \in Callers : d # c => /\ entries'[d] = entries[d]
                                     /\ asked'[d] = asked[d] /\ pc'[d] = pc[d]
  BY <1>2, <1>6 DEF GateTypes
<1> HIDE DEF mine
<1>8. DOMAIN gates' = DOMAIN gates \cup mine
  BY <1>3
<1>9. ASSUME NEW g \in DOMAIN gates'
      PROVE  /\ gates'[g].users = GateAt(g).users + (IF g \in mine THEN 1 ELSE 0)
             /\ gates'[g].owner = GateAt(g).owner
             /\ gates'[g] \in [users : Nat, owner : Callers \cup {Nobody}]
  <2>1. gates'[g] = [GateAt(g) EXCEPT !.users = IF g \in mine THEN GateAt(g).users + 1
                                                              ELSE GateAt(g).users]
    BY <1>3, <1>8, <1>9
  <2>2. GateAt(g) \in [users : Nat, owner : Callers \cup {Nobody}]
    BY GateAtFits
  <2> QED
    BY <2>1, <2>2
<1>10. GateTypes'
  <2>1. gates' \in [DOMAIN gates' -> [users : Nat, owner : Callers \cup {Nobody}]]
    <3>1. gates' = [g \in DOMAIN gates' |-> gates'[g]]
      BY <1>3
    <3> QED
      BY <1>9, <3>1
  <2>2. session_gates' \in [DOMAIN session_gates' -> DOMAIN gates']
    <3>1. \A k \in DOMAIN session_gates' : session_gates'[k] \in DOMAIN gates'
      BY <1>4, <1>6, <1>8 DEF GateTypes
    <3>2. session_gates' = [k \in DOMAIN session_gates' |-> session_gates'[k]]
      BY <1>2 DEF WithGates
    <3> QED
      BY <3>1, <3>2
  <2>3. /\ pc' \in [Callers -> {"idle", "acquire", "body", "release"}]
        /\ asked' \in [Callers -> Asked \cup {<<>>}]
        /\ entries' \in [Callers -> SUBSET DOMAIN gates']
    BY <1>2, <1>6, <1>8 DEF GateTypes
  <2>4. DOMAIN gates' \subseteq Order /\ DOMAIN session_gates' \subseteq Keys
    BY <1>2, <1>4, <1>6, <1>8 DEF GateTypes
  <2> QED
    BY <2>1, <2>2, <2>3, <2>4 DEF GateTypes, Order
<1>11. GatesAreThoseInUse'
  <2>1. UNION {Range(asked'[d]) : d \in Callers} = Range(ks) \cup UNION {Range(asked[d]) : d \in Callers}
    BY <1>1, <1>7
  <2>2. \A d \in Callers : entries'[d] = {session_gates'[k] : k \in Range(asked'[d])}
    <3> TAKE d \in Callers
    <3>1. CASE d = c
      BY <3>1, <1>4, <1>7
    <3>2. CASE d # c
      <4>1. Range(asked[d]) \subseteq DOMAIN session_gates
        BY <1>6 DEF GatesAreThoseInUse
      <4> QED
        BY <3>2, <4>1, <1>4, <1>6, <1>7 DEF GatesAreThoseInUse
    <3> QED
      BY <3>1, <3>2
  <2> QED
    BY <2>1, <2>2, <1>4, <1>6 DEF GatesAreThoseInUse, Range
<1>12. UsersAreCounted'
  <2> SUFFICES ASSUME NEW g \in DOMAIN gates'
               PROVE  gates'[g].users = Cardinality(UsersOf(g)')
    BY DEF UsersAreCounted
  <2>1. c \notin UsersOf(g) /\ IsFiniteSet(UsersOf(g)) /\ Cardinality(UsersOf(g)) \in Nat
    BY <1>1, UsersAreFinite DEF UsersOf
  <2>2. CASE g \in mine
    <3>1. UsersOf(g)' = UsersOf(g) \cup {c}
      BY <2>2, <1>7 DEF UsersOf
    <3>2. Cardinality(UsersOf(g)') = Cardinality(UsersOf(g)) + 1
      BY <2>1, <3>1, FS_AddElement
    <3>3. gates'[g].users = GateAt(g).users + 1
      BY <1>9, <2>2
    <3> QED
      BY <3>2, <3>3, GateAtFits
  <2>3. CASE g \notin mine
    <3>1. UsersOf(g)' = UsersOf(g)
      BY <2>3, <1>1, <1>7 DEF UsersOf
    <3> QED
      BY <2>1, <2>3, <3>1, <1>9, GateAtFits
  <2> QED
    BY <2>2, <2>3
<1>13. OwnersAreUsers'
  <2> SUFFICES ASSUME NEW g \in DOMAIN gates', gates'[g].owner # Nobody
               PROVE  g \in entries'[gates'[g].owner]
    BY DEF OwnersAreUsers
  <2> QED
    BY <1>1, <1>7, <1>9, GateAtFits
<1>14. Acquired(c)' = {}
  <2> SUFFICES ASSUME NEW g \in mine, gates'[g].owner = c PROVE FALSE
    BY <1>7 DEF Acquired
  <2> QED
    BY <1>1, <1>8, <1>9, GateAtFits, GatesAssumption
<1>15. ASSUME NEW d \in Callers, d # c PROVE Acquired(d)' = Acquired(d)
  <2>1. \A g \in entries[d] : gates'[g].owner = gates[g].owner
    BY <1>6, <1>8, <1>9, GateAtFits DEF GateTypes
  <2> QED
    BY <1>7, <1>15, <2>1 DEF Acquired
<1>16. ASSUME NEW d \in Callers PROVE PhaseFits(d)'
  <2>1. CASE d = c
    BY <2>1, <1>7, <1>14 DEF PhaseFits
  <2>2. CASE d # c
    BY <2>2, <1>7, <1>15 DEF GatesInv, PhaseFits
  <2> QED
    BY <2>1, <2>2
<1> QED
  BY <1>5, <1>10, <1>11, <1>12, <1>13, <1>16 DEF GatesInv

LEMMA DeregisterPreserves ==
  ASSUME GatesInv, NEW c \in Callers, Deregister(c)
  PROVE  GatesInv'
<1> DEFINE unused == {g \in entries[c] : Uncounted(c)[g].users = 0}
<1>1. /\ pc[c] = "release" /\ Acquired(c) = {}
      /\ gates' = [g \in DOMAIN gates \ unused |-> Uncounted(c)[g]]
      /\ session_gates' = [k \in {k \in DOMAIN session_gates : session_gates[k] \notin unused} |->
                             session_gates[k]]
      /\ asked' = [asked EXCEPT ![c] = <<>>] /\ entries' = [entries EXCEPT ![c] = {}]
      /\ pc' = [pc EXCEPT ![c] = "idle"]
  BY DEF Deregister, Restrict, Goto
<1>2. GateTypes /\ GatesAreThoseInUse /\ OneGateEach /\ UsersAreCounted /\ OwnersAreUsers
  BY DEF GatesInv
<1>3. ASSUME NEW g \in DOMAIN gates
      PROVE  /\ Uncounted(c)[g].owner = gates[g].owner
             /\ Uncounted(c)[g].users = Cardinality(UsersOf(g) \ {c})
             /\ Uncounted(c)[g] \in [users : Nat, owner : Callers \cup {Nobody}]
  <2>1. Uncounted(c)[g] = [gates[g] EXCEPT !.users = IF g \in entries[c] THEN gates[g].users - 1
                                                                         ELSE gates[g].users]
    BY DEF Uncounted
  <2>2. gates[g] \in [users : Nat, owner : Callers \cup {Nobody}]
    BY <1>2 DEF GateTypes
  <2>3. gates[g].users = Cardinality(UsersOf(g))
    BY <1>2 DEF UsersAreCounted
  <2>4. IsFiniteSet(UsersOf(g) \ {c}) /\ IsFiniteSet(UsersOf(g))
    BY UsersAreFinite, FS_Subset
  <2>5. Cardinality(UsersOf(g) \ {c}) \in Nat /\ Cardinality(UsersOf(g)) \in Nat
    BY <2>4, FS_CardinalityType
  <2>6. CASE g \in entries[c]
    <3>1. c \in UsersOf(g)
      BY <2>6 DEF UsersOf
    <3>2. Cardinality(UsersOf(g) \ {c}) = Cardinality(UsersOf(g)) - 1
      BY <2>4, <3>1, FS_RemoveElement
    <3> QED
      BY <2>1, <2>2, <2>3, <2>5, <2>6, <3>2
  <2>7. CASE g \notin entries[c]
    <3>1. UsersOf(g) \ {c} = UsersOf(g)
      BY <2>7 DEF UsersOf
    <3> QED
      BY <2>1, <2>2, <2>3, <2>5, <2>7, <3>1
  <2> QED
    BY <2>6, <2>7
<1>4. ASSUME NEW g \in entries[c]
      PROVE  g \in unused <=> \A d \in Callers : g \in entries[d] => d = c
  <2>1. g \in DOMAIN gates
    BY <1>2 DEF GateTypes
  <2>2. IsFiniteSet(UsersOf(g) \ {c})
    BY UsersAreFinite, FS_Subset
  <2>3. g \in unused <=> UsersOf(g) \ {c} = {}
    BY <1>3, <2>1, <2>2, FS_EmptySet
  <2> QED
    BY <2>3 DEF UsersOf
<1>5. unused \subseteq entries[c]
  OBVIOUS
<1> HIDE DEF unused
<1>6. /\ DOMAIN gates' = DOMAIN gates \ unused
      /\ DOMAIN session_gates' = {k \in DOMAIN session_gates : session_gates[k] \notin unused}
      /\ \A g \in DOMAIN gates' : gates'[g] = Uncounted(c)[g]
      /\ \A k \in DOMAIN session_gates' : session_gates'[k] = session_gates[k]
  BY <1>1
<1>7. /\ entries'[c] = {} /\ asked'[c] = <<>> /\ pc'[c] = "idle"
      /\ \A d \in Callers : d # c => /\ entries'[d] = entries[d]
                                     /\ asked'[d] = asked[d] /\ pc'[d] = pc[d]
  BY <1>1, <1>2 DEF GateTypes
<1>8. ASSUME NEW d \in Callers, d # c PROVE entries[d] \subseteq DOMAIN gates'
  BY <1>2, <1>4, <1>5, <1>6, <1>8 DEF GateTypes
<1>9. GateTypes'
  <2>1. gates' \in [DOMAIN gates' -> [users : Nat, owner : Callers \cup {Nobody}]]
    BY <1>1, <1>3, <1>6
  <2>2. session_gates' \in [DOMAIN session_gates' -> DOMAIN gates']
    BY <1>1, <1>2, <1>6 DEF GateTypes
  <2>3. entries' \in [Callers -> SUBSET DOMAIN gates']
    <3>1. \A d \in Callers : entries'[d] \subseteq DOMAIN gates'
      BY <1>7, <1>8
    <3> QED
      BY <1>1, <1>2, <3>1 DEF GateTypes
  <2>4. /\ pc' \in [Callers -> {"idle", "acquire", "body", "release"}]
        /\ asked' \in [Callers -> Asked \cup {<<>>}]
    BY <1>1, <1>2 DEF GateTypes
  <2>5. DOMAIN gates' \subseteq Order /\ DOMAIN session_gates' \subseteq Keys
    BY <1>2, <1>6 DEF GateTypes
  <2> QED
    BY <2>1, <2>2, <2>3, <2>4, <2>5 DEF GateTypes, Order
<1>10. GatesAreThoseInUse'
  <2>1. Range(asked'[c]) = {}
    BY <1>7 DEF Range
  <2>2. ASSUME NEW d \in Callers, d # c, NEW k \in Range(asked[d])
        PROVE  k \in DOMAIN session_gates'
    <3>1. k \in DOMAIN session_gates /\ session_gates[k] \in entries[d]
      BY <1>2 DEF GatesAreThoseInUse
    <3>2. session_gates[k] \notin unused
      BY <2>2, <3>1, <1>4, <1>5
    <3> QED
      BY <1>6, <3>1, <3>2
  <2>3. ASSUME NEW k \in DOMAIN session_gates'
        PROVE  \E d \in Callers : d # c /\ k \in Range(asked[d])
    <3>1. k \in DOMAIN session_gates /\ session_gates[k] \notin unused
      BY <1>6
    <3>2. PICK e \in Callers : k \in Range(asked[e])
      BY <1>2, <3>1 DEF GatesAreThoseInUse
    <3>3. CASE e # c
      BY <3>2, <3>3
    <3>4. CASE e = c
      <4>1. session_gates[k] \in entries[c]
        BY <1>2, <3>2, <3>4 DEF GatesAreThoseInUse
      <4>2. PICK d \in Callers : d # c /\ session_gates[k] \in entries[d]
        BY <1>4, <3>1, <4>1
      <4>3. PICK j \in Range(asked[d]) : session_gates[k] = session_gates[j]
        BY <1>2, <4>2 DEF GatesAreThoseInUse
      <4>4. j \in DOMAIN session_gates
        BY <1>2 DEF GatesAreThoseInUse
      <4>5. j = k
        BY <1>2, <3>1, <4>3, <4>4 DEF OneGateEach
      <4> QED
        BY <4>2, <4>5
    <3> QED
      BY <3>3, <3>4
  <2>4. DOMAIN session_gates' = UNION {Range(asked'[d]) : d \in Callers}
    BY <1>7, <2>1, <2>2, <2>3
  <2>5. \A d \in Callers : entries'[d] = {session_gates'[k] : k \in Range(asked'[d])}
    <3> TAKE d \in Callers
    <3>1. CASE d = c
      BY <1>7, <2>1, <3>1
    <3>2. CASE d # c
      <4>1. \A k \in Range(asked[d]) : session_gates'[k] = session_gates[k]
        BY <1>6, <2>2, <3>2
      <4>2. entries[d] = {session_gates[k] : k \in Range(asked[d])}
        BY <1>2 DEF GatesAreThoseInUse
      <4> QED
        BY <1>7, <3>2, <4>1, <4>2
    <3> QED
      BY <3>1, <3>2
  <2> QED
    BY <2>4, <2>5 DEF GatesAreThoseInUse, Range
<1>11. OneGateEach'
  BY <1>2, <1>6 DEF OneGateEach
<1>12. UsersAreCounted'
  <2> SUFFICES ASSUME NEW g \in DOMAIN gates'
               PROVE  gates'[g].users = Cardinality(UsersOf(g)')
    BY DEF UsersAreCounted
  <2>1. UsersOf(g)' = UsersOf(g) \ {c}
    BY <1>7 DEF UsersOf
  <2> QED
    BY <1>3, <1>6, <2>1
<1>13. OwnersAreUsers'
  <2> SUFFICES ASSUME NEW g \in DOMAIN gates', gates'[g].owner # Nobody
               PROVE  g \in entries'[gates'[g].owner]
    BY DEF OwnersAreUsers
  <2>1. g \in DOMAIN gates /\ gates'[g].owner = gates[g].owner
    BY <1>3, <1>6
  <2>2. gates[g].owner \in Callers /\ g \in entries[gates[g].owner]
    BY <1>2, <2>1 DEF GateTypes, OwnersAreUsers
  <2>3. gates[g].owner # c
    BY <1>1, <2>2 DEF Acquired
  <2> QED
    BY <1>7, <2>1, <2>2, <2>3
<1>14. ASSUME NEW d \in Callers, d # c PROVE Acquired(d)' = Acquired(d)
  <2>1. \A g \in entries[d] : gates'[g].owner = gates[g].owner
    BY <1>2, <1>3, <1>6, <1>8, <1>14
  <2> QED
    BY <1>7, <1>14, <2>1 DEF Acquired
<1>15. ASSUME NEW d \in Callers PROVE PhaseFits(d)'
  <2>1. CASE d = c
    BY <2>1, <1>7 DEF PhaseFits
  <2>2. CASE d # c
    BY <2>2, <1>7, <1>14 DEF GatesInv, PhaseFits
  <2> QED
    BY <2>1, <2>2
<1> QED
  BY <1>9, <1>10, <1>11, <1>12, <1>13, <1>15 DEF GatesInv

LEMMA StutterPreserves ==
  ASSUME GatesInv, UNCHANGED gateVars
  PROVE  GatesInv'
BY DEF gateVars, GatesInv, GateTypes, GatesAreThoseInUse, OneGateEach, UsersAreCounted, UsersOf,
       OwnersAreUsers, PhaseFits, Acquired

LEMMA StepPreserves ==
  ASSUME GatesInv, [GatesNext]_gateVars
  PROVE  GatesInv'
<1>1. CASE UNCHANGED gateVars
  BY <1>1, StutterPreserves
<1>2. ASSUME NEW c \in Callers, NEW ks \in Asked, Register(c, ks) PROVE GatesInv'
  BY <1>2, RegisterPreserves
<1>3. ASSUME NEW c \in Callers, GateStep(c) PROVE GatesInv'
  BY <1>3, AcquirePreserves, MovePreserves, ReleasePreserves, DeregisterPreserves DEF GateStep
<1>4. ASSUME NEW c \in Callers, Leave(c) PROVE GatesInv'
  BY <1>4, MovePreserves
<1> QED
  BY <1>1, <1>2, <1>3, <1>4 DEF GatesNext

-----------------------------------------------------------------------------
(* What the invariant gives.                                               *)

LEMMA InvExcludes ==
  ASSUME GatesInv
  PROVE  OneCallPerSession
<1> SUFFICES ASSUME NEW k \in Keys, NEW c \in Inside(k), NEW d \in Inside(k)
             PROVE  c = d
  BY DEF OneCallPerSession
<1>1. ASSUME NEW e \in Inside(k) PROVE gates[session_gates[k]].owner = e
  <2>1. e \in Callers /\ pc[e] = "body" /\ k \in Range(asked[e])
    BY DEF Inside
  <2>2. session_gates[k] \in entries[e]
    BY <2>1 DEF GatesInv, GatesAreThoseInUse
  <2>3. entries[e] = Acquired(e)
    BY <2>1 DEF GatesInv, PhaseFits
  <2> QED
    BY <2>2, <2>3 DEF Acquired
<1> QED
  BY <1>1

LEMMA InvClimbs ==
  ASSUME GatesInv
  PROVE  WaitsClimb
<1> SUFFICES ASSUME NEW c \in Callers, Waiting(c), Waiting(Blocker(c))
             PROVE  NextGate(Blocker(c)) > NextGate(c)
  BY DEF WaitsClimb
<1> DEFINE b == Blocker(c)
<1>1. NextGate(c) \in DOMAIN gates /\ NextGate(c) \in Nat
  BY NextGateIsNext DEF Waiting
<1>2. b \in Callers
  BY <1>1 DEF Waiting, Blocker, GatesInv, GateTypes
<1>3. NextGate(c) \in Acquired(b)
  BY <1>1 DEF Waiting, Blocker, Acquired, GatesInv, OwnersAreUsers
<1>4. NextGate(b) \in entries[b] \ Acquired(b) /\ NextGate(b) \in Nat
  BY <1>2, NextGateIsNext DEF Waiting
<1>5. NextGate(c) < NextGate(b)
  BY <1>2, <1>3, <1>4 DEF Waiting, GatesInv, PhaseFits
<1> QED
  BY <1>1, <1>4, <1>5

\* The invariant holds throughout.
THEOREM GatesInvariant == GatesSpec => []GatesInv
<1>1. GatesInit => GatesInv
  BY InitEstablishes
<1>2. GatesInv /\ [GatesNext]_gateVars => GatesInv'
  BY StepPreserves
<1> QED
  BY <1>1, <1>2, PTL DEF GatesSpec

\* Whatever sessions calls name and in whatever order, and however their steps
\* interleave, two that share a session never work at the same time.
THEOREM CallsExclude == GatesSpec => []OneCallPerSession
<1>1. GatesInv => OneCallPerSession
  BY InvExcludes
<1> QED
  BY <1>1, GatesInvariant, PTL

\* The dictionary of gates never loses a gate in use and never keeps another.
THEOREM GatesFollowUse == GatesSpec => []GatesAreThoseInUse
<1>1. GatesInv => GatesAreThoseInUse
  BY DEF GatesInv
<1> QED
  BY <1>1, GatesInvariant, PTL

\* Calls that wait on each other never form a circle.
THEOREM WaitsNeverCircle == GatesSpec => []WaitsClimb
<1>1. GatesInv => WaitsClimb
  BY InvClimbs
<1> QED
  BY <1>1, GatesInvariant, PTL

\* A call that waits is held up, directly or over other calls, by one that has
\* gates and does not wait: it is found at the highest gate waited for.
LEMMA SomeHolderIsFree ==
  ASSUME GatesInv, NEW c \in Callers, Waiting(c)
  PROVE  \E d \in Callers : Acquired(d) # {} /\ ~Waiting(d)
<1> DEFINE Awaited == {g \in Order : \E d \in Callers : Waiting(d) /\ NextGate(d) = g}
<1>1. ASSUME NEW d \in Callers, Waiting(d)
      PROVE  /\ NextGate(d) \in Awaited /\ NextGate(d) \in DOMAIN gates
             /\ Blocker(d) \in Callers /\ NextGate(d) \in Acquired(Blocker(d))
  <2>1. NextGate(d) \in entries[d] /\ NextGate(d) \in DOMAIN gates
    BY <1>1, NextGateIsNext DEF Waiting
  <2>2. NextGate(d) \in Order
    BY <2>1 DEF GatesInv, GateTypes
  <2>3. Blocker(d) \in Callers
    BY <1>1, <2>1 DEF Waiting, Blocker, GatesInv, GateTypes
  <2>4. NextGate(d) \in entries[Blocker(d)]
    BY <1>1, <2>1 DEF Waiting, Blocker, GatesInv, OwnersAreUsers
  <2> QED
    BY <1>1, <2>1, <2>2, <2>3, <2>4 DEF Acquired, Blocker
<1>2. MaxGates \in Nat /\ Awaited \in SUBSET (0 .. MaxGates) /\ Awaited # {}
  BY <1>1, GatesAssumption DEF Order
<1>3. PICK g \in Awaited : \A h \in Awaited : h <= g
  BY <1>2, GreatestExists
<1>4. PICK d \in Callers : Waiting(d) /\ NextGate(d) = g
  OBVIOUS
<1>5. ~Waiting(Blocker(d))
  <2> SUFFICES ASSUME Waiting(Blocker(d)) PROVE FALSE
    OBVIOUS
  <2>1. NextGate(Blocker(d)) > g
    BY <1>1, <1>4, InvClimbs DEF WaitsClimb
  <2>2. NextGate(Blocker(d)) \in Awaited
    BY <1>1, <1>4
  <2>3. NextGate(Blocker(d)) <= g
    BY <1>3, <2>2
  <2>4. NextGate(Blocker(d)) \in Nat /\ g \in Nat
    BY <1>2, <2>2
  <2> HIDE DEF Awaited
  <2> QED
    BY <2>1, <2>3, <2>4
<1> QED
  BY <1>1, <1>4, <1>5

=============================================================================
