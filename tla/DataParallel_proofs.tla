-------------------------- MODULE DataParallel_proofs --------------------------
(***************************************************************************)
(* Proofs about DataParallel: it implements SessionGates, so that what the *)
(* gates promise holds of it.                                              *)
(***************************************************************************)
EXTENDS DataParallel, SessionGates_proofs

-----------------------------------------------------------------------------
(* The engine under its gates.                                             *)

LEMMA EngineSteps ==
  ASSUME [Next]_vars
  PROVE  [GatesNext]_gateVars
<1>1. CASE UNCHANGED vars
  BY <1>1 DEF vars
<1>2. ASSUME NEW c \in Callers, CallStep(c) PROVE [GatesNext]_gateVars
  <2>1. CASE GateMove(c)
    BY <2>1 DEF GateMove, GatesNext
  <2>2. CASE Finish(c)
    BY <2>2 DEF Finish, GatesNext
  <2>3. CASE Assign(c) \/ Gather(c) \/ Lookup(c) \/ Unpin(c) \/ ResetDone(c)
    BY <2>3 DEF Assign, Gather, Lookup, Unpin, ResetDone
  <2>4. ASSUME NEW r \in Replicas, Reset(c, r) PROVE [GatesNext]_gateVars
    BY <2>4 DEF Reset
  <2> QED
    BY <1>2, <2>1, <2>2, <2>3, <2>4 DEF CallStep
<1>3. ASSUME NEW c \in Callers, NEW k \in Keys, RowStep(c, k) PROVE [GatesNext]_gateVars
  BY <1>3 DEF RowStep, Start, Run, Succeed, SessionFails, ModelFails, Fence
<1>4. ASSUME NEW c \in Callers, NEW op, NEW ks \in Asked, Call(c, op, ks)
      PROVE  [GatesNext]_gateVars
  BY <1>4 DEF Call, GatesNext
<1>5. ASSUME NEW k \in Keys, Cancel(k) PROVE [GatesNext]_gateVars
  BY <1>5 DEF Cancel
<1> QED
  BY <1>1, <1>2, <1>3, <1>4, <1>5 DEF Next, Advance

\* Every behavior of the engine is one of the gates: none of its steps takes or
\* drops a gate but as the gates allow.
THEOREM EngineKeepsGates == Spec => GatesSpec
<1>1. Init => GatesInit
  BY DEF Init
<1>2. [Next]_vars => [GatesNext]_gateVars
  BY EngineSteps
<1> QED
  BY <1>1, <1>2, PTL DEF Spec, GatesSpec

\* Two turns or resets of one episode never work at the same time.
THEOREM TurnsExclude == Spec => []OneCallPerSession
BY EngineKeepsGates, CallsExclude, PTL

\* The dictionary of gates holds those of the calls under way, and only those.
THEOREM GatesAreKept == Spec => []GatesAreThoseInUse
BY EngineKeepsGates, GatesFollowUse, PTL

\* Calls that wait for each other's gates never form a circle.
THEOREM TurnsNeverCircle == Spec => []WaitsClimb
BY EngineKeepsGates, WaitsNeverCircle, PTL

-----------------------------------------------------------------------------
(* The inductive invariant of the engine.  That a routed row is where its  *)
(* session is pinned rests on the gates: only a call that holds the        *)
(* session changes its pin, and no other call has a row of it.             *)

Stands == {"todo", "queued", "run", "cancelled", "raised", "ok", "error"}
UnderWay == {"todo", "queued", "run", "cancelled"}

EngineTypes ==
  /\ affinity \in [DOMAIN affinity -> Replicas]
  /\ memory \in [Replicas -> SUBSET Keys]
  /\ job \in [Callers ->
       [op : {"none", "execute", "reset"},
        at : {"none", "assign", "gather", "lookup", "reset", "unpin", "over"},
        banned : SUBSET Replicas, left : SUBSET Replicas, now : Replicas \cup {Nobody}]]
  /\ DOMAIN rows = Callers
  /\ \A c \in Callers : rows[c] \in [DOMAIN rows[c] -> [replica : Replicas, st : Stands]]

\* Only recurrent turns leave memory, and no retry migrates them.
ModesFit ==
  /\ ~(is_recurrent /\ retry_on_healthy)
  /\ ~is_recurrent => \A r \in Replicas : memory[r] = {}

\* A call has rows of its own sessions, while execute runs.
RowsFit(c) ==
  /\ DOMAIN rows[c] \subseteq Range(asked[c])
  /\ DOMAIN rows[c] # {} => pc[c] = "body" /\ job[c].op = "execute"
  /\ \A k \in DOMAIN rows[c] : rows[c][k].st \in UnderWay => Pin(k) = rows[c][k].replica

\* The pins a reset has still to release.
ToRelease(c) ==
  job[c].left \cup (IF job[c].at = "unpin" THEN {job[c].now} ELSE {})

ResetFits(c) ==
  /\ pc[c] = "acquire" => job[c].at \in {"assign", "lookup"}
  /\ pc[c] = "body" /\ job[c].op = "reset" /\ job[c].at \in {"reset", "unpin", "over"} =>
       \A k \in Range(asked[c]) : Pin(k) \in ToRelease(c) \cup {Nobody}
  /\ At(c, "reset", "unpin") =>
       job[c].now \in Replicas /\ \A k \in Range(asked[c]) : k \notin memory[job[c].now]
  /\ At(c, "reset", "over") => job[c].left = {}

EngineInv ==
  /\ EngineTypes
  /\ ModesFit
  /\ MemoryIsAtPin
  /\ \A c \in Callers : RowsFit(c) /\ ResetFits(c)

LEMMA EngineInitEstablishes ==
  ASSUME Init
  PROVE  EngineInv
<1>1. EngineTypes
  BY DEF Init, EngineTypes, NoJob, NoRows
<1>2. ModesFit /\ MemoryIsAtPin
  BY DEF Init, ModesFit, MemoryIsAtPin
<1>3. \A c \in Callers : DOMAIN rows[c] = {} /\ pc[c] = "idle"
  BY DEF Init, GatesInit, NoRows
<1>4. \A c \in Callers : RowsFit(c) /\ ResetFits(c)
  BY <1>3 DEF RowsFit, ResetFits, At
<1> QED
  BY <1>1, <1>2, <1>4 DEF EngineInv

\* What a call is asked for are sessions.
LEMMA AskedAreKeys ==
  ASSUME GatesInv, NEW c \in Callers
  PROVE  Range(asked[c]) \subseteq Keys
<1>1. asked[c] \in Asked \/ asked[c] = <<>>
  BY DEF GatesInv, GateTypes
<1>2. CASE asked[c] = <<>>
  BY <1>2 DEF Range
<1> QED
  BY <1>1, <1>2, AskedIsFinite

\* Two calls at work have no session in common.
LEMMA ForeignSessions ==
  ASSUME GatesInv, NEW c \in Callers, NEW d \in Callers, c # d,
         pc[c] = "body", pc[d] = "body", NEW k \in Range(asked[c])
  PROVE  k \notin Range(asked[d])
<1>1. k \in Keys
  BY AskedAreKeys
<1> QED
  BY <1>1, InvExcludes DEF OneCallPerSession, Inside

\* A call that does not step keeps its part of the invariant, as long as its
\* sessions keep their pins and get no memory.
LEMMA OthersFit ==
  ASSUME NEW d \in Callers, RowsFit(d), ResetFits(d), EngineTypes,
         asked'[d] = asked[d], pc'[d] = pc[d], job'[d] = job[d], rows'[d] = rows[d],
         pc[d] = "body" => \A k \in Range(asked[d]) :
           Pin(k)' = Pin(k) /\ \A r \in Replicas : k \in memory'[r] => k \in memory[r]
  PROVE  RowsFit(d)' /\ ResetFits(d)'
<1>1. RowsFit(d)'
  <2>1. \A k \in DOMAIN rows[d] : pc[d] = "body" /\ k \in Range(asked[d])
    BY DEF RowsFit
  <2>2. \A k \in DOMAIN rows[d] : Pin(k)' = Pin(k)
    BY <2>1
  <2> QED
    BY <2>2 DEF RowsFit
<1>2. ResetFits(d)'
  <2>1. ToRelease(d)' = ToRelease(d)
    BY DEF ToRelease
  <2> QED
    BY <2>1 DEF ResetFits, At
<1> QED
  BY <1>1, <1>2

\* The rows that run with one of a call are those of its unit, and have stood
\* as it has.
LEMMA SetRowsFits ==
  ASSUME EngineTypes, NEW c \in Callers, NEW k \in DOMAIN rows[c], NEW st \in Stands,
         st \in UnderWay => rows[c][k].st \in UnderWay,
         SetRows(c, k, st)
  PROVE  /\ DOMAIN rows' = Callers
         /\ \A d \in Callers : d # c => rows'[d] = rows[d]
         /\ DOMAIN rows'[c] = DOMAIN rows[c]
         /\ rows'[c] \in [DOMAIN rows[c] -> [replica : Replicas, st : Stands]]
         /\ \A x \in DOMAIN rows[c] :
              /\ rows'[c][x].replica = rows[c][x].replica
              /\ rows'[c][x].st \in UnderWay => rows[c][x].st \in UnderWay
              /\ rows'[c][x] = rows[c][x] \/ rows[c][x].st = rows[c][k].st
<1>1. rows[c] \in [DOMAIN rows[c] -> [replica : Replicas, st : Stands]] /\ DOMAIN rows = Callers
  BY DEF EngineTypes
<1>2. rows' = [rows EXCEPT ![c] =
         [x \in DOMAIN rows[c] |->
            IF x \in Unit(c, k) THEN [rows[c][x] EXCEPT !.st = st] ELSE rows[c][x]]]
  BY DEF SetRows
<1>3. /\ DOMAIN rows' = Callers
      /\ \A d \in Callers : d # c => rows'[d] = rows[d]
      /\ rows'[c] = [x \in DOMAIN rows[c] |->
                       IF x \in Unit(c, k) THEN [rows[c][x] EXCEPT !.st = st] ELSE rows[c][x]]
  BY <1>1, <1>2
<1>4. \A x \in Unit(c, k) : rows[c][x] = rows[c][k]
  BY DEF Unit
<1>5. ASSUME NEW x \in DOMAIN rows[c]
      PROVE  /\ rows'[c][x] \in [replica : Replicas, st : Stands]
             /\ rows'[c][x].replica = rows[c][x].replica
             /\ rows'[c][x].st \in UnderWay => rows[c][x].st \in UnderWay
             /\ rows'[c][x] = rows[c][x] \/ rows[c][x].st = rows[c][k].st
  <2>1. rows[c][x] \in [replica : Replicas, st : Stands]
    BY <1>1
  <2>2. CASE x \in Unit(c, k)
    <3>1. rows'[c][x] = [rows[c][x] EXCEPT !.st = st]
      BY <1>3, <2>2
    <3> QED
      BY <1>4, <2>1, <2>2, <3>1
  <2>3. CASE x \notin Unit(c, k)
    BY <1>3, <2>1, <2>3
  <2> QED
    BY <2>2, <2>3
<1>6. rows'[c] \in [DOMAIN rows[c] -> [replica : Replicas, st : Stands]]
  BY <1>3, <1>5
<1> QED
  BY <1>3, <1>5, <1>6

-----------------------------------------------------------------------------
(* Every step of the engine preserves the invariant.                       *)

\* A row that moves was not done.
LEMMA RowStepMoves ==
  ASSUME NEW c \in Callers, NEW k, RowStep(c, k)
  PROVE  /\ k \in DOMAIN rows[c] /\ rows[c][k].st # "ok"
         /\ \E st \in Stands : SetRows(c, k, st) /\ (st \in UnderWay => rows[c][k].st \in UnderWay)
         /\ UNCHANGED <<session_gates, gates, pc, asked, entries, affinity, job>>
BY DEF RowStep, Start, Run, Succeed, SessionFails, ModelFails, Fence, RowAt, gateVars,
       Stands, UnderWay

LEMMA RowStepPreserves ==
  ASSUME GatesInv, EngineInv, NEW c \in Callers, NEW k \in Keys, RowStep(c, k),
         UNCHANGED modeVars
  PROVE  EngineInv'
<1>1. k \in DOMAIN rows[c] /\ UNCHANGED <<pc, asked, affinity, job>>
  BY RowStepMoves
<1>2. PICK st \in Stands : SetRows(c, k, st) /\ (st \in UnderWay => rows[c][k].st \in UnderWay)
  BY RowStepMoves
<1>3. EngineTypes /\ ModesFit /\ MemoryIsAtPin /\ \A d \in Callers : RowsFit(d) /\ ResetFits(d)
  BY DEF EngineInv
<1>4. /\ DOMAIN rows' = Callers /\ \A d \in Callers : d # c => rows'[d] = rows[d]
      /\ DOMAIN rows'[c] = DOMAIN rows[c]
      /\ rows'[c] \in [DOMAIN rows[c] -> [replica : Replicas, st : Stands]]
      /\ \A x \in DOMAIN rows[c] :
           /\ rows'[c][x].replica = rows[c][x].replica
           /\ rows'[c][x].st \in UnderWay => rows[c][x].st \in UnderWay
  BY <1>1, <1>2, <1>3, SetRowsFits
<1>5. k \in Range(asked[c]) /\ pc[c] = "body" /\ job[c].op = "execute"
  BY <1>1, <1>3 DEF RowsFit
<1>6. \A x : Pin(x)' = Pin(x)
  BY <1>1 DEF Pin
<1>7. \/ memory' = memory
      \/ /\ is_recurrent /\ rows[c][k].st = "run"
         /\ memory' = [memory EXCEPT ![rows[c][k].replica] = memory[rows[c][k].replica] \cup {k}]
  <2>1. CASE Succeed(c, k)
    <3>1. CASE is_recurrent
      BY <2>1, <3>1 DEF Succeed, RowAt
    <3>2. CASE ~is_recurrent
      BY <2>1, <3>2, <1>3 DEF Succeed, EngineTypes
    <3> QED
      BY <3>1, <3>2
  <2>2. CASE Start(c, k) \/ Run(c, k) \/ SessionFails(c, k) \/ ModelFails(c, k) \/ Fence(c, k)
    BY <2>2 DEF Start, Run, SessionFails, ModelFails, Fence
  <2> QED
    BY <2>1, <2>2 DEF RowStep
<1>8. rows[c][k].replica \in Replicas
  BY <1>1, <1>3 DEF EngineTypes
<1>9. /\ memory' \in [Replicas -> SUBSET Keys]
      /\ \A r \in Replicas : \A x \in memory'[r] :
           x \in memory[r] \/ (is_recurrent /\ x = k /\ r = rows[c][k].replica /\ rows[c][k].st = "run")
  BY <1>3, <1>7, <1>8 DEF EngineTypes
<1>10. EngineTypes'
  <2>1. \A d \in Callers : rows'[d] \in [DOMAIN rows'[d] -> [replica : Replicas, st : Stands]]
    BY <1>3, <1>4 DEF EngineTypes
  <2> QED
    BY <1>1, <1>3, <1>4, <1>9, <2>1 DEF EngineTypes
<1>11. ModesFit'
  <2>1. is_recurrent' = is_recurrent /\ retry_on_healthy' = retry_on_healthy
    BY DEF modeVars
  <2>2. ASSUME ~is_recurrent, NEW r \in Replicas PROVE memory'[r] = {}
    BY <1>3, <1>9, <2>2 DEF ModesFit
  <2> QED
    BY <1>3, <2>1, <2>2 DEF ModesFit
<1>12. MemoryIsAtPin'
  <2> SUFFICES ASSUME NEW r \in Replicas, NEW x \in memory'[r] PROVE Pin(x)' = r
    BY DEF MemoryIsAtPin
  <2>1. CASE x \in memory[r]
    BY <1>3, <1>6, <2>1 DEF MemoryIsAtPin
  <2>2. CASE x = k /\ r = rows[c][k].replica /\ rows[c][k].st = "run"
    BY <1>1, <1>3, <1>6, <2>2 DEF RowsFit, UnderWay
  <2> QED
    BY <1>9, <2>1, <2>2
<1>13. ASSUME NEW d \in Callers PROVE RowsFit(d)' /\ ResetFits(d)'
  <2>1. CASE d = c
    <3>1. RowsFit(c)'
      BY <1>1, <1>3, <1>4, <1>6 DEF RowsFit
    <3>2. ResetFits(c)'
      BY <1>1, <1>5 DEF ResetFits, At
    <3> QED
      BY <2>1, <3>1, <3>2
  <2>2. CASE d # c
    <3>1. pc[d] = "body" => \A x \in Range(asked[d]) :
            Pin(x)' = Pin(x) /\ \A r \in Replicas : x \in memory'[r] => x \in memory[r]
      <4> SUFFICES ASSUME pc[d] = "body", NEW x \in Range(asked[d]), NEW r \in Replicas,
                          x \in memory'[r]
                   PROVE  x \in memory[r]
        BY <1>6
      <4>1. x # k
        BY <1>5, <2>2, ForeignSessions
      <4> QED
        BY <1>9, <4>1
    <3> QED
      BY <1>1, <1>3, <1>4, <2>2, <3>1, OthersFit
  <2> QED
    BY <2>1, <2>2
<1> QED
  BY <1>10, <1>11, <1>12, <1>13 DEF EngineInv

\* Routing pins the sessions of its rows, and gives up no pin of a session that
\* has memory.
LEMMA AssignPreserves ==
  ASSUME GatesInv, EngineInv, NEW c \in Callers, Assign(c), UNCHANGED modeVars
  PROVE  EngineInv'
<1>1. EngineTypes /\ ModesFit /\ MemoryIsAtPin /\ \A d \in Callers : RowsFit(d) /\ ResetFits(d)
  BY DEF EngineInv
<1>2. /\ pc[c] = "body" /\ job[c].op = "execute"
      /\ UNCHANGED <<pc, asked, memory, is_recurrent, retry_on_healthy>>
  BY DEF Assign, At, Route, gateVars, modeVars
<1>3. PICK at \in {"over", "gather"} : job' = [job EXCEPT ![c].at = at]
  BY DEF Assign, Route, GotoJob
<1>4. /\ \A d \in Callers : d # c => job'[d] = job[d]
      /\ job'[c].op = "execute"
      /\ job' \in [Callers ->
           [op : {"none", "execute", "reset"},
            at : {"none", "assign", "gather", "lookup", "reset", "unpin", "over"},
            banned : SUBSET Replicas, left : SUBSET Replicas, now : Replicas \cup {Nobody}]]
  BY <1>1, <1>2, <1>3 DEF EngineTypes
<1>5. ModesFit'
  BY <1>1, <1>2 DEF ModesFit
<1>6. ResetFits(c)'
  BY <1>2, <1>4 DEF ResetFits, At
<1>7. CASE UNCHANGED <<affinity, rows>>
  <2>1. EngineTypes' /\ MemoryIsAtPin'
    BY <1>1, <1>2, <1>4, <1>7 DEF EngineTypes, MemoryIsAtPin, Pin
  <2>2. \A x : Pin(x)' = Pin(x)
    BY <1>7 DEF Pin
  <2>3. RowsFit(c)'
    BY <1>1, <1>2, <1>4, <1>7, <2>2 DEF RowsFit
  <2>4. \A d \in Callers : d # c => RowsFit(d)' /\ ResetFits(d)'
    BY <1>1, <1>2, <1>4, <1>7, <2>2, OthersFit
  <2> QED
    BY <1>5, <1>6, <2>1, <2>3, <2>4 DEF EngineInv
<1>8. ASSUME NEW where \in [Pending(c) -> Available(c)], Route(c, where),
             Stranded(c) = {} \/ retry_on_healthy
      PROVE  EngineInv'
  <2>1. /\ affinity' = [k \in DOMAIN affinity \cup Pending(c) |->
                          IF k \in Pending(c) THEN where[k] ELSE affinity[k]]
        /\ rows' = [rows EXCEPT ![c] =
             [k \in Range(asked[c]) |->
                IF k \in Pending(c) THEN [replica |-> where[k], st |-> "todo"] ELSE rows[c][k]]]
        /\ \A k \in Pending(c) : Pin(k) \in Available(c) => where[k] = Pin(k)
    BY <1>8 DEF Route
  <2>2. Available(c) \subseteq Replicas /\ Pending(c) \subseteq Range(asked[c])
    BY DEF Available, Pending
  <2>3. \A k : Pin(k)' = IF k \in Pending(c) THEN where[k] ELSE Pin(k)
    BY <2>1 DEF Pin
  <2>4. /\ \A d \in Callers : d # c => rows'[d] = rows[d]
        /\ rows'[c] = [k \in Range(asked[c]) |->
             IF k \in Pending(c) THEN [replica |-> where[k], st |-> "todo"] ELSE rows[c][k]]
        /\ DOMAIN rows' = Callers
    BY <1>1, <2>1 DEF EngineTypes
  <2>5. \A k \in Range(asked[c]) \ Pending(c) : k \in DOMAIN rows[c]
    BY DEF Pending
  <2>6. rows'[c] \in [Range(asked[c]) -> [replica : Replicas, st : Stands]]
    <3> SUFFICES ASSUME NEW k \in Range(asked[c])
                 PROVE  rows'[c][k] \in [replica : Replicas, st : Stands]
      BY <2>4
    <3>1. CASE k \in Pending(c)
      BY <2>2, <2>4, <3>1 DEF Stands
    <3>2. CASE k \notin Pending(c)
      BY <1>1, <2>4, <2>5, <3>2 DEF EngineTypes
    <3> QED
      BY <3>1, <3>2
  <2>7. EngineTypes'
    <3>1. affinity' \in [DOMAIN affinity' -> Replicas]
      BY <1>1, <2>1, <2>2 DEF EngineTypes
    <3>2. \A d \in Callers : rows'[d] \in [DOMAIN rows'[d] -> [replica : Replicas, st : Stands]]
      BY <1>1, <2>4, <2>6 DEF EngineTypes
    <3> QED
      BY <1>1, <1>2, <1>4, <2>4, <3>1, <3>2 DEF EngineTypes
  <2>8. MemoryIsAtPin'
    <3> SUFFICES ASSUME NEW r \in Replicas, NEW k \in memory[r] PROVE Pin(k)' = r
      BY <1>2 DEF MemoryIsAtPin
    <3>1. Pin(k) = r /\ is_recurrent /\ ~retry_on_healthy
      BY <1>1 DEF MemoryIsAtPin, ModesFit
    <3>2. CASE k \in Pending(c)
      <4>1. Pin(k) \in Available(c)
        BY <1>8, <3>1, <3>2, ReplicasAssumption DEF Stranded
      <4> QED
        BY <2>1, <2>3, <3>1, <3>2, <4>1
    <3>3. CASE k \notin Pending(c)
      BY <2>3, <3>1, <3>3
    <3> QED
      BY <3>2, <3>3
  <2>9. RowsFit(c)'
    <3> SUFFICES ASSUME NEW k \in Range(asked[c]), rows'[c][k].st \in UnderWay
                 PROVE  Pin(k)' = rows'[c][k].replica
      BY <1>2, <1>4, <2>4 DEF RowsFit
    <3>1. CASE k \in Pending(c)
      BY <2>3, <2>4, <3>1
    <3>2. CASE k \notin Pending(c)
      BY <1>1, <2>3, <2>4, <2>5, <3>2 DEF RowsFit
    <3> QED
      BY <3>1, <3>2
  <2>10. ASSUME NEW d \in Callers, d # c PROVE RowsFit(d)' /\ ResetFits(d)'
    <3>1. pc[d] = "body" => \A k \in Range(asked[d]) : Pin(k)' = Pin(k)
      BY <1>2, <2>2, <2>3, <2>10, ForeignSessions
    <3> QED
      BY <1>1, <1>2, <1>4, <2>4, <2>10, <3>1, OthersFit
  <2> QED
    BY <1>5, <1>6, <2>7, <2>8, <2>9, <2>10 DEF EngineInv
<1> QED
  BY <1>7, <1>8 DEF Assign

\* The job of one call goes on; no other is touched.
LEMMA JobMoves ==
  ASSUME EngineTypes, NEW c \in Callers,
         Gather(c) \/ Lookup(c) \/ (\E r \in Replicas : Reset(c, r)) \/ Unpin(c) \/ ResetDone(c)
  PROVE  /\ \A d \in Callers : d # c => job'[d] = job[d]
         /\ job'[c].op = job[c].op
         /\ job' \in [Callers ->
              [op : {"none", "execute", "reset"},
               at : {"none", "assign", "gather", "lookup", "reset", "unpin", "over"},
               banned : SUBSET Replicas, left : SUBSET Replicas, now : Replicas \cup {Nobody}]]
         /\ pc[c] = "body" /\ UNCHANGED <<pc, asked, rows>>
<1> DEFINE Jobs == [op : {"none", "execute", "reset"},
                    at : {"none", "assign", "gather", "lookup", "reset", "unpin", "over"},
                    banned : SUBSET Replicas, left : SUBSET Replicas,
                    now : Replicas \cup {Nobody}]
<1>1. job \in [Callers -> Jobs] /\ job[c] \in Jobs
  BY DEF EngineTypes
<1>2. pc[c] = "body" /\ UNCHANGED <<pc, asked, rows>>
  BY DEF Gather, Lookup, Reset, Unpin, ResetDone, At, gateVars
<1>3. \E j \in Jobs : j.op = job[c].op /\ job' = [job EXCEPT ![c] = j]
  <2>1. CASE Gather(c)
    <3> DEFINE lost == {k \in DOMAIN rows[c] : rows[c][k].st = "error"}
               banned == job[c].banned \cup {rows[c][k].replica : k \in lost}
               at == IF lost # {} /\ retry_on_healthy /\ (Replicas \ failed) \ banned # {}
                     THEN "assign" ELSE "over"
    <3>1. job' = [job EXCEPT ![c].at = at, ![c].banned = banned]
      BY <2>1 DEF Gather
    <3>2. at \in {"assign", "over"}
      OBVIOUS
    <3>3. banned \in SUBSET Replicas
      BY <1>1 DEF EngineTypes
    <3> HIDE DEF lost, banned, at
    <3>4. job' = [job EXCEPT ![c] = [job[c] EXCEPT !.at = at, !.banned = banned]]
      BY <1>1, <3>1
    <3>5. [job[c] EXCEPT !.at = at, !.banned = banned] \in Jobs
      BY <1>1, <3>2, <3>3
    <3>6. [job[c] EXCEPT !.at = at, !.banned = banned].op = job[c].op
      BY <1>1
    <3> QED
      BY <3>4, <3>5, <3>6
  <2>2. CASE Lookup(c)
    <3> DEFINE owners == {Pin(k) : k \in Range(asked[c])} \ {Nobody}
    <3>1. job' = [job EXCEPT ![c].left = owners, ![c].at = "reset"]
      BY <2>2 DEF Lookup
    <3>2. owners \in SUBSET Replicas
      BY DEF Pin, EngineTypes
    <3> HIDE DEF owners
    <3>3. job' = [job EXCEPT ![c] = [job[c] EXCEPT !.left = owners, !.at = "reset"]]
      BY <1>1, <3>1
    <3>4. [job[c] EXCEPT !.left = owners, !.at = "reset"] \in Jobs
      BY <1>1, <3>2
    <3> QED
      BY <1>1, <3>3, <3>4
  <2>3. ASSUME NEW r \in Replicas, Reset(c, r)
        PROVE  \E j \in Jobs : j.op = job[c].op /\ job' = [job EXCEPT ![c] = j]
    <3> DEFINE left == job[c].left \ {r}
    <3>1. job' = [job EXCEPT ![c].at = "unpin", ![c].now = r, ![c].left = left]
      BY <1>1, <2>3 DEF Reset
    <3>2. left \in SUBSET Replicas
      BY <1>1
    <3> HIDE DEF left
    <3>3. job' = [job EXCEPT ![c] = [job[c] EXCEPT !.at = "unpin", !.now = r, !.left = left]]
      BY <1>1, <3>1
    <3>4. [job[c] EXCEPT !.at = "unpin", !.now = r, !.left = left] \in Jobs
      BY <1>1, <3>2
    <3> QED
      BY <1>1, <3>3, <3>4
  <2>4. ASSUME NEW at \in {"reset", "over"}, GotoJob(c, at)
        PROVE  \E j \in Jobs : j.op = job[c].op /\ job' = [job EXCEPT ![c] = j]
    <3>1. job' = [job EXCEPT ![c] = [job[c] EXCEPT !.at = at]]
      BY <2>4 DEF GotoJob
    <3>2. [job[c] EXCEPT !.at = at] \in Jobs
      BY <1>1
    <3> QED
      BY <1>1, <3>1, <3>2
  <2> QED
    BY <2>1, <2>2, <2>3, <2>4 DEF Unpin, ResetDone
<1>4. PICK j \in Jobs : j.op = job[c].op /\ job' = [job EXCEPT ![c] = j]
  BY <1>3
<1> HIDE DEF Jobs
<1>5. job' \in [Callers -> Jobs]
  BY <1>1, <1>4
<1>6. job'[c].op = job[c].op /\ \A d \in Callers : d # c => job'[d] = job[d]
  BY <1>1, <1>4
<1> QED
  BY <1>2, <1>5, <1>6 DEF Jobs

\* Steps of a body that change neither pins nor memory nor rows.
LEMMA PaceStepPreserves ==
  ASSUME GatesInv, EngineInv, NEW c \in Callers, Gather(c) \/ Lookup(c) \/ ResetDone(c),
         UNCHANGED modeVars
  PROVE  EngineInv'
<1>1. EngineTypes /\ ModesFit /\ MemoryIsAtPin /\ \A d \in Callers : RowsFit(d) /\ ResetFits(d)
  BY DEF EngineInv
<1>2. /\ \A d \in Callers : d # c => job'[d] = job[d]
      /\ job'[c].op = job[c].op
      /\ job' \in [Callers ->
           [op : {"none", "execute", "reset"},
            at : {"none", "assign", "gather", "lookup", "reset", "unpin", "over"},
            banned : SUBSET Replicas, left : SUBSET Replicas, now : Replicas \cup {Nobody}]]
      /\ pc[c] = "body" /\ UNCHANGED <<pc, asked, rows>>
  BY <1>1, JobMoves
<1>3. UNCHANGED <<affinity, memory, is_recurrent, retry_on_healthy>>
  BY DEF Gather, Lookup, ResetDone, modeVars
<1>4. EngineTypes' /\ ModesFit'
  BY <1>1, <1>2, <1>3 DEF EngineTypes, ModesFit
<1>5. \A k : Pin(k)' = Pin(k)
  BY <1>3 DEF Pin
<1>6. MemoryIsAtPin'
  BY <1>1, <1>3, <1>5 DEF MemoryIsAtPin
<1>7. RowsFit(c)'
  BY <1>1, <1>2, <1>5 DEF RowsFit
<1>8. ResetFits(c)'
  <2>1. CASE Gather(c)
    BY <1>2, <2>1 DEF ResetFits, Gather, At
  <2>2. CASE Lookup(c)
    <3>1. job'[c].at = "reset" /\ job'[c].left = {Pin(k) : k \in Range(asked[c])} \ {Nobody}
      BY <1>1, <2>2 DEF Lookup, EngineTypes
    <3> QED
      BY <1>2, <1>5, <3>1 DEF ResetFits, ToRelease, At
  <2>3. CASE ResetDone(c)
    <3>1. job'[c].at = "over" /\ job'[c].left = {} /\ job[c].at = "reset" /\ job[c].left = {}
          /\ job[c].op = "reset"
      BY <1>1, <2>3 DEF ResetDone, GotoJob, EngineTypes, At
    <3>2. \A k \in Range(asked[c]) : Pin(k) = Nobody
      BY <1>1, <1>2, <3>1 DEF ResetFits, ToRelease
    <3> QED
      BY <1>2, <1>5, <3>1, <3>2 DEF ResetFits, ToRelease, At
  <2> QED
    BY <2>1, <2>2, <2>3
<1>9. ASSUME NEW d \in Callers, d # c PROVE RowsFit(d)' /\ ResetFits(d)'
  BY <1>1, <1>2, <1>3, <1>5, <1>9, OthersFit
<1> QED
  BY <1>4, <1>6, <1>7, <1>8, <1>9 DEF EngineInv

\* One replica forgets the sessions of a reset, all that were pinned to it.
LEMMA ResetPreserves ==
  ASSUME GatesInv, EngineInv, NEW c \in Callers, NEW r \in Replicas, Reset(c, r),
         UNCHANGED modeVars
  PROVE  EngineInv'
<1>1. EngineTypes /\ ModesFit /\ MemoryIsAtPin /\ \A d \in Callers : RowsFit(d) /\ ResetFits(d)
  BY DEF EngineInv
<1>2. /\ \A d \in Callers : d # c => job'[d] = job[d]
      /\ job'[c].op = job[c].op
      /\ job' \in [Callers ->
           [op : {"none", "execute", "reset"},
            at : {"none", "assign", "gather", "lookup", "reset", "unpin", "over"},
            banned : SUBSET Replicas, left : SUBSET Replicas, now : Replicas \cup {Nobody}]]
      /\ pc[c] = "body" /\ UNCHANGED <<pc, asked, rows>>
  BY <1>1, JobMoves
<1>3. /\ UNCHANGED <<affinity, is_recurrent, retry_on_healthy>>
      /\ memory' = [memory EXCEPT ![r] = memory[r] \ Owned(c, r)]
  BY DEF Reset, modeVars
<1>4. /\ memory' \in [Replicas -> SUBSET Keys]
      /\ \A q \in Replicas : memory'[q] \subseteq memory[q]
      /\ memory'[r] = memory[r] \ Owned(c, r)
  BY <1>1, <1>3 DEF EngineTypes
<1>5. EngineTypes' /\ ModesFit'
  BY <1>1, <1>2, <1>3, <1>4 DEF EngineTypes, ModesFit
<1>6. \A k : Pin(k)' = Pin(k)
  BY <1>3 DEF Pin
<1>7. MemoryIsAtPin'
  BY <1>1, <1>4, <1>6 DEF MemoryIsAtPin
<1>8. RowsFit(c)'
  BY <1>1, <1>2, <1>6 DEF RowsFit
<1>9. ResetFits(c)'
  <2>1. /\ job[c].op = "reset" /\ job[c].at = "reset"
        /\ job'[c].at = "unpin" /\ job'[c].now = r /\ job'[c].left = job[c].left \ {r}
    BY <1>1 DEF Reset, EngineTypes, At
  <2>2. \A k \in Range(asked[c]) : Pin(k) \in job[c].left \cup {Nobody}
    BY <1>1, <1>2, <2>1 DEF ResetFits, ToRelease
  <2>3. \A k \in Range(asked[c]) : Pin(k) \in (job[c].left \ {r}) \cup {r} \cup {Nobody}
    BY <2>2
  <2>4. \A k \in Range(asked[c]) : k \notin memory'[r]
    BY <1>1, <1>4 DEF MemoryIsAtPin, Owned
  <2> QED
    BY <1>2, <1>6, <2>1, <2>3, <2>4 DEF ResetFits, ToRelease, At
<1>10. ASSUME NEW d \in Callers, d # c PROVE RowsFit(d)' /\ ResetFits(d)'
  BY <1>1, <1>2, <1>4, <1>6, <1>10, OthersFit
<1> QED
  BY <1>5, <1>7, <1>8, <1>9, <1>10 DEF EngineInv

\* The sessions are unpinned after the replica has forgotten them.
LEMMA UnpinPreserves ==
  ASSUME GatesInv, EngineInv, NEW c \in Callers, Unpin(c), UNCHANGED modeVars
  PROVE  EngineInv'
<1>1. EngineTypes /\ ModesFit /\ MemoryIsAtPin /\ \A d \in Callers : RowsFit(d) /\ ResetFits(d)
  BY DEF EngineInv
<1>2. /\ \A d \in Callers : d # c => job'[d] = job[d]
      /\ job'[c].op = job[c].op
      /\ job' \in [Callers ->
           [op : {"none", "execute", "reset"},
            at : {"none", "assign", "gather", "lookup", "reset", "unpin", "over"},
            banned : SUBSET Replicas, left : SUBSET Replicas, now : Replicas \cup {Nobody}]]
      /\ pc[c] = "body" /\ UNCHANGED <<pc, asked, rows>>
  BY <1>1, JobMoves
<1>3. /\ UNCHANGED <<memory, is_recurrent, retry_on_healthy>>
      /\ affinity' = [k \in DOMAIN affinity \ Owned(c, job[c].now) |-> affinity[k]]
      /\ job[c].op = "reset" /\ job[c].at = "unpin"
  BY DEF Unpin, modeVars, Restrict, At
<1>4. job'[c].at = "reset" /\ job'[c].left = job[c].left
  BY <1>1 DEF Unpin, GotoJob, EngineTypes
<1>5. /\ job[c].now \in Replicas /\ \A k \in Range(asked[c]) : k \notin memory[job[c].now]
      /\ \A k \in Range(asked[c]) : Pin(k) \in job[c].left \cup {job[c].now} \cup {Nobody}
  BY <1>1, <1>2, <1>3 DEF ResetFits, ToRelease, At
<1>6. \A k : Pin(k)' = IF k \in Range(asked[c]) /\ Pin(k) = job[c].now THEN Nobody ELSE Pin(k)
  BY <1>3 DEF Pin, Owned
<1>7. EngineTypes' /\ ModesFit'
  BY <1>1, <1>2, <1>3 DEF EngineTypes, ModesFit
<1>8. MemoryIsAtPin'
  BY <1>1, <1>3, <1>5, <1>6 DEF MemoryIsAtPin
<1>9. RowsFit(c)'
  BY <1>1, <1>2, <1>3 DEF RowsFit
<1>10. ResetFits(c)'
  BY <1>2, <1>4, <1>5, <1>6 DEF ResetFits, ToRelease, At
<1>11. ASSUME NEW d \in Callers, d # c PROVE RowsFit(d)' /\ ResetFits(d)'
  <2>1. pc[d] = "body" => \A k \in Range(asked[d]) : Pin(k)' = Pin(k)
    BY <1>2, <1>6, <1>11, ForeignSessions
  <2> QED
    BY <1>1, <1>2, <1>3, <1>11, <2>1, OthersFit
<1> QED
  BY <1>7, <1>8, <1>9, <1>10, <1>11 DEF EngineInv

\* Cancelling touches running rows only, and leaves their pins.
LEMMA CancelFits ==
  ASSUME EngineTypes, NEW k, Cancel(k), NEW c \in Callers
  PROVE  /\ DOMAIN rows' = Callers /\ DOMAIN rows'[c] = DOMAIN rows[c]
         /\ rows'[c] \in [DOMAIN rows[c] -> [replica : Replicas, st : Stands]]
         /\ \A x \in DOMAIN rows[c] :
              /\ rows'[c][x].replica = rows[c][x].replica
              /\ rows'[c][x].st \in UnderWay => rows[c][x].st \in UnderWay
              /\ rows'[c][x] = rows[c][x] \/ rows[c][x].st = "run"
<1>1. rows[c] \in [DOMAIN rows[c] -> [replica : Replicas, st : Stands]]
  BY DEF EngineTypes
<1>2. /\ DOMAIN rows' = Callers
      /\ rows'[c] = [x \in DOMAIN rows[c] |->
                IF x = k /\ RowAt(c, k, {"run"}) /\ rows[c][k].replica = Pin(k)
                THEN [rows[c][k] EXCEPT !.st = "cancelled"] ELSE rows[c][x]]
  BY DEF Cancel
<1>3. ASSUME NEW x \in DOMAIN rows[c]
      PROVE  /\ rows'[c][x] \in [replica : Replicas, st : Stands]
             /\ rows'[c][x].replica = rows[c][x].replica
             /\ rows'[c][x].st \in UnderWay => rows[c][x].st \in UnderWay
             /\ rows'[c][x] = rows[c][x] \/ rows[c][x].st = "run"
  <2>1. rows[c][x] \in [replica : Replicas, st : Stands]
    BY <1>1
  <2>2. CASE x = k /\ RowAt(c, k, {"run"}) /\ rows[c][k].replica = Pin(k)
    <3>1. rows'[c][x] = [rows[c][x] EXCEPT !.st = "cancelled"] /\ rows[c][x].st = "run"
      BY <1>2, <2>2 DEF RowAt
    <3> QED
      BY <2>1, <3>1 DEF Stands, UnderWay
  <2>3. CASE ~(x = k /\ RowAt(c, k, {"run"}) /\ rows[c][k].replica = Pin(k))
    BY <1>2, <2>1, <2>3
  <2> QED
    BY <2>2, <2>3
<1>4. rows'[c] \in [DOMAIN rows[c] -> [replica : Replicas, st : Stands]]
  BY <1>2, <1>3
<1> QED
  BY <1>2, <1>3, <1>4

LEMMA CancelPreserves ==
  ASSUME EngineInv, NEW k \in Keys, Cancel(k), UNCHANGED modeVars
  PROVE  EngineInv'
<1>1. EngineTypes /\ ModesFit /\ MemoryIsAtPin /\ \A d \in Callers : RowsFit(d) /\ ResetFits(d)
  BY DEF EngineInv
<1>2. UNCHANGED <<pc, asked, affinity, memory, job, is_recurrent, retry_on_healthy>>
  BY DEF Cancel, gateVars, modeVars
<1>3. \A x : Pin(x)' = Pin(x)
  BY <1>2 DEF Pin
<1>4. DOMAIN rows' = Callers
  BY DEF Cancel
<1>5. EngineTypes'
  <2>1. \A d \in Callers : rows'[d] \in [DOMAIN rows'[d] -> [replica : Replicas, st : Stands]]
    BY <1>1, CancelFits
  <2> QED
    BY <1>1, <1>2, <1>4, <2>1 DEF EngineTypes
<1>6. ModesFit' /\ MemoryIsAtPin'
  BY <1>1, <1>2, <1>3 DEF ModesFit, MemoryIsAtPin
<1>7. ASSUME NEW d \in Callers PROVE RowsFit(d)' /\ ResetFits(d)'
  <2>1. RowsFit(d)'
    BY <1>1, <1>2, <1>3, CancelFits DEF RowsFit
  <2>2. ResetFits(d)'
    BY <1>1, <1>2, <1>3 DEF ResetFits, ToRelease, At
  <2> QED
    BY <2>1, <2>2
<1> QED
  BY <1>5, <1>6, <1>7 DEF EngineInv

\* The steps at which a call takes and gives back its gates: while it is not at
\* work it has no rows.
LEMMA CallPreserves ==
  ASSUME GatesInv, EngineInv, NEW c \in Callers, NEW op \in {"execute", "reset"},
         NEW ks \in Asked, Call(c, op, ks), UNCHANGED modeVars
  PROVE  EngineInv'
<1>1. EngineTypes /\ ModesFit /\ MemoryIsAtPin /\ \A d \in Callers : RowsFit(d) /\ ResetFits(d)
  BY DEF EngineInv
<1>2. /\ UNCHANGED <<affinity, memory, rows, is_recurrent, retry_on_healthy>>
      /\ job' = [job EXCEPT ![c] = [NoJob EXCEPT !.op = op,
                                      !.at = IF op = "execute" THEN "assign" ELSE "lookup"]]
      /\ pc[c] = "idle" /\ pc' = [pc EXCEPT ![c] = "acquire"] /\ asked' = [asked EXCEPT ![c] = ks]
  BY DEF Call, Register, Goto, modeVars
<1>3. /\ pc'[c] = "acquire" /\ \A d \in Callers : d # c => pc'[d] = pc[d] /\ asked'[d] = asked[d]
  BY <1>2 DEF GatesInv, GateTypes
<1>4. /\ job'[c].at \in {"assign", "lookup"} /\ \A d \in Callers : d # c => job'[d] = job[d]
      /\ job' \in [Callers ->
           [op : {"none", "execute", "reset"},
            at : {"none", "assign", "gather", "lookup", "reset", "unpin", "over"},
            banned : SUBSET Replicas, left : SUBSET Replicas, now : Replicas \cup {Nobody}]]
  BY <1>1, <1>2 DEF EngineTypes, NoJob
<1>5. EngineTypes' /\ ModesFit' /\ MemoryIsAtPin'
  BY <1>1, <1>2, <1>4 DEF EngineTypes, ModesFit, MemoryIsAtPin, Pin
<1>6. \A k : Pin(k)' = Pin(k)
  BY <1>2 DEF Pin
<1>7. RowsFit(c)' /\ ResetFits(c)'
  <2>1. DOMAIN rows[c] = {}
    BY <1>1, <1>2 DEF RowsFit
  <2> QED
    BY <1>2, <1>3, <1>4, <2>1 DEF RowsFit, ResetFits, At
<1>8. ASSUME NEW d \in Callers, d # c PROVE RowsFit(d)' /\ ResetFits(d)'
  BY <1>1, <1>2, <1>3, <1>4, <1>6, <1>8, OthersFit
<1> QED
  BY <1>5, <1>7, <1>8 DEF EngineInv

LEMMA FinishPreserves ==
  ASSUME GatesInv, EngineInv, NEW c \in Callers, Finish(c), UNCHANGED modeVars
  PROVE  EngineInv'
<1>1. EngineTypes /\ ModesFit /\ MemoryIsAtPin /\ \A d \in Callers : RowsFit(d) /\ ResetFits(d)
  BY DEF EngineInv
<1>2. /\ UNCHANGED <<affinity, memory, asked, is_recurrent, retry_on_healthy>>
      /\ job' = [job EXCEPT ![c] = NoJob] /\ rows' = [rows EXCEPT ![c] = NoRows]
      /\ pc' = [pc EXCEPT ![c] = "release"]
  BY DEF Finish, Leave, Goto, modeVars
<1>3. /\ pc'[c] = "release" /\ \A d \in Callers : d # c => pc'[d] = pc[d]
  BY <1>2 DEF GatesInv, GateTypes
<1>4. /\ \A d \in Callers : d # c => job'[d] = job[d] /\ rows'[d] = rows[d]
      /\ rows'[c] = NoRows /\ DOMAIN rows' = Callers
      /\ job' \in [Callers ->
           [op : {"none", "execute", "reset"},
            at : {"none", "assign", "gather", "lookup", "reset", "unpin", "over"},
            banned : SUBSET Replicas, left : SUBSET Replicas, now : Replicas \cup {Nobody}]]
  BY <1>1, <1>2 DEF EngineTypes, NoJob
<1>5. EngineTypes'
  <2>1. \A d \in Callers : rows'[d] \in [DOMAIN rows'[d] -> [replica : Replicas, st : Stands]]
    BY <1>1, <1>4 DEF EngineTypes, NoRows
  <2> QED
    BY <1>1, <1>2, <1>4, <2>1 DEF EngineTypes
<1>6. ModesFit' /\ MemoryIsAtPin'
  BY <1>1, <1>2 DEF ModesFit, MemoryIsAtPin, Pin
<1>7. \A k : Pin(k)' = Pin(k)
  BY <1>2 DEF Pin
<1>8. RowsFit(c)' /\ ResetFits(c)'
  BY <1>3, <1>4 DEF RowsFit, ResetFits, At, NoRows
<1>9. ASSUME NEW d \in Callers, d # c PROVE RowsFit(d)' /\ ResetFits(d)'
  BY <1>1, <1>2, <1>3, <1>4, <1>7, <1>9, OthersFit
<1> QED
  BY <1>5, <1>6, <1>8, <1>9 DEF EngineInv

LEMMA GateMovePreserves ==
  ASSUME GatesInv, EngineInv, NEW c \in Callers, GateMove(c), UNCHANGED modeVars
  PROVE  EngineInv'
<1>1. EngineTypes /\ ModesFit /\ MemoryIsAtPin /\ \A d \in Callers : RowsFit(d) /\ ResetFits(d)
  BY DEF EngineInv
<1>2. UNCHANGED <<affinity, memory, job, rows, is_recurrent, retry_on_healthy>>
  BY DEF GateMove, engineVars, modeVars
<1>3. /\ \A d \in Callers : d # c => pc'[d] = pc[d] /\ asked'[d] = asked[d]
      /\ \/ pc'[c] = pc[c] /\ asked'[c] = asked[c]
         \/ pc[c] = "acquire" /\ pc'[c] = "body" /\ asked'[c] = asked[c]
         \/ pc[c] = "release" /\ pc'[c] = "idle"
  BY DEF GateMove, GateStep, Acquire, Enter, Release, Deregister, Goto, GatesInv, GateTypes
<1>4. EngineTypes' /\ ModesFit' /\ MemoryIsAtPin'
  BY <1>1, <1>2 DEF EngineTypes, ModesFit, MemoryIsAtPin, Pin
<1>5. \A k : Pin(k)' = Pin(k)
  BY <1>2 DEF Pin
<1>6. RowsFit(c)' /\ ResetFits(c)'
  <2>1. CASE pc'[c] = pc[c] /\ asked'[c] = asked[c]
    BY <1>1, <1>2, <1>5, <2>1, OthersFit
  <2>2. CASE pc[c] # "body" /\ pc'[c] # pc[c]
    <3>1. DOMAIN rows[c] = {}
      BY <1>1, <2>2 DEF RowsFit
    <3>2. pc'[c] # "acquire" /\ (pc'[c] = "body" => job[c].at \in {"assign", "lookup"})
      BY <1>1, <1>3, <2>2 DEF ResetFits
    <3> QED
      BY <1>2, <3>1, <3>2 DEF RowsFit, ResetFits, At
  <2> QED
    BY <1>3, <2>1, <2>2
<1>7. ASSUME NEW d \in Callers, d # c PROVE RowsFit(d)' /\ ResetFits(d)'
  BY <1>1, <1>2, <1>3, <1>5, <1>7, OthersFit
<1> QED
  BY <1>4, <1>6, <1>7 DEF EngineInv

LEMMA EngineStepPreserves ==
  ASSUME GatesInv, EngineInv, [Next]_vars
  PROVE  EngineInv'
<1>1. CASE UNCHANGED vars
  BY <1>1 DEF vars, gateVars, modeVars, engineVars, EngineInv, EngineTypes, ModesFit,
     MemoryIsAtPin, RowsFit, ResetFits, ToRelease, At, Pin
<1>2. ASSUME NEW c \in Callers, CallStep(c), UNCHANGED modeVars PROVE EngineInv'
  BY <1>2, GateMovePreserves, AssignPreserves, PaceStepPreserves, ResetPreserves,
     UnpinPreserves, FinishPreserves DEF CallStep
<1>3. ASSUME NEW c \in Callers, NEW k \in Keys, RowStep(c, k), UNCHANGED modeVars
      PROVE  EngineInv'
  BY <1>3, RowStepPreserves
<1>4. ASSUME NEW c \in Callers, NEW op \in {"execute", "reset"}, NEW ks \in Asked,
             Call(c, op, ks), UNCHANGED modeVars
      PROVE  EngineInv'
  BY <1>4, CallPreserves
<1>5. ASSUME NEW k \in Keys, Cancel(k), UNCHANGED modeVars PROVE EngineInv'
  BY <1>5, CancelPreserves
<1> QED
  BY <1>1, <1>2, <1>3, <1>4, <1>5 DEF Next, Advance

\* The engine's invariant holds throughout.
THEOREM EngineInvariant == Spec => []EngineInv
<1>1. Init => EngineInv
  BY EngineInitEstablishes
<1>2. GatesInv /\ EngineInv /\ [Next]_vars => EngineInv'
  BY EngineStepPreserves
<1>3. Spec => []GatesInv
  BY EngineKeepsGates, GatesInvariant, PTL
<1> QED
  BY <1>1, <1>2, <1>3, PTL DEF Spec

\* With any number of callers, sessions and replicas, and whatever is cancelled
\* or fails, a session's memory is on the replica it is pinned to only.
THEOREM MemoryStaysAtPin == Spec => []MemoryIsAtPin
<1>1. EngineInv => MemoryIsAtPin
  BY DEF EngineInv
<1> QED
  BY <1>1, EngineInvariant, PTL

\* No reset moves or drops the pin of a session while a row of it is routed.
THEOREM RoutedStaysPinned == Spec => []RoutedIsPinned
<1>1. EngineInv => RoutedIsPinned
  BY DEF EngineInv, RowsFit, RoutedIsPinned, UnderWay
<1> QED
  BY <1>1, EngineInvariant, PTL

\* A reset that has returned has left neither pin nor memory of its sessions.
THEOREM ResetLeavesNothing == Spec => []ResetIsComplete
<1>1. EngineInv => ResetIsComplete
  <2> SUFFICES ASSUME EngineInv, NEW c \in Callers, At(c, "reset", "over"),
                      NEW k \in Range(asked[c])
               PROVE  Pin(k) = Nobody /\ \A r \in Replicas : k \notin memory[r]
    BY DEF ResetIsComplete
  <2>1. Pin(k) = Nobody
    BY DEF EngineInv, ResetFits, ToRelease, At
  <2> QED
    BY <2>1, ReplicasAssumption DEF EngineInv, MemoryIsAtPin
<1> QED
  BY <1>1, EngineInvariant, PTL

\* The step form of NoReplay: a row that has its result keeps it.
LEMMA DoneStaysDone ==
  ASSUME GatesInv, EngineInv, [Next]_vars, NEW c \in Callers, NEW k \in DOMAIN rows[c],
         rows[c][k].st = "ok"
  PROVE  pc'[c] # "body" \/ RowAt(c, k, {"ok"})'
<1>1. EngineTypes /\ GateTypes /\ k \in Range(asked[c])
  BY DEF EngineInv, RowsFit, GatesInv
<1>2. CASE UNCHANGED rows
  BY <1>2 DEF RowAt
<1>3. ASSUME NEW d \in Callers, Assign(d) PROVE RowAt(c, k, {"ok"})'
  <2>1. CASE UNCHANGED rows
    BY <2>1 DEF RowAt
  <2>2. ASSUME NEW where, Route(d, where) PROVE RowAt(c, k, {"ok"})'
    <3>1. rows' = [rows EXCEPT ![d] =
             [x \in Range(asked[d]) |->
                IF x \in Pending(d) THEN [replica |-> where[x], st |-> "todo"] ELSE rows[d][x]]]
      BY <2>2 DEF Route
    <3>2. CASE d # c
      BY <1>1, <3>1, <3>2 DEF RowAt, EngineTypes
    <3>3. CASE d = c
      <4>1. k \notin Pending(c)
        BY DEF Pending
      <4> QED
        BY <1>1, <3>1, <3>3, <4>1 DEF RowAt, EngineTypes
    <3> QED
      BY <3>2, <3>3
  <2> QED
    BY <1>3, <2>1, <2>2 DEF Assign
<1>4. ASSUME NEW d \in Callers, Finish(d) PROVE pc'[c] # "body" \/ RowAt(c, k, {"ok"})'
  <2>1. CASE d = c
    BY <1>1, <1>4, <2>1 DEF Finish, Leave, Goto, GateTypes
  <2>2. CASE d # c
    BY <1>1, <1>4, <2>2 DEF Finish, RowAt, EngineTypes
  <2> QED
    BY <2>1, <2>2
<1>5. ASSUME NEW d \in Callers, NEW x \in Keys, RowStep(d, x) PROVE RowAt(c, k, {"ok"})'
  <2>1. PICK st \in Stands : SetRows(d, x, st) /\ (st \in UnderWay => rows[d][x].st \in UnderWay)
    BY <1>5, RowStepMoves
  <2>2. x \in DOMAIN rows[d] /\ rows[d][x].st # "ok"
    BY <1>5, RowStepMoves
  <2>3. CASE d # c
    BY <1>1, <2>1, <2>2, <2>3, SetRowsFits DEF RowAt
  <2>4. CASE d = c
    <3>1. DOMAIN rows'[c] = DOMAIN rows[c] /\ rows'[c][k] = rows[c][k]
      BY <1>1, <2>1, <2>2, <2>4, SetRowsFits
    <3> QED
      BY <3>1 DEF RowAt
  <2> QED
    BY <2>3, <2>4
<1>6. ASSUME NEW x \in Keys, Cancel(x) PROVE RowAt(c, k, {"ok"})'
  BY <1>1, <1>6, CancelFits DEF RowAt
<1>7. ASSUME NEW d \in Callers, CallStep(d) PROVE pc'[c] # "body" \/ RowAt(c, k, {"ok"})'
  <2>1. CASE GateMove(d) \/ Gather(d) \/ Lookup(d) \/ (\E r \in Replicas : Reset(d, r))
             \/ Unpin(d) \/ ResetDone(d)
    BY <1>2, <2>1 DEF GateMove, engineVars, Gather, Lookup, Reset, Unpin, ResetDone
  <2> QED
    BY <1>3, <1>4, <1>7, <2>1 DEF CallStep
<1>8. ASSUME NEW d \in Callers, NEW op, NEW ks \in Asked, Call(d, op, ks)
      PROVE  RowAt(c, k, {"ok"})'
  BY <1>8, <1>2 DEF Call, RowAt
<1>9. CASE UNCHANGED vars
  BY <1>2, <1>9 DEF vars, engineVars
<1> QED
  BY <1>5, <1>6, <1>7, <1>8, <1>9 DEF Next, Advance

\* No retry runs a row again that has its result.
THEOREM RetriesReplayNothing == Spec => NoReplay
<1>1. GatesInv /\ EngineInv /\ [Next]_vars =>
        [\A c \in Callers : \A k \in DOMAIN rows[c] :
           rows[c][k].st = "ok" => pc'[c] # "body" \/ RowAt(c, k, {"ok"})']_vars
  BY DoneStaysDone
<1>2. Spec => []GatesInv /\ []EngineInv
  BY EngineKeepsGates, GatesInvariant, EngineInvariant, PTL
<1> QED
  BY <1>1, <1>2, PTL DEF Spec, NoReplay

-----------------------------------------------------------------------------
(* Whatever calls wait for, gates or execution locks, some call can go on. *)

\* Of the rows of a call, the guards of their steps.
RowCanGo(c, k) ==
  \/ RowAt(c, k, {"run", "cancelled", "raised"})
  \/ RowAt(c, k, {"todo"}) /\ InTurn(c, k)
  \/ RowAt(c, k, {"queued"}) /\ lock[rows[c][k].replica] = Nobody

Settled(c) == \A k \in DOMAIN rows[c] : RowAt(c, k, {"ok", "error"})

\* Of a call that has its gates, the guards of its steps and of its rows'.
BodyCanGo(c) ==
  \/ job[c].at = "over"
  \/ At(c, "execute", "assign")
  \/ At(c, "execute", "gather") /\ Settled(c)
  \/ At(c, "reset", "lookup") \/ At(c, "reset", "unpin")
  \/ At(c, "reset", "reset") /\ (job[c].left = {} \/ \E r \in job[c].left : lock[r] = Nobody)
  \/ \E k \in DOMAIN rows[c] : RowCanGo(c, k)

CanGo(c) ==
  \/ pc[c] = "acquire" /\ ~Waiting(c)
  \/ pc[c] = "body" /\ BodyCanGo(c)
  \/ pc[c] = "release"

SomeCallCanGo == (\E c \in Callers : pc[c] # "idle") => \E c \in Callers : CanGo(c)

\* A call holds the lock of a replica only while a row of it runs there, and it
\* has unsettled rows only while it gathers their outcomes.
HeldByRow(r) ==
  lock[r] # Nobody =>
    /\ lock[r] \in Callers
    /\ \E k \in DOMAIN rows[lock[r]] : /\ rows[lock[r]][k].replica = r
                                     /\ rows[lock[r]][k].st \in {"run", "cancelled"}

StageFits(c) ==
  /\ job[c].at # "gather" => Settled(c)
  /\ job[c].at = "gather" => Range(asked[c]) \subseteq DOMAIN rows[c]
  /\ pc[c] \in {"acquire", "body"} =>
       \/ job[c].op = "execute" /\ job[c].at \in {"assign", "gather", "over"}
       \/ job[c].op = "reset" /\ job[c].at \in {"lookup", "reset", "unpin", "over"}

LocksInv ==
  /\ DOMAIN lock = Replicas
  /\ \A r \in Replicas : HeldByRow(r)
  /\ \A c \in Callers : StageFits(c)

LEMMA LocksInit ==
  ASSUME Init
  PROVE  LocksInv
<1>1. DOMAIN lock = Replicas /\ \A r \in Replicas : lock[r] = Nobody
  BY DEF Init
<1>2. \A c \in Callers : rows[c] = NoRows /\ pc[c] = "idle" /\ job[c].at = "none"
  BY DEF Init, GatesInit, NoJob
<1> QED
  BY <1>1, <1>2 DEF LocksInv, HeldByRow, StageFits, Settled, NoRows

\* Steps that leave the rows at work and the locks alone.
LEMMA LocksStay ==
  ASSUME LocksInv, UNCHANGED lock,
         \A c \in Callers : \A k \in DOMAIN rows[c] :
           rows[c][k].st \in {"run", "cancelled"} =>
             /\ k \in DOMAIN rows'[c] /\ rows'[c][k].replica = rows[c][k].replica
             /\ rows'[c][k].st \in {"run", "cancelled"}
  PROVE  DOMAIN lock' = Replicas /\ \A r \in Replicas : HeldByRow(r)'
BY DEF LocksInv, HeldByRow

LEMMA RowStepLocks ==
  ASSUME EngineTypes, LocksInv, NEW c \in Callers, NEW k \in Keys, RowStep(c, k)
  PROVE  LocksInv'
<1>1. k \in DOMAIN rows[c] /\ rows[c][k].st # "ok" /\ UNCHANGED <<pc, asked, job>>
  BY RowStepMoves
<1>2. PICK st \in Stands : SetRows(c, k, st) /\ (st \in UnderWay => rows[c][k].st \in UnderWay)
  BY RowStepMoves
<1>3. /\ \A d \in Callers : d # c => rows'[d] = rows[d]
      /\ DOMAIN rows'[c] = DOMAIN rows[c]
      /\ \A x \in DOMAIN rows[c] : rows'[c][x].replica = rows[c][x].replica
  BY <1>1, <1>2, SetRowsFits
<1>4. rows[c][k].st # "error" /\ rows[c][k].replica \in Replicas
  BY <1>1 DEF RowStep, Start, Run, Succeed, SessionFails, ModelFails, Fence, RowAt, EngineTypes
<1> PICK q \in Replicas : q = rows[c][k].replica
  BY <1>4
<1>5. job[c].at = "gather"
  BY <1>1, <1>4 DEF LocksInv, StageFits, Settled, RowAt
<1>6. \A d \in Callers : StageFits(d)'
  BY <1>1, <1>3, <1>5 DEF LocksInv, StageFits, Settled, RowAt
<1>7. /\ \A x \in Unit(c, k) : rows'[c][x] = [rows[c][x] EXCEPT !.st = st] /\ rows[c][x] = rows[c][k]
      /\ \A x \in DOMAIN rows[c] \ Unit(c, k) : rows'[c][x] = rows[c][x]
      /\ k \in Unit(c, k)
  BY <1>1, <1>2 DEF SetRows, Unit, EngineTypes
<1>8. CASE rows[c][k].st \in {"todo", "raised"} /\ UNCHANGED lock
  <2>1. \A d \in Callers : \A x \in DOMAIN rows[d] :
          rows[d][x].st \in {"run", "cancelled"} =>
            x \in DOMAIN rows'[d] /\ rows'[d][x] = rows[d][x]
    BY <1>3, <1>7, <1>8
  <2> QED
    BY <1>6, <1>8, <2>1, LocksStay DEF LocksInv
<1>9. CASE Run(c, k)
  <2>1. CASE UNCHANGED lock
    <3>1. \A d \in Callers : \A x \in DOMAIN rows[d] :
            rows[d][x].st \in {"run", "cancelled"} =>
              x \in DOMAIN rows'[d] /\ rows'[d][x] = rows[d][x]
      BY <1>3, <1>7, <1>9 DEF Run, RowAt
    <3> QED
      BY <1>6, <2>1, <3>1, LocksStay DEF LocksInv
  <2>2. CASE SetRows(c, k, "run") /\ lock' = [lock EXCEPT ![rows[c][k].replica] = c]
    <3>1. rows'[c][k].replica = rows[c][k].replica /\ rows'[c][k].st = "run"
      BY <1>1, <1>3, <1>7, <2>2 DEF SetRows, EngineTypes
    <3>2. lock'[q] = c /\ DOMAIN lock' = Replicas
      BY <1>4, <2>2 DEF LocksInv
    <3>3. HeldByRow(q)'
      BY <1>1, <1>3, <3>1, <3>2 DEF HeldByRow
    <3>4. ASSUME NEW r \in Replicas, r # q PROVE HeldByRow(r)'
      <4>1. lock'[r] = lock[r]
        BY <2>2, <3>4 DEF LocksInv
      <4>2. \A d \in Callers : \A x \in DOMAIN rows[d] :
              rows[d][x].replica = r => rows'[d][x] = rows[d][x]
        BY <1>3, <1>7, <3>4
      <4> QED
        BY <1>3, <4>1, <4>2 DEF LocksInv, HeldByRow
    <3> QED
      BY <1>6, <3>2, <3>3, <3>4 DEF LocksInv
  <2> QED
    BY <1>9, <2>1, <2>2 DEF Run
<1>10. CASE Unlock(rows[c][k].replica)
  <2>1. DOMAIN lock' = Replicas /\ lock'[q] = Nobody
    BY <1>4, <1>10 DEF Unlock, LocksInv
  <2>2. ASSUME NEW r \in Replicas, r # q PROVE HeldByRow(r)'
    <3>1. lock'[r] = lock[r]
      BY <1>10, <2>2 DEF Unlock, LocksInv
    <3>2. \A d \in Callers : \A x \in DOMAIN rows[d] :
            rows[d][x].replica = r => rows'[d][x] = rows[d][x]
      BY <1>3, <1>7, <2>2
    <3> QED
      BY <1>3, <3>1, <3>2 DEF LocksInv, HeldByRow
  <2>3. HeldByRow(q)'
    BY <2>1 DEF HeldByRow
  <2> QED
    BY <1>6, <2>1, <2>2, <2>3 DEF LocksInv
<1>11. \/ rows[c][k].st \in {"todo", "raised"} /\ UNCHANGED lock
       \/ Run(c, k)
       \/ Unlock(rows[c][k].replica)
  BY DEF RowStep, Start, Succeed, SessionFails, ModelFails, Fence, RowAt
<1> QED
  BY <1>8, <1>9, <1>10, <1>11

LEMMA AssignLocks ==
  ASSUME EngineTypes, GatesInv, LocksInv, NEW c \in Callers, RowsFit(c), Assign(c)
  PROVE  LocksInv'
<1>1. /\ pc[c] = "body" /\ job[c].op = "execute" /\ job[c].at = "assign"
      /\ UNCHANGED <<pc, asked, lock>>
  BY DEF Assign, At, Route, gateVars
<1>2. CASE GotoJob(c, "over") /\ UNCHANGED rows
  <2>1. /\ \A d \in Callers : d # c => job'[d] = job[d]
        /\ job'[c].op = "execute" /\ job'[c].at = "over"
    BY <1>1, <1>2 DEF GotoJob, EngineTypes
  <2>2. \A d \in Callers : StageFits(d)'
    BY <1>1, <1>2, <2>1 DEF LocksInv, StageFits, Settled, RowAt
  <2>3. DOMAIN lock' = Replicas /\ \A r \in Replicas : HeldByRow(r)'
    BY <1>1, <1>2, LocksStay
  <2> QED
    BY <2>2, <2>3 DEF LocksInv
<1>3. ASSUME NEW where, Route(c, where) PROVE LocksInv'
  <2>1. /\ \A d \in Callers : d # c => job'[d] = job[d]
        /\ job'[c].op = "execute" /\ job'[c].at = "gather"
    BY <1>1, <1>3 DEF Route, GotoJob, EngineTypes
  <2>2. (\A d \in Callers : d # c => rows'[d] = rows[d]) /\ DOMAIN rows'[c] = Range(asked[c])
    BY <1>3 DEF Route, EngineTypes
  <2>3. \A d \in Callers : StageFits(d)'
    BY <1>1, <2>1, <2>2 DEF LocksInv, StageFits, Settled, RowAt
  <2>4. Settled(c)
    BY <1>1 DEF LocksInv, StageFits
  <2>5. \A d \in Callers : \A k \in DOMAIN rows[d] :
          rows[d][k].st \in {"run", "cancelled"} => rows'[d] = rows[d]
    BY <2>2, <2>4 DEF Settled, RowAt
  <2>6. DOMAIN lock' = Replicas /\ \A r \in Replicas : HeldByRow(r)'
    BY <1>1, <2>5, LocksStay
  <2> QED
    BY <2>3, <2>6 DEF LocksInv
<1> QED
  BY <1>2, <1>3 DEF Assign

LEMMA FinishLocks ==
  ASSUME EngineTypes, GatesInv, LocksInv, NEW c \in Callers, Finish(c)
  PROVE  LocksInv'
<1>1. /\ job[c].at = "over" /\ UNCHANGED <<lock, asked>> /\ pc' = [pc EXCEPT ![c] = "release"]
      /\ job' = [job EXCEPT ![c] = NoJob] /\ rows' = [rows EXCEPT ![c] = NoRows]
  BY DEF Finish, Leave, Goto
<1>2. /\ \A d \in Callers : d # c => job'[d] = job[d] /\ rows'[d] = rows[d] /\ pc'[d] = pc[d]
      /\ rows'[c] = NoRows /\ job'[c] = NoJob /\ pc'[c] = "release"
  BY <1>1 DEF EngineTypes, GatesInv, GateTypes
<1>3. \A d \in Callers : StageFits(d)'
  BY <1>1, <1>2 DEF LocksInv, StageFits, Settled, RowAt, NoRows, NoJob
<1>4. Settled(c)
  BY <1>1 DEF LocksInv, StageFits
<1>5. \A d \in Callers : \A k \in DOMAIN rows[d] :
        rows[d][k].st \in {"run", "cancelled"} => rows'[d] = rows[d]
  BY <1>2, <1>4 DEF Settled, RowAt
<1>6. DOMAIN lock' = Replicas /\ \A r \in Replicas : HeldByRow(r)'
  BY <1>1, <1>5, LocksStay
<1> QED
  BY <1>3, <1>6 DEF LocksInv

LEMMA CancelLocks ==
  ASSUME EngineTypes, LocksInv, NEW x, Cancel(x)
  PROVE  LocksInv'
<1>1. UNCHANGED <<pc, asked, job, lock>>
  BY DEF Cancel, gateVars
<1>2. \A d \in Callers : DOMAIN rows'[d] = DOMAIN rows[d]
  BY DEF Cancel
<1>3. \A d \in Callers : \A k \in DOMAIN rows[d] :
        \/ rows'[d][k] = rows[d][k]
        \/ rows[d][k].st = "run" /\ rows'[d][k] = [rows[d][k] EXCEPT !.st = "cancelled"]
  BY DEF Cancel, RowAt
<1>4. \A d \in Callers : \A k \in DOMAIN rows[d] : rows[d][k] \in [replica : Replicas, st : Stands]
  BY DEF EngineTypes
<1>5. \A d \in Callers : \A k \in DOMAIN rows[d] :
        rows[d][k].st \in {"run", "cancelled"} =>
          /\ k \in DOMAIN rows'[d] /\ rows'[d][k].replica = rows[d][k].replica
          /\ rows'[d][k].st \in {"run", "cancelled"}
  <2> SUFFICES ASSUME NEW d \in Callers, NEW k \in DOMAIN rows[d],
                      rows[d][k].st \in {"run", "cancelled"}
               PROVE  /\ k \in DOMAIN rows'[d] /\ rows'[d][k].replica = rows[d][k].replica
                      /\ rows'[d][k].st \in {"run", "cancelled"}
    OBVIOUS
  <2>1. CASE rows'[d][k] = rows[d][k]
    BY <1>2, <2>1
  <2>2. CASE rows'[d][k] = [rows[d][k] EXCEPT !.st = "cancelled"]
    BY <1>2, <1>4, <2>2
  <2> QED
    BY <1>3, <2>1, <2>2
<1>6. DOMAIN lock' = Replicas /\ \A r \in Replicas : HeldByRow(r)'
  BY <1>1, <1>5, LocksStay
<1>7. ASSUME NEW d \in Callers PROVE StageFits(d)'
  BY <1>1, <1>2, <1>3 DEF LocksInv, StageFits, Settled, RowAt
<1> QED
  BY <1>6, <1>7 DEF LocksInv

\* The steps of a call that leave rows and locks alone.
LEMMA PaceLocks ==
  ASSUME EngineTypes, GatesInv, LocksInv, NEW c \in Callers, RowsFit(c), ResetFits(c),
         GateMove(c) \/ Gather(c) \/ Lookup(c) \/ (\E r \in Replicas : Reset(c, r))
           \/ Unpin(c) \/ ResetDone(c)
  PROVE  LocksInv'
<1>1. UNCHANGED <<lock, rows>>
  BY DEF GateMove, engineVars, Gather, Lookup, Reset, Unpin, ResetDone
<1>2. DOMAIN lock' = Replicas /\ \A r \in Replicas : HeldByRow(r)'
  BY <1>1, LocksStay
<1> DEFINE Stays == /\ job'[c] = job[c] /\ asked'[c] \in {asked[c], <<>>}
                    /\ pc'[c] \in {"acquire", "body"} => pc[c] \in {"acquire", "body"}
           Goes == /\ pc[c] = "body" /\ pc'[c] = pc[c] /\ job'[c].op = job[c].op
                   /\ \/ Settled(c) /\ job[c].op = "execute" /\ job'[c].at \in {"assign", "over"}
                      \/ job[c].op = "reset" /\ job'[c].at \in {"reset", "unpin", "over"}
<1>3. /\ \A d \in Callers : d # c => job'[d] = job[d] /\ pc'[d] = pc[d] /\ asked'[d] = asked[d]
      /\ Stays \/ Goes
  <2>1. CASE GateMove(c)
    BY <2>1 DEF GateMove, engineVars, GateStep, Acquire, Enter, Release, Deregister, Goto,
       GatesInv, GateTypes
  <2>2. CASE Gather(c)
    BY <2>2 DEF Gather, At, EngineTypes, gateVars, Settled, RowAt
  <2>3. CASE Lookup(c) \/ Unpin(c) \/ ResetDone(c)
    BY <2>3 DEF Lookup, Unpin, ResetDone, GotoJob, At, EngineTypes, gateVars
  <2>4. ASSUME NEW r \in Replicas, Reset(c, r)
        PROVE  /\ \A d \in Callers : d # c => job'[d] = job[d] /\ pc'[d] = pc[d] /\ asked'[d] = asked[d]
               /\ Goes
    <3>1. /\ pc[c] = "body" /\ job[c].op = "reset" /\ pc' = pc /\ asked' = asked
          /\ job' = [job EXCEPT ![c].at = "unpin", ![c].now = r, ![c].left = @ \ {r}]
      BY <2>4 DEF Reset, At, gateVars
    <3>2. /\ \A d \in Callers : d # c => job'[d] = job[d]
          /\ job'[c].op = job[c].op /\ job'[c].at = "unpin"
      BY <3>1 DEF EngineTypes
    <3> QED
      BY <3>1, <3>2
  <2> QED
    BY <2>1, <2>2, <2>3, <2>4
<1>4. job[c].op = "reset" => Settled(c)
  BY DEF RowsFit, Settled
<1>5. \A d \in Callers : Settled(d)' = Settled(d) /\ rows'[d] = rows[d]
  BY <1>1 DEF Settled, RowAt
<1>6. ASSUME NEW d \in Callers PROVE StageFits(d)'
  <2>1. CASE d # c
    BY <1>3, <1>5, <2>1 DEF LocksInv, StageFits
  <2>2. CASE d = c /\ Stays
    BY <1>3, <1>5, <2>2 DEF LocksInv, StageFits, Range
  <2>3. CASE d = c /\ Goes
    BY <1>3, <1>4, <1>5, <2>3 DEF LocksInv, StageFits
  <2> QED
    BY <1>3, <2>1, <2>2, <2>3
<1> QED
  BY <1>2, <1>6 DEF LocksInv

LEMMA LocksStep ==
  ASSUME GatesInv, EngineInv, LocksInv, [Next]_vars
  PROVE  LocksInv'
<1>1. EngineTypes /\ \A c \in Callers : RowsFit(c) /\ ResetFits(c)
  BY DEF EngineInv
<1>2. CASE UNCHANGED vars
  <2>1. UNCHANGED <<lock, rows, job, pc, asked>>
    BY <1>2 DEF vars, engineVars, gateVars
  <2>2. DOMAIN lock' = Replicas /\ \A r \in Replicas : HeldByRow(r)'
    BY <2>1, LocksStay
  <2> QED
    BY <2>1, <2>2 DEF LocksInv, StageFits, Settled, RowAt
<1>3. ASSUME NEW c \in Callers, CallStep(c) PROVE LocksInv'
  BY <1>1, <1>3, PaceLocks, AssignLocks, FinishLocks DEF CallStep
<1>4. ASSUME NEW c \in Callers, NEW k \in Keys, RowStep(c, k) PROVE LocksInv'
  BY <1>1, <1>4, RowStepLocks
<1>5. ASSUME NEW c \in Callers, NEW op \in {"execute", "reset"}, NEW ks \in Asked,
             Call(c, op, ks)
      PROVE  LocksInv'
  <2>1. /\ UNCHANGED <<lock, rows>> /\ pc' = [pc EXCEPT ![c] = "acquire"] /\ pc[c] = "idle"
        /\ asked' = [asked EXCEPT ![c] = ks]
        /\ job' = [job EXCEPT ![c] = [NoJob EXCEPT !.op = op,
                      !.at = IF op = "execute" THEN "assign" ELSE "lookup"]]
    BY <1>5 DEF Call, Register, Goto
  <2>2. /\ \A d \in Callers : d # c => pc'[d] = pc[d] /\ job'[d] = job[d] /\ asked'[d] = asked[d]
        /\ pc'[c] = "acquire" /\ job'[c].op = op
        /\ job'[c].at = IF op = "execute" THEN "assign" ELSE "lookup"
    BY <1>1, <2>1 DEF GatesInv, GateTypes, EngineTypes, NoJob
  <2>3. DOMAIN lock' = Replicas /\ \A r \in Replicas : HeldByRow(r)'
    BY <2>1, LocksStay
  <2>4. DOMAIN rows[c] = {}
    BY <1>1, <2>1 DEF RowsFit
  <2>5. \A d \in Callers : StageFits(d)'
    BY <2>1, <2>2, <2>4 DEF LocksInv, StageFits, Settled, RowAt
  <2> QED
    BY <2>3, <2>5 DEF LocksInv
<1>6. ASSUME NEW k \in Keys, Cancel(k) PROVE LocksInv'
  BY <1>1, <1>6, CancelLocks
<1> QED
  BY <1>2, <1>3, <1>4, <1>5, <1>6 DEF Next, Advance

\* A replica whose lock is taken is at a row that can go on.
LEMMA HolderCanGo ==
  ASSUME EngineInv, LocksInv, NEW r \in Replicas, lock[r] # Nobody
  PROVE  \E d \in Callers : CanGo(d)
<1>1. lock[r] \in Callers
  BY DEF LocksInv, HeldByRow
<1>2. PICK k \in DOMAIN rows[lock[r]] : rows[lock[r]][k].st \in {"run", "cancelled"}
  BY DEF LocksInv, HeldByRow
<1>3. pc[lock[r]] = "body"
  BY <1>1, <1>2 DEF EngineInv, RowsFit
<1> QED
  BY <1>1, <1>2, <1>3 DEF CanGo, BodyCanGo, RowCanGo, RowAt

\* The first row of a call, in its order, that is not settled can go on, unless
\* it waits for a replica that another row keeps.
LEMMA GathererCanGo ==
  ASSUME GatesInv, EngineInv, LocksInv, NEW c \in Callers,
         pc[c] = "body", job[c].at = "gather", ~Settled(c)
  PROVE  \E d \in Callers : CanGo(d)
<1>1. /\ DOMAIN rows[c] \subseteq Range(asked[c])
      /\ rows[c] \in [DOMAIN rows[c] -> [replica : Replicas, st : Stands]]
  BY DEF EngineInv, RowsFit, EngineTypes
<1>2. asked[c] \in Asked
  <2>1. Range(asked[c]) # {}
    BY <1>1 DEF Settled
  <2> QED
    BY <2>1 DEF GatesInv, GateTypes, Range
<1>3. DOMAIN asked[c] \subseteq Nat /\ \A m, n \in DOMAIN asked[c] : asked[c][m] = asked[c][n] => m = n
  BY <1>2, AskedIsFinite
<1> DEFINE Open == {n \in DOMAIN asked[c] :
                      /\ asked[c][n] \in DOMAIN rows[c]
                      /\ rows[c][asked[c][n]].st \notin {"ok", "error"}}
<1>4. Open \in SUBSET Nat /\ Open # {}
  <2>1. PICK k \in DOMAIN rows[c] : rows[c][k].st \notin {"ok", "error"}
    BY DEF Settled, RowAt
  <2>2. PICK n \in DOMAIN asked[c] : asked[c][n] = k
    BY <1>1 DEF Range
  <2> QED
    BY <1>3, <2>1, <2>2
<1>5. PICK n \in Open : \A m \in Open : n <= m
  BY <1>4, LeastExists
<1> DEFINE k == asked[c][n]
<1>6. /\ k \in DOMAIN rows[c] /\ rows[c][k].replica \in Replicas
      /\ rows[c][k].st \in {"todo", "queued", "run", "cancelled", "raised"}
  BY <1>1 DEF Stands
<1>7. CASE rows[c][k].st \in {"run", "cancelled", "raised"}
  BY <1>6, <1>7 DEF CanGo, BodyCanGo, RowCanGo, RowAt
<1>8. CASE rows[c][k].st = "queued"
  <2>1. CASE lock[rows[c][k].replica] = Nobody
    BY <1>6, <1>8, <2>1 DEF CanGo, BodyCanGo, RowCanGo, RowAt
  <2>2. CASE lock[rows[c][k].replica] # Nobody
    BY <1>6, <2>2, HolderCanGo
  <2> QED
    BY <2>1, <2>2
<1>9. CASE rows[c][k].st = "todo"
  <2>1. \A m \in DOMAIN asked[c] : asked[c][m] \in DOMAIN rows[c]
    BY DEF LocksInv, StageFits, Range
  <2>2. InTurn(c, k)
    <3> SUFFICES ASSUME NEW m \in DOMAIN asked[c], NEW l \in DOMAIN asked[c],
                        asked[c][l] = k, m < l
                 PROVE  rows[c][asked[c][m]].st \in {"ok", "error"}
      BY DEF InTurn
    <3>1. l = n
      BY <1>3
    <3>2. m \notin Open
      BY <1>3, <1>5, <3>1
    <3> QED
      BY <2>1, <3>2
  <2> QED
    BY <1>6, <1>9, <2>2 DEF CanGo, BodyCanGo, RowCanGo, RowAt
<1> QED
  BY <1>6, <1>7, <1>8, <1>9

LEMMA BodyGoesOn ==
  ASSUME GatesInv, EngineInv, LocksInv, NEW c \in Callers, pc[c] = "body"
  PROVE  \E d \in Callers : CanGo(d)
<1>1. \/ At(c, "execute", "assign") \/ At(c, "execute", "gather")
      \/ At(c, "reset", "lookup") \/ At(c, "reset", "reset") \/ At(c, "reset", "unpin")
      \/ job[c].at = "over"
  BY DEF LocksInv, StageFits, At
<1>2. CASE \/ At(c, "execute", "assign") \/ At(c, "reset", "lookup") \/ At(c, "reset", "unpin")
           \/ job[c].at = "over"
  <2>1. BodyCanGo(c)
    BY <1>2, Zenon DEF BodyCanGo
  <2> QED
    BY <2>1, Zenon DEF CanGo
<1>3. CASE At(c, "execute", "gather")
  <2>1. CASE Settled(c)
    BY <1>3, <2>1 DEF CanGo, BodyCanGo
  <2> QED
    BY <1>3, <2>1, GathererCanGo DEF At
<1>4. CASE At(c, "reset", "reset")
  <2>1. CASE job[c].left = {} \/ \E r \in job[c].left : lock[r] = Nobody
    BY <1>4, <2>1 DEF CanGo, BodyCanGo
  <2>2. ASSUME NEW r \in job[c].left, lock[r] # Nobody PROVE \E d \in Callers : CanGo(d)
    <3>1. r \in Replicas
      BY DEF EngineInv, EngineTypes
    <3> QED
      BY <2>2, <3>1, HolderCanGo
  <2> QED
    BY <2>1, <2>2
<1> QED
  BY <1>1, <1>2, <1>3, <1>4

\* However many calls overlap, on whatever sessions and replicas, and whatever
\* fails: while a call is under way, the guards of some step of some call hold.
\* No call can wait for a gate whose holder waits for it in turn, and none of a
\* call's threads keeps an execution lock while it waits for something else.
THEOREM SomeCallGoesOn == Spec => []SomeCallCanGo
<1>1. Spec => []LocksInv
  <2>1. Init => LocksInv
    BY LocksInit
  <2>2. GatesInv /\ EngineInv /\ LocksInv /\ [Next]_vars => LocksInv'
    BY LocksStep
  <2>3. Spec => []GatesInv
    BY EngineKeepsGates, GatesInvariant, PTL
  <2> QED
    BY <2>1, <2>2, <2>3, EngineInvariant, PTL DEF Spec
<1>2. GatesInv /\ EngineInv /\ LocksInv => SomeCallCanGo
  <2> SUFFICES ASSUME GatesInv, EngineInv, LocksInv, NEW c \in Callers, pc[c] # "idle"
               PROVE  \E d \in Callers : CanGo(d)
    BY DEF SomeCallCanGo
  <2>1. ASSUME NEW d \in Callers, pc[d] # "idle", ~Waiting(d)
        PROVE  \E e \in Callers : CanGo(e)
    <3>1. pc[d] \in {"acquire", "body", "release"}
      BY <2>1 DEF GatesInv, GateTypes
    <3> QED
      BY <2>1, <3>1, BodyGoesOn DEF CanGo
  <2>2. CASE Waiting(c)
    <3>1. PICK d \in Callers : Acquired(d) # {} /\ ~Waiting(d)
      BY <2>2, SomeHolderIsFree
    <3>2. pc[d] # "idle"
      BY <3>1, IdleHasNothing
    <3> QED
      BY <2>1, <3>1, <3>2
  <2> QED
    BY <2>1, <2>2
<1>3. Spec => []GatesInv
  BY EngineKeepsGates, GatesInvariant, PTL
<1> QED
  BY <1>1, <1>2, <1>3, EngineInvariant, PTL

=============================================================================
