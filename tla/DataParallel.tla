------------------------------- MODULE DataParallel -------------------------------
(***************************************************************************)
(* engine/parallel/data_parallel.py: DataParallelEngine over replicas that *)
(* each hold a full model (InProcessReplica).  execute routes every row of *)
(* a call to a replica, honouring and creating session pins, runs the      *)
(* replicas side by side, and gathers; reset_sessions clears a session on  *)
(* its replica and then releases the pin; both hold the sessions' gates    *)
(* (SessionGates) throughout.  cancel_sessions holds none.                 *)
(*                                                                         *)
(* Every call names sessions here; a row of a call is named by its         *)
(* session.  The dispatcher may choose any available replica, which covers *)
(* both dispatchers of the code.  The pool's size only delays tasks.  The  *)
(* replicas' health is read at one instant where the code asks them one by *)
(* one.  Of a session's memory on a replica, it is kept whether there is   *)
(* any.                                                                    *)
(***************************************************************************)
EXTENDS SessionGates

CONSTANT Replicas

VARIABLES
  is_recurrent,      \* one transaction per row, memory per session
  retry_on_healthy,  \* failed rows go to other replicas; fixed, as is_recurrent is
  affinity,  \* _session_affinity: from sessions to replicas
  memory,    \* per replica, the sessions it has committed memory of
  failed,    \* the replicas whose _failed is set
  lock,      \* per replica, who holds _execution_lock
  job,       \* per caller, how far the body of its call is
  rows       \* per caller, its rows: the replica, and how the row stands there

modeVars == <<is_recurrent, retry_on_healthy>>
engineVars == <<affinity, memory, failed, lock, job, rows>>
vars == <<gateVars, modeVars, engineVars>>

ASSUME ReplicasAssumption == Nobody \notin Replicas

NoJob == [op |-> "none", at |-> "none", banned |-> {}, left |-> {}, now |-> Nobody]
NoRows == [k \in {} |-> 0]

Init ==
  /\ GatesInit
  /\ is_recurrent \in BOOLEAN /\ retry_on_healthy \in BOOLEAN
  /\ ~(is_recurrent /\ retry_on_healthy)
  /\ affinity = [k \in {} |-> Nobody]
  /\ memory = [r \in Replicas |-> {}]
  /\ failed = {}
  /\ lock = [r \in Replicas |-> Nobody]
  /\ job = [c \in Callers |-> NoJob]
  /\ rows = [c \in Callers |-> NoRows]

\* The pin of k, if it has one.
Pin(k) == IF k \in DOMAIN affinity THEN affinity[k] ELSE Nobody

At(c, op, at) == pc[c] = "body" /\ job[c].op = op /\ job[c].at = at
GotoJob(c, at) == job' = [job EXCEPT ![c].at = at]

-----------------------------------------------------------------------------
(* A call, from taking its gates to giving them back.                      *)

Call(c, op, ks) ==
  /\ Register(c, ks)
  /\ job' = [job EXCEPT ![c] = [NoJob EXCEPT !.op = op,
                                  !.at = IF op = "execute" THEN "assign" ELSE "lookup"]]
  /\ UNCHANGED <<affinity, memory, failed, lock, rows>>

\* The body is over: it has returned or raised.
Finish(c) ==
  /\ job[c].at = "over"
  /\ Leave(c)
  /\ job' = [job EXCEPT ![c] = NoJob]
  /\ rows' = [rows EXCEPT ![c] = NoRows]
  /\ UNCHANGED <<affinity, memory, failed, lock>>

-----------------------------------------------------------------------------
(* execute: routing.                                                       *)

Available(c) == (Replicas \ failed) \ job[c].banned

\* Mutant: a retry runs every row again.
PendingAll(c) == Range(asked[c])

\* The rows without a result: all of them, or those that failed last time.
Pending(c) ==
  {k \in Range(asked[c]) : k \in DOMAIN rows[c] => rows[c][k].st = "error"}

Stranded(c) == {k \in Pending(c) : Pin(k) \notin Available(c) \cup {Nobody}}

\* Each pending row goes to the pin of its session, or anywhere; a session
\* without a usable pin is pinned to where its row goes.
Route(c, where) ==
  /\ \A k \in Pending(c) : Pin(k) \in Available(c) => where[k] = Pin(k)
  /\ affinity' = [k \in DOMAIN affinity \cup Pending(c) |->
                    IF k \in Pending(c) THEN where[k] ELSE affinity[k]]
  /\ rows' = [rows EXCEPT ![c] =
                [k \in Range(asked[c]) |->
                   IF k \in Pending(c) THEN [replica |-> where[k], st |-> "todo"] ELSE @[k]]]
  /\ GotoJob(c, "gather")
  /\ UNCHANGED <<memory, failed, lock>>

\* Mutant: a session whose replica is gone starts on another.
AssignMigrating(c) ==
  /\ At(c, "execute", "assign")
  /\ IF Available(c) = {}
     THEN GotoJob(c, "over") /\ UNCHANGED <<affinity, memory, failed, lock, rows>>
     ELSE \E where \in [Pending(c) -> Available(c)] : Route(c, where)
  /\ UNCHANGED gateVars

\* _assign_replicas: a pin to an unavailable replica is given up only for
\* stateless rows that may be retried.
Assign(c) ==
  /\ At(c, "execute", "assign")
  /\ IF Available(c) = {} \/ (Stranded(c) # {} /\ ~retry_on_healthy)
     THEN GotoJob(c, "over") /\ UNCHANGED <<affinity, memory, failed, lock, rows>>
     ELSE \E where \in [Pending(c) -> Available(c)] : Route(c, where)
  /\ UNCHANGED gateVars

-----------------------------------------------------------------------------
(* execute: one task per replica, of one transaction per row if recurrent  *)
(* and of one batch otherwise.                                             *)

RowAt(c, k, sts) == k \in DOMAIN rows[c] /\ rows[c][k].st \in sts

\* The rows that replica.execute takes together with k.
Unit(c, k) == IF is_recurrent THEN {k} ELSE {x \in DOMAIN rows[c] : rows[c][x] = rows[c][k]}

\* Recurrent rows of one replica run in the order of the call.
InTurn(c, k) ==
  is_recurrent => \A m, n \in DOMAIN asked[c] :
    (asked[c][n] = k /\ m < n /\ rows[c][asked[c][m]].replica = rows[c][k].replica)
      => rows[c][asked[c][m]].st \in {"ok", "error"}

SetRows(c, k, st) ==
  rows' = [rows EXCEPT ![c] = [x \in DOMAIN @ |->
             IF x \in Unit(c, k) THEN [@[x] EXCEPT !.st = st] ELSE @[x]]]

\* replica.execute looks at the replica's health before it queues.
Start(c, k) ==
  /\ RowAt(c, k, {"todo"}) /\ InTurn(c, k)
  /\ SetRows(c, k, IF rows[c][k].replica \in failed THEN "error" ELSE "queued")
  /\ UNCHANGED <<gateVars, affinity, memory, failed, lock, job>>

\* It looks again once it has the execution lock.
Run(c, k) ==
  LET r == rows[c][k].replica
  IN  /\ RowAt(c, k, {"queued"}) /\ lock[r] = Nobody
      /\ IF r \in failed
         THEN SetRows(c, k, "error") /\ UNCHANGED lock
         ELSE SetRows(c, k, "run") /\ lock' = [lock EXCEPT ![r] = c]
      /\ UNCHANGED <<gateVars, affinity, memory, failed, job>>

Unlock(r) == lock' = [lock EXCEPT ![r] = Nobody]

\* core.execute returns; a recurrent turn is committed.
Succeed(c, k) ==
  LET r == rows[c][k].replica
  IN  /\ RowAt(c, k, {"run"})
      /\ SetRows(c, k, "ok")
      /\ memory' = [memory EXCEPT ![r] = IF is_recurrent THEN @ \cup {k} ELSE @]
      /\ Unlock(r)
      /\ UNCHANGED <<gateVars, affinity, failed, job>>

\* A SessionError, for a lease that was cancelled: the replica stays healthy.
SessionFails(c, k) ==
  /\ RowAt(c, k, {"cancelled"})
  /\ SetRows(c, k, "error")
  /\ Unlock(rows[c][k].replica)
  /\ UNCHANGED <<gateVars, affinity, memory, failed, job>>

\* Mutant: an exception leaves the replica locked.
ModelFailsLocked(c, k) ==
  /\ RowAt(c, k, {"run", "cancelled"})
  /\ SetRows(c, k, "raised")
  /\ UNCHANGED <<gateVars, affinity, memory, failed, lock, job>>

\* Any other exception leaves the execution lock first ...
ModelFails(c, k) ==
  /\ RowAt(c, k, {"run", "cancelled"})
  /\ SetRows(c, k, "raised")
  /\ Unlock(rows[c][k].replica)
  /\ UNCHANGED <<gateVars, affinity, memory, failed, job>>

\* ... and then sets _failed.
Fence(c, k) ==
  /\ RowAt(c, k, {"raised"})
  /\ SetRows(c, k, "error")
  /\ failed' = failed \cup {rows[c][k].replica}
  /\ UNCHANGED <<gateVars, affinity, memory, lock, job>>

\* Every task has an outcome: return, raise, or run the failed rows elsewhere.
Gather(c) ==
  LET lost == {k \in DOMAIN rows[c] : rows[c][k].st = "error"}
      banned == job[c].banned \cup {rows[c][k].replica : k \in lost}
  IN  /\ At(c, "execute", "gather")
      /\ \A k \in DOMAIN rows[c] : rows[c][k].st \in {"ok", "error"}
      /\ job' = [job EXCEPT
           ![c].at = IF lost # {} /\ retry_on_healthy /\ (Replicas \ failed) \ banned # {}
                     THEN "assign" ELSE "over",
           ![c].banned = banned]
      /\ UNCHANGED <<gateVars, affinity, memory, failed, lock, rows>>

-----------------------------------------------------------------------------
(* reset_sessions and cancel_sessions.                                     *)

\* The owners of the sessions, looked up once.
Lookup(c) ==
  LET owners == {Pin(k) : k \in Range(asked[c])} \ {Nobody}
  IN  /\ At(c, "reset", "lookup")
      /\ job' = [job EXCEPT ![c].left = owners, ![c].at = "reset"]
      /\ UNCHANGED <<gateVars, affinity, memory, failed, lock, rows>>

\* The sessions of this call that r owns.
Owned(c, r) == {k \in Range(asked[c]) : Pin(k) = r}

\* One replica forgets the sessions, between two turns that it runs ...
Reset(c, r) ==
  /\ At(c, "reset", "reset") /\ r \in job[c].left
  /\ lock[r] = Nobody
  /\ memory' = [memory EXCEPT ![r] = @ \ Owned(c, r)]
  /\ job' = [job EXCEPT ![c].at = "unpin", ![c].now = r, ![c].left = @ \ {r}]
  /\ UNCHANGED <<gateVars, affinity, failed, lock, rows>>

\* Mutant: the sessions stay pinned to the replica.
UnpinNothing(c) ==
  /\ At(c, "reset", "unpin")
  /\ GotoJob(c, "reset")
  /\ UNCHANGED <<gateVars, affinity, memory, failed, lock, rows>>

\* ... and then they are released from it.
Unpin(c) ==
  /\ At(c, "reset", "unpin")
  /\ affinity' = Restrict(affinity, DOMAIN affinity \ Owned(c, job[c].now))
  /\ GotoJob(c, "reset")
  /\ UNCHANGED <<gateVars, memory, failed, lock, rows>>

ResetDone(c) ==
  /\ At(c, "reset", "reset") /\ job[c].left = {}
  /\ GotoJob(c, "over")
  /\ UNCHANGED <<gateVars, affinity, memory, failed, lock, rows>>

\* The turn that is running, if any, loses its lease; the pin stays.  Nothing
\* is leased for stateless rows.
Cancel(k) ==
  /\ is_recurrent
  /\ rows' = [c \in Callers |-> [x \in DOMAIN rows[c] |->
                IF x = k /\ RowAt(c, k, {"run"}) /\ rows[c][k].replica = Pin(k)
                THEN [rows[c][k] EXCEPT !.st = "cancelled"] ELSE rows[c][x]]]
  /\ UNCHANGED <<gateVars, affinity, memory, failed, lock, job>>

-----------------------------------------------------------------------------
RowStep(c, k) ==
  \/ Start(c, k) \/ Run(c, k)
  \/ Succeed(c, k) \/ SessionFails(c, k) \/ ModelFails(c, k) \/ Fence(c, k)

GateMove(c) == GateStep(c) /\ UNCHANGED engineVars

CallStep(c) ==
  \/ GateMove(c)
  \/ Assign(c) \/ Gather(c)
  \/ Lookup(c) \/ (\E r \in Replicas : Reset(c, r)) \/ Unpin(c) \/ ResetDone(c)
  \/ Finish(c)

\* The threads of a call: the caller's, and the pool's that run its rows.
Advance(c) ==
  /\ CallStep(c) \/ \E k \in Keys : RowStep(c, k)
  /\ UNCHANGED modeVars

Next ==
  \/ \E c \in Callers : Advance(c)
  \/ /\ \/ \E c \in Callers : \E op \in {"execute", "reset"} : \E ks \in Asked : Call(c, op, ks)
        \/ \E k \in Keys : Cancel(k)
     /\ UNCHANGED modeVars

\* A call's threads run while one of them can, and the model's call returns.
Spec == Init /\ [][Next]_vars /\ \A c \in Callers : WF_vars(Advance(c))

-----------------------------------------------------------------------------
(* Properties.                                                             *)

TypeOK ==
  /\ GatesTypeOK
  /\ DOMAIN affinity \subseteq Keys /\ Range(affinity) \subseteq Replicas
  /\ memory \in [Replicas -> SUBSET Keys] /\ failed \subseteq Replicas
  /\ lock \in [Replicas -> Callers \cup {Nobody}]
  /\ \A c \in Callers : DOMAIN rows[c] \subseteq Range(asked[c])

\* A session's memory is on the replica it is pinned to and nowhere else, so no
\* turn ever runs where the earlier turns of its episode are missing.
MemoryIsAtPin == \A r \in Replicas : \A k \in memory[r] : Pin(k) = r

\* "reset cannot clear/unpin after routing but before a queued worker actually
\* enters replica.execute": a row under way is where its session is pinned.
RoutedIsPinned ==
  \A c \in Callers : \A k \in DOMAIN rows[c] :
    rows[c][k].st \in {"todo", "queued", "run", "cancelled"} => Pin(k) = rows[c][k].replica

\* When reset_sessions returns, its sessions are on no replica and have no pin.
ResetIsComplete ==
  \A c \in Callers : At(c, "reset", "over") =>
    \A k \in Range(asked[c]) : Pin(k) = Nobody /\ \A r \in Replicas : k \notin memory[r]

\* A row that has its result is never run again by a retry of the others.
NoReplay ==
  [][\A c \in Callers : \A k \in DOMAIN rows[c] :
       rows[c][k].st = "ok" => pc'[c] # "body" \/ RowAt(c, k, {"ok"})']_vars

\* While calls are at work, some call ends and gives its gates back, whatever
\* fails.  (Again the locks decide which one: turns of other sessions that keep
\* coming may get the execution lock before a reset every time.)
SomeCallLeaves ==
  (\E c \in Callers : pc[c] = "body") ~> (\E c \in Callers : pc[c] = "release")

\* "A preceding queued call may have failed while this call was waiting for the
\* per-replica lock": a replica that has failed a call runs no later one.
FailedReplicaStops ==
  \A c, d \in Callers : \A k \in DOMAIN rows[c] : \A x \in DOMAIN rows[d] :
    rows[c][k].st = "raised" /\ rows[d][x].replica = rows[c][k].replica
      => rows[d][x].st \notin {"run", "cancelled"}
=============================================================================
