------------------------------ MODULE RecurrentRefit ------------------------------
(***************************************************************************)
(* Weight updates of a recurrent policy while RecurrentEngine serves it:   *)
(* GenerationBackend.refit with its guard on session state, then           *)
(* refit_module and commit_refit (engine/rollout/refit.py), which validate *)
(* the request, copy the tensors one by one and publish the version last.  *)
(* Nothing in the code locks an update against a turn.                     *)
(*                                                                         *)
(* A weight is represented by the version of the learner it came from, and *)
(* a committed turn by the versions its model run read.                    *)
(***************************************************************************)
EXTENDS RecurrentEngine

CONSTANTS
  Tensors,      \* the refittable tensors of the policy
  MaxVersion,   \* bound: the last version a learner sends
  SerialRefit   \* whether the caller keeps updates and turns apart in time

ASSUME RefitAssumption ==
  MaxVersion \in Nat /\ SerialRefit \in BOOLEAN /\ Tensors # {}

VARIABLES
  version,  \* the policy version attribute, visible to inference
  weights,  \* the learner version each live tensor holds
  refit,    \* the refit call under way, if any
  reads,    \* per thread, the versions its model run has read so far
  made      \* per committed turn, the versions it was computed from

traceVars == <<reads, made>>
allVars == <<slots, leases, pc, call, held, done, lost, version, weights, refit, reads, made>>

Idle == [pc |-> "idle", version |-> 0, left |-> {}, emptyAt |-> FALSE]

\* No committed memory and no lease under way, as one look at the store.
StoreIsEmpty == ~HasCommitted /\ ~HasInflight

RefitInit ==
  /\ EngineInit
  /\ version = 0
  /\ weights = [x \in Tensors |-> 0]
  /\ refit = Idle
  /\ reads = [t \in Threads |-> {}]
  /\ made = [i \in {} |-> {}]

-----------------------------------------------------------------------------
(* The update.  refit.emptyAt only records, for GuardSeesSessionState,     *)
(* whether the store was empty at some instant of the guard's evaluation.  *)

GotoRefit(label) == refit' = [refit EXCEPT !.pc = label]

RaiseRefit == refit' = Idle /\ UNCHANGED <<version, weights>>

\* A version below the current one is a stale request; version=None asks for
\* the next one.  strict=True, the default: the request names every tensor.
BeginRefit(v) ==
  /\ refit.pc = "idle"
  /\ SerialRefit => \A t \in Threads : pc[t] = "idle"
  /\ refit' = [pc |-> "committed", version |-> v, left |-> {}, emptyAt |-> StoreIsEmpty]
  /\ UNCHANGED <<version, weights>>

\* Mutant: the guard forgets the memory that turns have left behind.
AskNothing == refit.pc = "committed" /\ GotoRefit("inflight") /\ UNCHANGED <<version, weights>>

\* has_session_state asks has_committed first, and has_inflight only then,
\* under a lock each.
AskCommitted ==
  /\ refit.pc = "committed"
  /\ IF HasCommitted THEN RaiseRefit
                     ELSE GotoRefit("inflight") /\ UNCHANGED <<version, weights>>

AskInflight ==
  /\ refit.pc = "inflight"
  /\ IF HasInflight THEN RaiseRefit
                    ELSE GotoRefit("validate") /\ UNCHANGED <<version, weights>>

\* A stale version, and names, shapes or ties that do not match, are refused
\* before the first copy.
Validate ==
  /\ refit.pc = "validate"
  /\ \/ refit.version >= version
        /\ refit' = [refit EXCEPT !.pc = "copy", !.left = Tensors]
        /\ UNCHANGED <<version, weights>>
     \/ RaiseRefit

CopyTensor(x) ==
  /\ refit.pc = "copy"
  /\ x \in refit.left
  /\ weights' = [weights EXCEPT ![x] = refit.version]
  /\ refit' = [refit EXCEPT !.left = @ \ {x}]
  /\ UNCHANGED version

\* Mutant: publication does not wait for every tensor.
RunHookEarly ==
  /\ refit.pc = "copy"
  /\ refit.version >= version
  /\ GotoRefit("publish")
  /\ UNCHANGED <<version, weights>>

\* commit_refit checks the version again, then runs on_refit.
RunHook ==
  /\ refit.pc = "copy"
  /\ refit.left = {}
  /\ refit.version >= version
  /\ GotoRefit("publish")
  /\ UNCHANGED <<version, weights>>

\* A device copy or the hook raises; what was copied stays.
RefitFails == refit.pc = "copy" /\ RaiseRefit

PublishVersion ==
  /\ refit.pc = "publish"
  /\ version' = refit.version
  /\ refit' = Idle
  /\ UNCHANGED weights

RefitStep ==
  /\ \/ \E v \in 0 .. MaxVersion : BeginRefit(v)
     \/ AskCommitted \/ AskInflight \/ Validate
     \/ \E x \in Tensors : CopyTensor(x)
     \/ RunHook \/ RefitFails \/ PublishVersion
  /\ UNCHANGED engineVars
  /\ UNCHANGED traceVars

-----------------------------------------------------------------------------
(* The engine's steps, and what they read of the weights.                  *)

\* The guard's evaluation goes on while other threads move.
WatchGuard ==
  refit' = IF refit.pc \in {"committed", "inflight"}
           THEN [refit EXCEPT !.emptyAt = @ \/ StoreIsEmpty']
           ELSE refit

MayBegin == SerialRefit => refit.pc = "idle"

EngineStep ==
  /\ \/ /\ \E t \in Threads :
              \/ Acquire(t) \/ Busy(t) \/ StartTimer(t) \/ TimerFails(t)
              \/ PrefillFails(t) \/ DecodeFails(t) \/ PublishFails(t) \/ Unwind(t)
              \/ MayBegin /\ \E c \in Call : Begin(t, c)
        /\ UNCHANGED traceVars
     \/ \E t \in Threads :
          /\ Prefill(t) \/ Decode(t)
          /\ reads' = [reads EXCEPT ![t] = IF pc[t] = "prefill" THEN Range(weights)
                                                                ELSE @ \cup Range(weights)]
          /\ UNCHANGED made
     \/ \E t \in Threads :
          /\ Publish(t)
          /\ made' = [i \in DOMAIN made \cup Held(t) |->
                        IF i \in Held(t) THEN reads[t] ELSE made[i]]
          /\ UNCHANGED reads
     \/ Control /\ UNCHANGED traceVars
  /\ WatchGuard
  /\ UNCHANGED <<version, weights>>

RefitNext == RefitStep \/ EngineStep

RefitSpec == RefitInit /\ [][RefitNext]_allVars

-----------------------------------------------------------------------------
(* Properties.                                                             *)

\* Every tensor holds the published version, as it does when no update is
\* under way and none failed half way.
WeightsAreWhole == \A x \in Tensors : weights[x] = version

\* The version a turn is stamped with names weights that are completely
\* installed: a failed copy or hook publishes nothing, a publication never
\* precedes its tensors, and versions only grow.
PublishedVersionIsInstalled ==
  [][version' # version => version' > version /\ WeightsAreWhole']_allVars

\* A session's memory belongs to the policy that will continue it: while the
\* weights are whole, no committed turn was computed from other weights.
MemoryIsOfThisPolicy ==
  WeightsAreWhole =>
    \A k \in DOMAIN slots : \A i \in Range(slots[k].memory) : made[i] = {version}

\* "reset recurrent sessions before updating weights": an update that the
\* guard lets through found the session store empty at some instant of it.
GuardSeesSessionState ==
  refit.pc \in {"validate", "copy", "publish"} => refit.emptyAt
=============================================================================
