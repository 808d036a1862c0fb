----------------------------- MODULE RecurrentEngine -----------------------------
(***************************************************************************)
(* The callers of the session store: EngineCore._execute_recurrent (one    *)
(* turn of one session) and GenerationBackend._sample_recurrent_group (one *)
(* shared start branched over several sessions), run by concurrent threads *)
(* while other threads reset or cancel sessions.                           *)
(*                                                                         *)
(* A call takes its leases one at a time, runs the model outside every     *)
(* lock, and then either publishes all of its memories or rolls every      *)
(* lease back, one critical section each.  The exception is a turn's stage *)
(* timer, which is made between the checkout and the try block: where it   *)
(* raises, nobody rolls back.  GenerationBackend.generate runs one turn    *)
(* per observation, one after the other: a thread that calls again.  The   *)
(* model's own work only shows as the points where it fails.               *)
(***************************************************************************)
EXTENDS SessionStore, FiniteSets, FiniteSetsExt, SequencesExt

CONSTANTS
  Threads,    \* the threads that call the engine
  EventsFail  \* whether the CUDA events of the stage timer may raise; a CPU has none

ASSUME EngineAssumption == IsFiniteSet(Keys) /\ EventsFail \in BOOLEAN

VARIABLES
  pc,     \* where each thread is in its call
  call,   \* the call: its session_ids, and whether it samples a group
  held,   \* leases: the ids the call holds, in the order it took them
  done,   \* results: how many branches were decoded
  lost    \* the leases of the turns whose stage timer raised

callVars == <<pc, call, held, done, lost>>
engineVars == <<slots, leases, pc, call, held, done, lost>>

Call == [group : BOOLEAN, keys : {ks \in SeqOf(Keys, Cardinality(Keys)) :
                                    ks # <<>> /\ IsInjective(ks)}]
NoCall == [group |-> FALSE, keys |-> <<>>]

Held(t) == Range(held[t])

\* Leases that calls under way have yet to take; MaxLeases bounds them all.
Outstanding ==
  MapThenSumSet(LAMBDA t : Len(call[t].keys) - Len(held[t]),
                {t \in Threads : pc[t] = "checkout"})

-----------------------------------------------------------------------------
EngineInit ==
  /\ Init
  /\ pc = [t \in Threads |-> "idle"]
  /\ call = [t \in Threads |-> NoCall]
  /\ held = [t \in Threads |-> <<>>]
  /\ done = [t \in Threads |-> 0]
  /\ lost = {}

Goto(t, label) == pc' = [pc EXCEPT ![t] = label]

\* The call is over, whether it returns or raises.
Return(t) ==
  /\ Goto(t, "idle")
  /\ call' = [call EXCEPT ![t] = NoCall]
  /\ held' = [held EXCEPT ![t] = <<>>]
  /\ done' = [done EXCEPT ![t] = 0]

\* An exception: the handler rolls back whatever the call holds.
Raise(t) ==
  /\ Goto(t, "unwind")
  /\ UNCHANGED <<slots, leases, call, held, done, lost>>

\* A turn names one session; a group names distinct ones.
Begin(t, c) ==
  /\ pc[t] = "idle"
  /\ c.group \/ Len(c.keys) = 1
  /\ Len(leases) + Outstanding + Len(c.keys) <= MaxLeases
  /\ Goto(t, "checkout")
  /\ call' = [call EXCEPT ![t] = c]
  /\ UNCHANGED <<slots, leases, held, done, lost>>

\* checkout, or the next round of checkout_many's loop.  A turn goes on to its
\* stage timer, a group has none.
Acquire(t) ==
  /\ pc[t] = "checkout"
  /\ Checkout(call[t].keys[Len(held[t]) + 1])
  /\ held' = [held EXCEPT ![t] = Append(@, NextLease)]
  /\ Goto(t, IF Len(held[t]) + 1 < Len(call[t].keys) THEN "checkout"
             ELSE IF call[t].group THEN "prefill" ELSE "timer")
  /\ UNCHANGED <<call, done, lost>>

\* Mutant: a busy session ends the call, and the leases it has are forgotten.
BusyKeepsLeases(t) ==
  /\ pc[t] = "checkout"
  /\ SlotOf(call[t].keys[Len(held[t]) + 1]).active # NoLease
  /\ Return(t)
  /\ UNCHANGED <<slots, leases, lost>>

\* SessionBusyError: checkout_many releases the leases it already has.
Busy(t) ==
  /\ pc[t] = "checkout"
  /\ SlotOf(call[t].keys[Len(held[t]) + 1]).active # NoLease
  /\ Raise(t)

\* _StageTimer, and the try block is entered.
StartTimer(t) ==
  /\ pc[t] = "timer"
  /\ Goto(t, "prefill")
  /\ UNCHANGED <<slots, leases, call, held, done, lost>>

\* The timer cannot make or record its events.  Outside the try block, the
\* exception leaves the call with its lease still active.
TimerFails(t) ==
  /\ EventsFail
  /\ pc[t] = "timer"
  /\ lost' = lost \cup Held(t)
  /\ Return(t)
  /\ UNCHANGED <<slots, leases>>

\* encode_prefix; a group may only start where none of its sessions has memory.
Prefill(t) ==
  /\ pc[t] = "prefill"
  /\ call[t].group => \A i \in Held(t) : leases[i].memory = <<>>
  /\ Goto(t, "decode")
  /\ UNCHANGED <<slots, leases, call, held, done, lost>>

\* UnsupportedRecurrentModeError on a started session, or the model raises.
PrefillFails(t) == pc[t] = "prefill" /\ Raise(t)

\* One branch is decoded; a group looks at the branch's lease first.
Decode(t) ==
  /\ pc[t] = "decode"
  /\ done[t] < Len(held[t])
  /\ call[t].group => ~Cancelled(held[t][done[t] + 1])
  /\ done' = [done EXCEPT ![t] = @ + 1]
  /\ UNCHANGED <<slots, leases, pc, call, held, lost>>

\* The decoder raises: the model fails, or a poll finds the lease cancelled.
DecodeFails(t) ==
  /\ pc[t] = "decode"
  /\ done[t] < Len(held[t])
  /\ Raise(t)

\* Every result is there and packed: commit, and hand the result back.
Publish(t) ==
  /\ pc[t] = "decode"
  /\ done[t] = Len(held[t])
  /\ IF call[t].group THEN CommitMany(Held(t)) ELSE Commit(held[t][1])
  /\ Return(t)
  /\ UNCHANGED lost

\* Packing fails, or StaleSessionError: a lease was overtaken meanwhile.
PublishFails(t) ==
  /\ pc[t] = "decode"
  /\ done[t] = Len(held[t])
  /\ Raise(t)

\* Mutant: the exception leaves the call without a rollback.
UnwindKeepsLeases(t) ==
  /\ pc[t] = "unwind"
  /\ Return(t)
  /\ UNCHANGED <<slots, leases, lost>>

\* The exception handler: one rollback per lease, then the exception goes on.
Unwind(t) ==
  /\ pc[t] = "unwind"
  /\ UNCHANGED lost
  /\ \/ /\ held[t] # <<>>
        /\ Rollback(Head(held[t]))
        /\ held' = [held EXCEPT ![t] = Tail(@)]
        /\ UNCHANGED <<pc, call, done>>
     \/ /\ held[t] = <<>>
        /\ Return(t)
        /\ UNCHANGED <<slots, leases>>

\* Other threads: reset_sessions, cancel_sessions and reset_all take no part
\* in a call and wait for none.
Control ==
  /\ \/ \E ks \in SUBSET Keys \ {{}} : Reset(ks) \/ Cancel(ks)
     \/ ResetAll
  /\ UNCHANGED callVars

Step(t) ==
  \/ Acquire(t) \/ Busy(t)
  \/ StartTimer(t) \/ TimerFails(t)
  \/ Prefill(t) \/ PrefillFails(t)
  \/ Decode(t) \/ DecodeFails(t)
  \/ Publish(t) \/ PublishFails(t)
  \/ Unwind(t)

EngineNext ==
  \/ \E t \in Threads : Step(t) \/ \E c \in Call : Begin(t, c)
  \/ Control

\* A thread that is in a call keeps running: nothing in it waits.
EngineSpec == EngineInit /\ [][EngineNext]_engineVars /\ \A t \in Threads : WF_engineVars(Step(t))

-----------------------------------------------------------------------------
(* Properties.                                                             *)

\* A busy session is busy because a call under way holds its lease, or because
\* the stage timer of the turn that took it has raised: no other path out of a
\* call, however it fails half way through a group, leaves a session that
\* refuses every later turn with SessionBusyError.
NoOrphanLease ==
  \A k \in DOMAIN slots : slots[k].active # NoLease =>
    slots[k].active \in lost \/ \E t \in Threads : slots[k].active \in Held(t)

\* Every exception rolls back: a session is busy only while a call is under way.
\* This holds where the stage timer cannot raise.
EveryCallRollsBack ==
  \A k \in DOMAIN slots : slots[k].active # NoLease =>
    \E t \in Threads : slots[k].active \in Held(t)

\* The turn of lease i is part of what its session has committed.
InEpisode(i) == i \in Range(SlotOf(leases[i].key).memory)

\* A group takes effect whole: a step that makes one branch's memory the
\* session's makes every branch's, even if a reset hit one of them meanwhile.
GroupsCommitWhole ==
  [][\A t \in Threads :
       (\E i \in Held(t) : ~InEpisode(i) /\ InEpisode(i)')
         => \A i \in Held(t) : ~InEpisode(i) /\ InEpisode(i)']_engineVars

\* A lease never outlives its call, unless the stage timer raised: every busy
\* session becomes free again.
Busies(i) == \E k \in DOMAIN slots : slots[k].active = i

SessionsBecomeFree == \A i \in LeaseId : Busies(i) ~> ~Busies(i) \/ i \in lost
=============================================================================
