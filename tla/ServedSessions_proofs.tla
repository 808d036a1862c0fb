------------------------ MODULE ServedSessions_proofs ------------------------
(***************************************************************************)
(* Proofs about PolicyService and about ServedSessions, the service with   *)
(* the memory of its adapters, for any handlers, sessions, requests, cache *)
(* sizes and history lengths.                                              *)
(***************************************************************************)
EXTENDS ServedSessions, SequenceTheorems, FiniteSetTheorems, TLAPS

(***************************************************************************)
(* The service.                                                            *)
(***************************************************************************)

Fields == {"revision", "next_step_id", "closed", "responses", "seen_requests", "reset_requests"}

(* A session's fields; what the caches hold is left open.                  *)
IsSession(r) ==
  /\ r = [f \in Fields |-> r[f]]
  /\ r.revision \in Nat /\ r.next_step_id \in Nat /\ r.closed \in BOOLEAN

(* A handler in one of these calls the adapter and holds its session.      *)
Working == {"infer", "reset", "close"}

Typed ==
  /\ opened \subseteq Sessions /\ sessions \subseteq opened
  /\ state = [s \in Sessions |-> state[s]] /\ \A s \in Sessions : IsSession(state[s])
  /\ lock \in [Sessions -> Handlers \cup {Free}]
  /\ pc \in [Handlers -> {"idle", "lock"} \cup Working]
  /\ call \in [Handlers -> Call \cup {NoCall}]
  /\ adapter \in [Sessions -> Seq(StepIds)]

(* What a handler knows of its session while it has it.                    *)
Phase(h) ==
  LET s == SessionOf(h)
  IN  /\ pc[h] # "idle" => call[h] \in Call /\ s \in opened
      /\ pc[h] \in Working => lock[s] = h
      /\ pc[h] = "infer" => /\ call[h].op = "step" /\ s \in sessions
                            /\ StepOf[call[h].id] = state[s].next_step_id
      /\ pc[h] = "reset" => call[h].op = "reset" /\ s \in sessions
      /\ pc[h] = "close" => state[s].closed /\ s \in sessions

(* A session is held by a handler at work on it, if by anybody.            *)
Held(s) == lock[s] # Free => pc[lock[s]] \in Working /\ SessionOf(lock[s]) = s

(* What a session and its adapter agree on.                                *)
Agrees(s) ==
  /\ s \in sessions => /\ Len(adapter[s]) = state[s].next_step_id
                       /\ \A n \in DOMAIN adapter[s] : StepOf[adapter[s][n]] = n - 1
  /\ s \in opened \ sessions => state[s].closed /\ adapter[s] = <<>> /\ lock[s] = Free
  /\ s \notin opened => state[s].next_step_id = 0 /\ adapter[s] = <<>>

ServiceInv ==
  /\ Typed
  /\ \A h \in Handlers : Phase(h)
  /\ \A s \in Sessions : Held(s) /\ Agrees(s)

(* The fields of a call.                                                   *)
LEMMA CallShape ==
  ASSUME NEW c \in Call
  PROVE  /\ c.session \in Sessions
         /\ c.op = "step" => c.id \in StepIds /\ c.content \in Contents
         /\ c.op = "reset" => c.id \in ResetIds /\ c.content \in Contents
         /\ c # NoCall
BY DEF Call, NoCall

(* A service without sessions.                                             *)
LEMMA InitService == Init => ServiceInv
<1> SUFFICES ASSUME Init PROVE ServiceInv
  OBVIOUS
<1>1. IsSession(NewSession) /\ NewSession.next_step_id = 0
  BY DEF IsSession, NewSession, Fields
<1>2. Typed
  BY <1>1, EmptySeq DEF Init, Typed, Working
<1>3. \A h \in Handlers : Phase(h)
  BY DEF Init, Phase, Working
<1>4. \A s \in Sessions : Held(s) /\ Agrees(s)
  BY <1>1 DEF Init, Held, Agrees
<1> QED BY <1>2, <1>3, <1>4 DEF ServiceInv

(* Two handlers at work have different sessions.                           *)
LEMMA OthersApart ==
  ASSUME ServiceInv, NEW h \in Handlers, NEW g \in Handlers, g # h,
         pc[h] \in Working \/ lock[SessionOf(h)] = Free, pc[g] \in Working
  PROVE  SessionOf(g) # SessionOf(h)
BY ServiceAssumption DEF ServiceInv, Phase, Free

(* What Return does to the threads and the locks.                          *)
LEMMA ReturnFrees ==
  ASSUME ServiceInv, NEW h \in Handlers, NEW r, Return(h, r)
  PROVE  /\ lock' \in [Sessions -> Handlers \cup {Free}]
         /\ pc' \in [Handlers -> {"idle", "lock"} \cup Working]
         /\ call' \in [Handlers -> Call \cup {NoCall}]
         /\ pc'[h] = "idle"
         /\ \A g \in Handlers : g # h => pc'[g] = pc[g] /\ call'[g] = call[g]
         /\ \A s \in Sessions : /\ lock[s] # h => lock'[s] = lock[s]
                                /\ lock[s] = h => lock'[s] = Free /\ pc[h] \in Working /\ SessionOf(h) = s
<1>1. \A s \in Sessions : lock[s] = h => pc[h] \in Working /\ SessionOf(h) = s
  BY ServiceAssumption DEF ServiceInv, Held, Free
<1> QED BY <1>1 DEF ServiceInv, Typed, Return

(* What Hold does to them.                                                 *)
LEMMA HoldTakes ==
  ASSUME ServiceInv, NEW h \in Handlers, NEW label \in Working, Hold(h, label),
         SessionOf(h) \in Sessions
  PROVE  /\ lock' \in [Sessions -> Handlers \cup {Free}]
         /\ pc' \in [Handlers -> {"idle", "lock"} \cup Working]
         /\ call' = call /\ call' \in [Handlers -> Call \cup {NoCall}]
         /\ pc'[h] = label /\ lock'[SessionOf(h)] = h
         /\ \A g \in Handlers : g # h => pc'[g] = pc[g]
         /\ \A s \in Sessions : s # SessionOf(h) => lock'[s] = lock[s]
BY DEF ServiceInv, Typed, Hold

(* A step of a handler that touches no session but its own, and that one   *)
(* only if it has the lock or nobody does, keeps the invariant if it is    *)
(* kept of its own session.                                                *)
LEMMA OwnSessionOnly ==
  ASSUME ServiceInv, NEW h \in Handlers, pc[h] # "idle",
         NEW s \in Sessions, s = SessionOf(h),
         pc[h] \in Working \/ lock[s] = Free,
         opened' = opened, sessions' \subseteq sessions,
         state' = [t \in Sessions |-> state'[t]], IsSession(state'[s]),
         adapter' \in [Sessions -> Seq(StepIds)],
         \A t \in Sessions : t # s =>
           /\ state'[t] = state[t] /\ adapter'[t] = adapter[t]
           /\ t \in sessions' <=> t \in sessions,
         \/ \E r : Return(h, r)
         \/ \E label \in Working : Hold(h, label) /\ Phase(h)',
         Agrees(s)'
  PROVE  ServiceInv'
<1>1. s \in Sessions /\ s = SessionOf(h) /\ s \in opened /\ h # Free
  BY CallShape, ServiceAssumption DEF ServiceInv, Typed, Phase, Free, SessionOf
<1>2. CASE \E r : Return(h, r)
  <2>1. PICK r : Return(h, r)
    BY <1>2
  <2>2. Typed'
    BY <2>1, <1>1, ReturnFrees DEF ServiceInv, Typed
  <2>3. ASSUME NEW g \in Handlers PROVE Phase(g)'
    <3>1. CASE g = h
      BY <2>1, <3>1, ReturnFrees DEF Phase, Working
    <3>2. CASE g # h
      <4>1. pc'[g] = pc[g] /\ call'[g] = call[g]
        BY <2>1, <3>2, ReturnFrees
      <4>2. CASE pc[g] \in Working
        <5>1. SessionOf(g) # s /\ SessionOf(g) \in Sessions /\ lock[SessionOf(g)] = g
          BY <3>2, <4>2, OthersApart DEF ServiceInv, Typed, Phase, Working
        <5>2. lock'[SessionOf(g)] = g
          BY <2>1, <3>2, <5>1, ReturnFrees
        <5> QED BY <4>1, <5>1, <5>2 DEF ServiceInv, Phase, SessionOf
      <4>3. CASE pc[g] \notin Working
        BY <4>1, <4>3 DEF ServiceInv, Phase, SessionOf, Working
      <4> QED BY <4>2, <4>3
    <3> QED BY <3>1, <3>2
  <2>4. ASSUME NEW t \in Sessions PROVE Held(t)'
    <3>1. CASE lock[t] = h
      BY <2>1, <3>1, ReturnFrees DEF Held
    <3>2. CASE lock[t] # h /\ lock[t] # Free
      <4>1. lock[t] \in Handlers /\ lock'[t] = lock[t]
        BY <2>1, <3>2, ReturnFrees DEF ServiceInv, Typed
      <4>2. pc'[lock[t]] = pc[lock[t]] /\ call'[lock[t]] = call[lock[t]]
        BY <2>1, <3>2, <4>1, ReturnFrees
      <4> QED BY <3>2, <4>1, <4>2 DEF ServiceInv, Held, SessionOf
    <3>3. CASE lock[t] = Free
      BY <1>1, <2>1, <3>3, ReturnFrees DEF Held
    <3> QED BY <3>1, <3>2, <3>3
  <2>5. ASSUME NEW t \in Sessions PROVE Agrees(t)'
    <3>1. CASE t = s
      BY <3>1
    <3>2. CASE t # s
      <4>1. lock'[t] = lock[t]
        BY <2>1, <3>2, ReturnFrees
      <4> QED BY <3>2, <4>1 DEF ServiceInv, Agrees
    <3> QED BY <3>1, <3>2
  <2> QED BY <2>2, <2>3, <2>4, <2>5 DEF ServiceInv
<1>3. CASE \E label \in Working : Hold(h, label) /\ Phase(h)'
  <2>1. PICK label \in Working : Hold(h, label) /\ Phase(h)'
    BY <1>3
  <2>2. Typed'
    BY <2>1, <1>1, HoldTakes DEF ServiceInv, Typed
  <2>3. ASSUME NEW g \in Handlers PROVE Phase(g)'
    <3>1. CASE g = h
      BY <2>1, <3>1
    <3>2. CASE g # h
      <4>1. pc'[g] = pc[g] /\ call'[g] = call[g]
        BY <1>1, <2>1, <3>2, HoldTakes
      <4>2. CASE pc[g] \in Working
        <5>1. SessionOf(g) # s /\ SessionOf(g) \in Sessions /\ lock[SessionOf(g)] = g
          BY <3>2, <4>2, OthersApart DEF ServiceInv, Typed, Phase, Working
        <5>2. lock'[SessionOf(g)] = g
          BY <1>1, <2>1, <5>1, HoldTakes
        <5> QED BY <4>1, <5>1, <5>2 DEF ServiceInv, Phase, SessionOf
      <4>3. CASE pc[g] \notin Working
        BY <4>1, <4>3 DEF ServiceInv, Phase, SessionOf, Working
      <4> QED BY <4>2, <4>3
    <3> QED BY <3>1, <3>2
  <2>4. ASSUME NEW t \in Sessions PROVE Held(t)'
    <3>1. CASE t = s
      BY <1>1, <2>1, <3>1, HoldTakes DEF Held, SessionOf
    <3>2. CASE t # s /\ lock[t] # Free
      <4>1. lock[t] \in Handlers /\ lock'[t] = lock[t] /\ SessionOf(lock[t]) = t
        BY <1>1, <2>1, <3>2, HoldTakes DEF ServiceInv, Typed, Held
      <4>2. pc'[lock[t]] = pc[lock[t]] /\ call'[lock[t]] = call[lock[t]]
        <5>1. call' = call /\ \A g \in Handlers : g # h => pc'[g] = pc[g]
          BY <1>1, <2>1, HoldTakes
        <5>2. lock[t] # h
          BY <1>1, <3>2, <4>1
        <5> QED BY <4>1, <5>1, <5>2
      <4> QED BY <3>2, <4>1, <4>2 DEF ServiceInv, Held, SessionOf
    <3>3. CASE t # s /\ lock[t] = Free
      BY <1>1, <2>1, <3>3, HoldTakes DEF Held
    <3> QED BY <3>1, <3>2, <3>3
  <2>5. ASSUME NEW t \in Sessions PROVE Agrees(t)'
    <3>1. CASE t = s
      BY <3>1
    <3>2. CASE t # s
      <4>1. lock'[t] = lock[t]
        BY <1>1, <2>1, <3>2, HoldTakes
      <4> QED BY <3>2, <4>1 DEF ServiceInv, Agrees
    <3> QED BY <3>1, <3>2
  <2> QED BY <2>2, <2>3, <2>4, <2>5 DEF ServiceInv
<1> QED BY <1>2, <1>3

(* What every handler in a call knows of it.                               *)
LEMMA CallerKnows ==
  ASSUME ServiceInv, NEW h \in Handlers, pc[h] # "idle"
  PROVE  /\ call[h] \in Call /\ SessionOf(h) \in Sessions /\ SessionOf(h) \in opened
         /\ IsSession(state[SessionOf(h)]) /\ state = [t \in Sessions |-> state[t]]
         /\ Agrees(SessionOf(h))
BY DEF ServiceInv, Typed, Phase

(* A step that leaves sessions, adapter and step counters as they were.    *)
LEMMA LookKeeps ==
  ASSUME ServiceInv, NEW h \in Handlers, pc[h] # "idle", NEW s \in Sessions, s = SessionOf(h),
         pc[h] \in Working \/ lock[s] = Free,
         UNCHANGED <<opened, sessions, adapter>>,
         state' = [t \in Sessions |-> state'[t]], IsSession(state'[s]),
         state'[s].next_step_id = state[s].next_step_id,
         state[s].closed => state'[s].closed,
         \A t \in Sessions : t # s => state'[t] = state[t],
         \/ \E r : Return(h, r)
         \/ s \in sessions /\ \E label \in Working : Hold(h, label) /\ Phase(h)'
  PROVE  ServiceInv'
<1>1. Agrees(s)
  BY DEF ServiceInv
<1>2. s \in opened \ sessions => lock'[s] = Free
  <2> SUFFICES ASSUME s \in opened \ sessions PROVE lock'[s] = Free
    OBVIOUS
  <2>1. PICK r : Return(h, r)
    OBVIOUS
  <2> QED BY <1>1, <2>1, ReturnFrees DEF Agrees
<1>3. Agrees(s)'
  BY <1>1, <1>2 DEF Agrees
<1>4. adapter' \in [Sessions -> Seq(StepIds)]
  BY DEF ServiceInv, Typed
<1> QED BY <1>3, <1>4, OwnSessionOnly

(* open_session.                                                           *)
LEMMA OpenKeeps ==
  ASSUME ServiceInv, NEW s \in Sessions, Open(s)
  PROVE  ServiceInv'
<1>1. Typed'
  BY DEF ServiceInv, Typed, Open
<1>2. \A h \in Handlers : Phase(h)'
  BY DEF ServiceInv, Phase, Open, SessionOf
<1>3. \A t \in Sessions : Held(t)'
  BY DEF ServiceInv, Held, Open, SessionOf
<1>4. \A t \in Sessions : Agrees(t)'
  BY EmptySeq DEF ServiceInv, Agrees, Open
<1> QED BY <1>1, <1>2, <1>3, <1>4 DEF ServiceInv

(* A request arrives, and finds its session or not.                        *)
LEMMA ReceiveKeeps ==
  ASSUME ServiceInv, NEW h \in Handlers, NEW c \in Call, Receive(h, c)
  PROVE  ServiceInv'
<1>1. pc[h] = "idle" /\ UNCHANGED <<opened, sessions, state, adapter>>
  BY DEF Receive
<1>2. \A s \in Sessions : lock[s] # h
  BY <1>1, ServiceAssumption DEF ServiceInv, Held, Free, Working
<1>3. /\ lock' = lock /\ pc'[h] \in {"idle", "lock"}
      /\ pc' \in [Handlers -> {"idle", "lock"} \cup Working]
      /\ call' \in [Handlers -> Call \cup {NoCall}]
      /\ \A g \in Handlers : g # h => pc'[g] = pc[g] /\ call'[g] = call[g]
      /\ pc'[h] = "lock" => call'[h] = c /\ c.session \in sessions
  <2>1. CASE c.session \in sessions
    BY <2>1 DEF Receive, ServiceInv, Typed
  <2>2. CASE c.session \notin sessions
    <3>1. Return(h, Error("session_not_found"))
      BY <2>2 DEF Receive
    <3>2. lock' = [s \in Sessions |-> lock[s]]
      BY <1>2, <3>1 DEF Return
    <3> QED BY <3>1, <3>2, ReturnFrees DEF ServiceInv, Typed
  <2> QED BY <2>1, <2>2
<1>4. Typed'
  BY <1>1, <1>3 DEF ServiceInv, Typed
<1>5. ASSUME NEW g \in Handlers PROVE Phase(g)'
  <2>1. CASE g = h
    BY <1>1, <1>3, <2>1 DEF ServiceInv, Typed, Phase, SessionOf, Working
  <2>2. CASE g # h
    BY <1>1, <1>3, <2>2 DEF ServiceInv, Phase, SessionOf
  <2> QED BY <2>1, <2>2
<1>6. \A s \in Sessions : Held(s)'
  BY <1>2, <1>3 DEF ServiceInv, Typed, Held, SessionOf
<1>7. \A s \in Sessions : Agrees(s)'
  BY <1>1, <1>3 DEF ServiceInv, Agrees
<1> QED BY <1>4, <1>5, <1>6, <1>7 DEF ServiceInv

(* A replay of a cached response only reorders that cache.                 *)
LEMMA ReplayKeepsFields ==
  ASSUME ServiceInv, NEW h \in Handlers, pc[h] # "idle", NEW s \in Sessions, s = SessionOf(h),
         NEW field \in {"responses", "reset_requests"}, Replay(h, field)
  PROVE  /\ state' = [t \in Sessions |-> state'[t]] /\ IsSession(state'[s])
         /\ state'[s].next_step_id = state[s].next_step_id
         /\ state'[s].revision = state[s].revision
         /\ state'[s].closed = state[s].closed
         /\ \A t \in Sessions : t # s => state'[t] = state[t]
         /\ \E r : Return(h, r)
<1>1. IsSession(state[s]) /\ state = [t \in Sessions |-> state[t]]
  BY CallerKnows
<1>2. \E r : Return(h, r)
  BY DEF Replay
<1>3. CASE state' = state
  BY <1>1, <1>2, <1>3
<1>4. ASSUME NEW v, state' = [state EXCEPT ![s] = [state[s] EXCEPT ![field] = v]]
      PROVE  /\ state' = [t \in Sessions |-> state'[t]] /\ IsSession(state'[s])
             /\ state'[s].next_step_id = state[s].next_step_id
             /\ state'[s].revision = state[s].revision
             /\ state'[s].closed = state[s].closed
             /\ \A t \in Sessions : t # s => state'[t] = state[t]
  <2> DEFINE new == [state[s] EXCEPT ![field] = v]
  <2>1. /\ IsSession(new) /\ new.next_step_id = state[s].next_step_id
        /\ new.revision = state[s].revision /\ new.closed = state[s].closed
    BY <1>1 DEF IsSession, Fields
  <2>2. state'[s] = new
    BY <1>1, <1>4
  <2> HIDE DEF new
  <2> QED BY <1>1, <1>4, <2>1, <2>2
<1>5. \/ state' = state
      \/ \E v : state' = [state EXCEPT ![s] = [state[s] EXCEPT ![field] = v]]
  BY DEF Replay
<1> QED BY <1>2, <1>3, <1>4, <1>5

(* A step either calls the adapter with the next step_id or is answered.   *)
LEMMA EnterStepKeeps ==
  ASSUME ServiceInv, NEW h \in Handlers, EnterStep(h)
  PROVE  ServiceInv'
<1> DEFINE s == SessionOf(h)
<1>1. pc[h] = "lock" /\ call[h].op = "step" /\ lock[s] = Free /\ UNCHANGED <<opened, sessions, adapter>>
  BY DEF EnterStep
<1>2. /\ s \in Sessions /\ s \in opened /\ call[h] \in Call
      /\ IsSession(state[s]) /\ state = [t \in Sessions |-> state[t]] /\ Agrees(s)
  BY <1>1, CallerKnows
<1>3. CASE state' = state /\ \E r : Return(h, r)
  BY <1>1, <1>2, <1>3, LookKeeps
<1>4. CASE Replay(h, "responses")
  BY <1>1, <1>2, <1>4, ReplayKeepsFields, LookKeeps
<1>5. CASE /\ state' = state /\ ~state[s].closed /\ Hold(h, "infer")
           /\ StepOf[call[h].id] = state[s].next_step_id
  <2>1. s \in sessions
    BY <1>2, <1>5 DEF Agrees
  <2>2. Phase(h)'
    BY <1>1, <1>2, <1>5, <2>1, HoldTakes DEF Phase, SessionOf, Working
  <2> QED BY <1>1, <1>2, <1>5, <2>1, <2>2, LookKeeps DEF Working
<1> QED BY <1>3, <1>4, <1>5 DEF EnterStep

(* A reset either calls the adapter or is answered.                        *)
LEMMA EnterResetKeeps ==
  ASSUME ServiceInv, NEW h \in Handlers, EnterReset(h)
  PROVE  ServiceInv'
<1> DEFINE s == SessionOf(h)
<1>1. pc[h] = "lock" /\ call[h].op = "reset" /\ lock[s] = Free /\ UNCHANGED <<opened, sessions, adapter>>
  BY DEF EnterReset
<1>2. /\ s \in Sessions /\ s \in opened /\ call[h] \in Call
      /\ IsSession(state[s]) /\ state = [t \in Sessions |-> state[t]] /\ Agrees(s)
  BY <1>1, CallerKnows
<1>3. CASE state' = state /\ \E r : Return(h, r)
  BY <1>1, <1>2, <1>3, LookKeeps
<1>4. CASE Replay(h, "reset_requests")
  BY <1>1, <1>2, <1>4, ReplayKeepsFields, LookKeeps
<1>5. CASE state' = state /\ ~state[s].closed /\ Hold(h, "reset")
  <2>1. s \in sessions
    BY <1>2, <1>5 DEF Agrees
  <2>2. Phase(h)'
    BY <1>1, <1>2, <1>5, <2>1, HoldTakes DEF Phase, SessionOf, Working
  <2> QED BY <1>1, <1>2, <1>5, <2>1, <2>2, LookKeeps DEF Working
<1> QED BY <1>3, <1>4, <1>5 DEF EnterReset

(* New work is refused from the moment close has the lock.                 *)
LEMMA EnterCloseKeeps ==
  ASSUME ServiceInv, NEW h \in Handlers, EnterClose(h)
  PROVE  ServiceInv'
<1> DEFINE s == SessionOf(h)
<1>1. pc[h] = "lock" /\ lock[s] = Free /\ UNCHANGED <<opened, sessions, adapter>>
  BY DEF EnterClose
<1>2. /\ s \in Sessions /\ s \in opened /\ call[h] \in Call
      /\ IsSession(state[s]) /\ state = [t \in Sessions |-> state[t]] /\ Agrees(s)
  BY <1>1, CallerKnows
<1>3. CASE state' = state /\ \E r : Return(h, r)
  BY <1>1, <1>2, <1>3, LookKeeps
<1>4. CASE s \in sessions /\ state' = [state EXCEPT ![s].closed = TRUE] /\ Hold(h, "close")
  <2> DEFINE new == [state[s] EXCEPT !.closed = TRUE]
  <2>1. IsSession(new) /\ new.closed /\ new.next_step_id = state[s].next_step_id
    BY <1>2 DEF IsSession, Fields
  <2>2. state' = [state EXCEPT ![s] = new] /\ state'[s] = new
    BY <1>2, <1>4
  <2> HIDE DEF new
  <2>3. state' = [t \in Sessions |-> state'[t]] /\ \A t \in Sessions : t # s => state'[t] = state[t]
    BY <1>2, <2>2
  <2>4. Phase(h)'
    BY <1>1, <1>2, <1>4, <2>1, <2>2, HoldTakes DEF Phase, SessionOf, Working
  <2> QED BY <1>1, <1>2, <1>4, <2>1, <2>2, <2>3, <2>4, LookKeeps DEF Working
<1> QED BY <1>3, <1>4 DEF EnterClose

(* A call that raises changes neither the session nor the adapter.         *)
LEMMA AdapterFailsKeeps ==
  ASSUME ServiceInv, NEW h \in Handlers, AdapterFails(h)
  PROVE  ServiceInv'
<1>1. /\ pc[h] \in Working /\ UNCHANGED <<opened, sessions, state, adapter>>
      /\ Return(h, Error("adapter_error"))
  BY DEF AdapterFails, Working
<1>2. pc[h] # "idle"
  BY <1>1 DEF Working
<1> QED BY <1>1, <1>2, CallerKnows, LookKeeps

(* A committed step is the next one for the session and for the adapter.   *)
LEMMA InferOkKeeps ==
  ASSUME ServiceInv, NEW h \in Handlers, InferOk(h)
  PROVE  ServiceInv'
<1> DEFINE id == call[h].id
<1>0. PICK s \in Sessions : s = SessionOf(h)
  BY CallerKnows DEF InferOk
<1> DEFINE a == Append(adapter[s], id)
           new == [state[s] EXCEPT
             !.revision = @ + 1,
             !.next_step_id = StepOf[id] + 1,
             !.seen_requests = Remember(@, [id |-> id, content |-> call[h].content]),
             !.responses = Remember(@, Response(h))]
<1>1. /\ pc[h] = "infer" /\ adapter' = [adapter EXCEPT ![s] = a] /\ UNCHANGED <<opened, sessions>>
      /\ Return(h, Ok(Response(h))) /\ state' = [state EXCEPT ![s] = new]
  BY <1>0 DEF InferOk
<1>2. /\ s \in opened /\ call[h] \in Call
      /\ IsSession(state[s]) /\ state = [t \in Sessions |-> state[t]] /\ Agrees(s)
  BY <1>0, <1>1, CallerKnows
<1>3. id \in StepIds /\ s \in sessions /\ StepOf[id] = state[s].next_step_id
  BY <1>0, <1>1, <1>2, CallShape DEF ServiceInv, Phase
<1>4. /\ adapter[s] \in Seq(StepIds) /\ Len(adapter[s]) \in Nat /\ DOMAIN adapter[s] = 1..Len(adapter[s])
      /\ a \in Seq(StepIds) /\ Len(a) = Len(adapter[s]) + 1 /\ DOMAIN a = 1..Len(a)
      /\ a[Len(adapter[s]) + 1] = id
      /\ \A n \in 1..Len(adapter[s]) : a[n] = adapter[s][n]
  BY <1>2, <1>3, AppendProperties, LenProperties DEF ServiceInv, Typed
<1>5. IsSession(new) /\ new.next_step_id = StepOf[id] + 1
  <2>1. /\ state[s] = [f \in Fields |-> state[s][f]] /\ state[s].closed \in BOOLEAN
        /\ state[s].revision + 1 \in Nat /\ StepOf[id] + 1 \in Nat
    BY <1>2, <1>3 DEF IsSession
  <2>2. new = [f \in Fields |-> new[f]]
    BY <2>1 DEF Fields
  <2>3. /\ new.revision = state[s].revision + 1 /\ new.next_step_id = StepOf[id] + 1
        /\ new.closed = state[s].closed
    BY <2>1, Zenon DEF Fields
  <2> HIDE DEF new
  <2> QED BY <2>1, <2>2, <2>3 DEF IsSession
<1> HIDE DEF a, new, id
<1>6. /\ state' = [t \in Sessions |-> state'[t]] /\ state'[s] = new
      /\ \A t \in Sessions : t # s => state'[t] = state[t]
  BY <1>1, <1>2
<1>7. /\ adapter' \in [Sessions -> Seq(StepIds)] /\ adapter'[s] = a
      /\ \A t \in Sessions : t # s => adapter'[t] = adapter[t]
  BY <1>1, <1>4 DEF ServiceInv, Typed
<1>8. Agrees(s)'
  <2>1. Len(adapter[s]) = state[s].next_step_id
        /\ \A n \in DOMAIN adapter[s] : StepOf[adapter[s][n]] = n - 1
    BY <1>2, <1>3 DEF Agrees
  <2>2. Len(a) = state'[s].next_step_id
    BY <1>3, <1>4, <1>5, <1>6, <2>1
  <2>3. \A n \in DOMAIN a : StepOf[a[n]] = n - 1
    BY <1>3, <1>4, <2>1
  <2>4. s \in sessions' /\ s \in opened'
    BY <1>1, <1>2, <1>3
  <2> QED BY <1>7, <2>2, <2>3, <2>4 DEF Agrees
<1> QED BY <1>0, <1>1, <1>5, <1>6, <1>7, <1>8, OwnSessionOnly DEF Working

(* A reset starts both over.                                               *)
LEMMA ResetOkKeeps ==
  ASSUME ServiceInv, NEW h \in Handlers, ResetOk(h)
  PROVE  ServiceInv'
<1>0. PICK s \in Sessions : s = SessionOf(h)
  BY CallerKnows DEF ResetOk, ResetWith
<1> DEFINE new == [state[s] EXCEPT !.revision = @ + 1, !.next_step_id = 0, !.responses = <<>>,
                                   !.reset_requests = Remember(@, Response(h))]
<1>1. /\ pc[h] = "reset" /\ adapter' = [adapter EXCEPT ![s] = <<>>] /\ UNCHANGED <<opened, sessions>>
      /\ Return(h, Ok(Response(h))) /\ state' = [state EXCEPT ![s] = new]
  BY <1>0 DEF ResetOk, ResetWith
<1>2. /\ s \in opened /\ s \in sessions
      /\ IsSession(state[s]) /\ state = [t \in Sessions |-> state[t]]
  BY <1>0, <1>1, CallerKnows DEF ServiceInv, Phase
<1>3. IsSession(new) /\ new.next_step_id = 0
  <2>1. /\ state[s] = [f \in Fields |-> state[s][f]] /\ state[s].closed \in BOOLEAN
        /\ state[s].revision + 1 \in Nat
    BY <1>2 DEF IsSession
  <2>2. new = [f \in Fields |-> new[f]]
    BY <2>1 DEF Fields
  <2>3. /\ new.revision = state[s].revision + 1 /\ new.next_step_id = 0
        /\ new.closed = state[s].closed
    BY <2>1, Zenon DEF Fields
  <2> HIDE DEF new
  <2> QED BY <2>1, <2>2, <2>3 DEF IsSession
<1> HIDE DEF new
<1>4. /\ state' = [t \in Sessions |-> state'[t]] /\ state'[s] = new
      /\ \A t \in Sessions : t # s => state'[t] = state[t]
  BY <1>1, <1>2
<1>5. /\ adapter' \in [Sessions -> Seq(StepIds)] /\ adapter'[s] = <<>>
      /\ \A t \in Sessions : t # s => adapter'[t] = adapter[t]
  BY <1>1, EmptySeq DEF ServiceInv, Typed
<1>6. Agrees(s)'
  BY <1>1, <1>2, <1>3, <1>4, <1>5, EmptySeq DEF Agrees
<1> QED BY <1>0, <1>1, <1>3, <1>4, <1>5, <1>6, OwnSessionOnly DEF Working

(* A closed session is forgotten by the adapter and the service together.  *)
LEMMA CloseOkKeeps ==
  ASSUME ServiceInv, NEW h \in Handlers, CloseOk(h)
  PROVE  ServiceInv'
<1>0. PICK s \in Sessions : s = SessionOf(h)
  BY CallerKnows DEF CloseOk
<1> DEFINE new == [state[s] EXCEPT !.responses = <<>>, !.seen_requests = <<>>,
                                   !.reset_requests = <<>>]
<1>1. /\ pc[h] = "close" /\ adapter' = [adapter EXCEPT ![s] = <<>>] /\ opened' = opened
      /\ sessions' = sessions \ {s} /\ Return(h, Error("closed")) /\ state' = [state EXCEPT ![s] = new]
  BY <1>0 DEF CloseOk
<1>2. /\ s \in opened /\ state[s].closed /\ lock[s] = h
      /\ IsSession(state[s]) /\ state = [t \in Sessions |-> state[t]]
  BY <1>0, <1>1, CallerKnows DEF ServiceInv, Phase, Working
<1>3. IsSession(new) /\ new.closed
  BY <1>2 DEF IsSession, Fields
<1> HIDE DEF new
<1>4. /\ state' = [t \in Sessions |-> state'[t]] /\ state'[s] = new
      /\ \A t \in Sessions : t # s => state'[t] = state[t]
  BY <1>1, <1>2
<1>5. /\ adapter' \in [Sessions -> Seq(StepIds)] /\ adapter'[s] = <<>>
      /\ \A t \in Sessions : t # s => adapter'[t] = adapter[t]
  BY <1>1, EmptySeq DEF ServiceInv, Typed
<1>6. lock'[s] = Free
  BY <1>1, <1>2, ReturnFrees
<1>7. Agrees(s)'
  BY <1>1, <1>2, <1>3, <1>4, <1>5, <1>6 DEF Agrees
<1> QED BY <1>0, <1>1, <1>3, <1>4, <1>5, <1>7, OwnSessionOnly DEF Working

(* The invariant is inductive.                                             *)
LEMMA ServiceStepKeeps == ServiceInv /\ [Next]_vars => ServiceInv'
<1> SUFFICES ASSUME ServiceInv, [Next]_vars PROVE ServiceInv'
  OBVIOUS
<1>1. ASSUME NEW s \in Sessions, Open(s) PROVE ServiceInv'
  BY <1>1, OpenKeeps
<1>2. ASSUME NEW h \in Handlers, NEW c \in Call, Receive(h, c) PROVE ServiceInv'
  BY <1>2, ReceiveKeeps
<1>3. ASSUME NEW h \in Handlers,
             \/ EnterStep(h) \/ InferOk(h) \/ EnterReset(h) \/ ResetOk(h)
             \/ EnterClose(h) \/ CloseOk(h) \/ AdapterFails(h)
      PROVE  ServiceInv'
  BY <1>3, EnterStepKeeps, InferOkKeeps, EnterResetKeeps, ResetOkKeeps, EnterCloseKeeps,
     CloseOkKeeps, AdapterFailsKeeps
<1>4. CASE UNCHANGED vars
  BY <1>4 DEF vars, ServiceInv, Typed, Phase, Held, Agrees, SessionOf
<1> QED BY <1>1, <1>2, <1>3, <1>4 DEF Next

(***************************************************************************)
(* The service with the memory of its adapters.                            *)
(***************************************************************************)

(* What a handler of the composed system does is a step of the service.    *)
LEMMA ServedIsService == [ServedNext]_servedVars => [Next]_vars
BY DEF ServedNext, servedVars, vars, ServeRequest, ServeStep, ServeFails, ServeReset, Next

(* A served policy is a policy service, whichever adapter it has.          *)
THEOREM ServedIsAService == ServedSpec => Spec
<1>1. ServedInit => Init
  BY DEF ServedInit
<1> QED BY <1>1, ServedIsService, PTL DEF ServedSpec, Spec

(* The invariant of the service holds whatever the adapters remember.      *)
THEOREM ServiceInvariant == Spec => []ServiceInv
BY InitService, ServiceStepKeeps, PTL DEF Spec

(* However requests are resent, reordered, refused or fail in the adapter, *)
(* the adapter of a session has executed exactly the steps 0, 1, .. of the *)
(* episode that the session has counted.                                   *)
THEOREM AdapterInStep == ServedSpec => []AdapterFollowsSession
<1>1. ServiceInv => AdapterFollowsSession
  BY DEF ServiceInv, Typed, Agrees, AdapterFollowsSession
<1> QED BY <1>1, ServedIsAService, ServiceInvariant, PTL

(* Nothing of a closed session is left in the adapter, and its lock is     *)
(* free, whichever requests were on their way when it closed.              *)
THEOREM NothingIsLeft == ServedSpec => []ClosedLeavesNothing
<1>1. ServiceInv => ClosedLeavesNothing
  BY DEF ServiceInv, Typed, Agrees, ClosedLeavesNothing
<1> QED BY <1>1, ServedIsAService, ServiceInvariant, PTL

(***************************************************************************)
(* The memory of the adapters.                                             *)
(***************************************************************************)

Responses == [id : StepIds \cup ResetIds, content : Contents, revision : Nat]

Revisions(q) == [n \in DOMAIN q |-> q[n].revision]

(* MemoryFollowsEpisode for one session, as a relation.                    *)
Follows(adapters, kept, episode) ==
  CASE adapters = "dm05" -> kept = LastOf(episode, history_frames)
    [] adapters = "pi05" -> Len(kept) <= 1 /\ Range(kept) \subseteq Range(episode)
    [] adapters = "streamvln" -> kept = episode

(* The history of a session reaches back to the start of its episode.      *)
Remembers(s) ==
  /\ Len(history[s]) >= state[s].next_step_id
  /\ s \in sessions => Follows(model, memory[s], EpisodeOf(s))
  /\ s \notin sessions => memory[s] = <<>>

MemoryInv ==
  /\ model \in {"dm05", "pi05", "streamvln"}
  /\ memory \in [Sessions -> Seq(Nat)]
  /\ history \in [Sessions -> Seq(Responses)]
  /\ \A s \in Sessions : Remembers(s)

(* The last n of a sequence.                                               *)
LEMMA LastOfShape ==
  ASSUME NEW S, NEW q \in Seq(S), NEW n \in Nat
  PROVE  /\ LastOf(q, n) \in Seq(S)
         /\ Len(LastOf(q, n)) = IF Len(q) <= n THEN Len(q) ELSE n
         /\ \A i \in 1..Len(LastOf(q, n)) :
              LastOf(q, n)[i] = q[Len(q) - Len(LastOf(q, n)) + i]
<1>1. Len(q) \in Nat /\ \A i \in 1..Len(q) : q[i] \in S
  BY LenProperties, ElementOfSeq
<1>2. CASE Len(q) <= n
  BY <1>1, <1>2 DEF LastOf
<1>3. CASE Len(q) > n
  <2>1. LastOf(q, n) = SubSeq(q, Len(q) - n + 1, Len(q))
    BY <1>1, <1>3 DEF LastOf
  <2>2. \A i \in Len(q) - n + 1 .. Len(q) : q[i] \in S
    BY <1>1, <1>3
  <2>3. /\ LastOf(q, n) \in Seq(S)
        /\ Len(LastOf(q, n)) = IF Len(q) - n + 1 <= Len(q) THEN Len(q) - (Len(q) - n + 1) + 1 ELSE 0
        /\ \A i \in 1 .. Len(q) - (Len(q) - n + 1) + 1 :
             LastOf(q, n)[i] = q[Len(q) - n + 1 + i - 1]
    BY <1>1, <2>1, <2>2, SubSeqProperties
  <2>4. Len(LastOf(q, n)) = n /\ Len(q) - (Len(q) - n + 1) + 1 = n
    BY <1>1, <1>3, <2>3
  <2>5. ASSUME NEW i \in 1..n PROVE LastOf(q, n)[i] = q[Len(q) - n + i]
    <3>1. LastOf(q, n)[i] = q[Len(q) - n + 1 + i - 1]
      BY <2>3, <2>4
    <3>2. Len(q) - n + 1 + i - 1 = Len(q) - n + i
      BY <1>1
    <3> QED BY <3>1, <3>2
  <2>6. ~(Len(q) <= n) /\ LastOf(q, n) \in Seq(S)
    BY <1>1, <1>3, <2>3
  <2> HIDE DEF LastOf
  <2> QED BY <2>4, <2>5, <2>6
<1> QED BY <1>1, <1>2, <1>3

(* One more element than before, with the newest appended.                 *)
LEMMA LastOfLonger ==
  ASSUME NEW S, NEW q \in Seq(S), NEW x \in S, NEW n \in Nat, n <= Len(q)
  PROVE  LastOf(Append(q, x), n + 1) = Append(LastOf(q, n), x)
<1> DEFINE a == Append(q, x)
           l == LastOf(a, n + 1)
           k == LastOf(q, n)
           b == Append(k, x)
<1>1. Len(q) \in Nat
  BY LenProperties
<1>2. /\ a \in Seq(S) /\ Len(a) = Len(q) + 1 /\ a[Len(q) + 1] = x
      /\ \A i \in 1..Len(q) : a[i] = q[i]
  BY AppendProperties
<1>3. k \in Seq(S) /\ Len(k) = n /\ \A i \in 1..n : k[i] = q[Len(q) - n + i]
  <2>1. /\ k \in Seq(S) /\ Len(k) = IF Len(q) <= n THEN Len(q) ELSE n
        /\ \A i \in 1..Len(k) : k[i] = q[Len(q) - Len(k) + i]
    BY LastOfShape
  <2> HIDE DEF k
  <2>2. Len(k) = n
    BY <1>1, <2>1
  <2> QED BY <2>1, <2>2
<1> HIDE DEF a, k
<1>4. l \in Seq(S) /\ Len(l) = n + 1 /\ \A i \in 1..n + 1 : l[i] = a[Len(a) - (n + 1) + i]
  <2>1. /\ l \in Seq(S) /\ Len(l) = IF Len(a) <= n + 1 THEN Len(a) ELSE n + 1
        /\ \A i \in 1..Len(l) : l[i] = a[Len(a) - Len(l) + i]
    BY <1>2, LastOfShape
  <2> HIDE DEF l
  <2>2. Len(l) = n + 1
    BY <1>1, <1>2, <2>1
  <2> QED BY <2>1, <2>2
<1>5. /\ b \in Seq(S) /\ Len(b) = n + 1 /\ b[n + 1] = x
      /\ \A i \in 1..n : b[i] = k[i]
  BY <1>3, AppendProperties
<1> HIDE DEF l, b
<1>6. ASSUME NEW i \in 1..n + 1 PROVE l[i] = b[i]
  <2>1. CASE i = n + 1
    BY <1>1, <1>2, <1>4, <1>5, <2>1
  <2>2. CASE i \in 1..n
    <3>1. Len(a) - (n + 1) + i = Len(q) - n + i /\ Len(q) - n + i \in 1..Len(q)
      BY <1>1, <1>2, <2>2
    <3>2. l[i] = a[Len(q) - n + i] /\ a[Len(q) - n + i] = q[Len(q) - n + i]
      BY <1>2, <1>4, <3>1
    <3>3. b[i] = q[Len(q) - n + i]
      BY <1>3, <1>5, <2>2
    <3> QED BY <3>2, <3>3
  <2> QED BY <2>1, <2>2
<1>7. l = b
  BY <1>4, <1>5, <1>6, SeqEqual
<1> QED BY <1>7 DEF l, b, a, k

(* A bounded history is that of the whole one.                             *)
LEMMA LastOfRolling ==
  ASSUME NEW S, NEW q \in Seq(S), NEW x \in S, NEW n \in Nat \ {0}
  PROVE  LastOf(Append(LastOf(q, n), x), n) = LastOf(Append(q, x), n)
<1> DEFINE k == LastOf(q, n)
           a == Append(k, x)
           b == Append(q, x)
           l == LastOf(a, n)
           m == LastOf(b, n)
<1>1. Len(q) \in Nat
  BY LenProperties
<1>2. /\ k \in Seq(S) /\ Len(k) = IF Len(q) <= n THEN Len(q) ELSE n
      /\ \A i \in 1..Len(k) : k[i] = q[Len(q) - Len(k) + i]
  BY LastOfShape
<1>3. /\ b \in Seq(S) /\ Len(b) = Len(q) + 1 /\ b[Len(q) + 1] = x
      /\ \A i \in 1..Len(q) : b[i] = q[i]
  BY AppendProperties
<1> HIDE DEF k, b
<1>4. /\ a \in Seq(S) /\ Len(a) = Len(k) + 1 /\ a[Len(k) + 1] = x
      /\ \A i \in 1..Len(k) : a[i] = k[i]
  BY <1>2, AppendProperties
<1> HIDE DEF a
<1>5. /\ l \in Seq(S) /\ Len(l) = IF Len(a) <= n THEN Len(a) ELSE n
      /\ \A i \in 1..Len(l) : l[i] = a[Len(a) - Len(l) + i]
  BY <1>4, LastOfShape
<1>6. /\ m \in Seq(S) /\ Len(m) = IF Len(b) <= n THEN Len(b) ELSE n
      /\ \A i \in 1..Len(m) : m[i] = b[Len(b) - Len(m) + i]
  <2>1. n \in Nat /\ b \in Seq(S)
    BY <1>3
  <2> QED BY <2>1, LastOfShape
<1> HIDE DEF l, m
<1>7. /\ Len(l) = Len(m) /\ Len(l) \in Nat /\ Len(l) # 0 /\ Len(k) \in Nat
      /\ Len(l) <= Len(a) /\ Len(m) <= Len(b) /\ Len(q) - Len(k) + Len(a) = Len(b)
  <2>1. Len(k) \in Nat /\ Len(a) = Len(k) + 1 /\ Len(b) = Len(q) + 1
    BY <1>1, <1>2, <1>3, <1>4
  <2>2. CASE Len(q) < n
    <3>1. Len(k) = Len(q)
      BY <1>1, <1>2, <2>2
    <3>2. Len(a) <= n /\ Len(b) <= n /\ Len(a) = Len(b)
      BY <1>1, <2>1, <2>2, <3>1
    <3>3. Len(l) = Len(a) /\ Len(m) = Len(b)
      BY <1>5, <1>6, <3>2
    <3> QED BY <1>1, <2>1, <3>1, <3>2, <3>3
  <2>3. CASE Len(q) >= n
    <3>1. Len(k) = n
      BY <1>1, <1>2, <2>3
    <3> QED BY <1>1, <1>5, <1>6, <2>1, <2>3, <3>1
  <2> QED BY <1>1, <2>2, <2>3
<1>8. ASSUME NEW i \in 1..Len(l) PROVE l[i] = m[i]
  <2>1. CASE i = Len(l)
    <3>1. Len(a) - Len(l) + i = Len(k) + 1 /\ Len(b) - Len(m) + i = Len(q) + 1
      BY <1>1, <1>3, <1>4, <1>7, <2>1
    <3> QED BY <1>3, <1>4, <1>5, <1>6, <1>7, <3>1
  <2>2. CASE i \in 1..Len(l) - 1
    <3>1. Len(a) - Len(l) + i \in 1..Len(k) /\ Len(b) - Len(m) + i \in 1..Len(q)
      BY <1>1, <1>3, <1>4, <1>7, <2>2
    <3>2. l[i] = k[Len(a) - Len(l) + i] /\ m[i] = q[Len(b) - Len(m) + i]
      BY <1>3, <1>4, <1>5, <1>6, <1>7, <3>1
    <3>3. k[Len(a) - Len(l) + i] = q[Len(q) - Len(k) + (Len(a) - Len(l) + i)]
      BY <1>2, <3>1
    <3>4. Len(q) - Len(k) + (Len(a) - Len(l) + i) = Len(b) - Len(m) + i
      BY <1>1, <1>3, <1>4, <1>7
    <3> QED BY <3>2, <3>3, <3>4
  <2> QED BY <1>7, <2>1, <2>2
<1>9. l = m
  BY <1>5, <1>6, <1>7, <1>8, SeqEqual
<1> QED BY <1>9 DEF l, m, a, b, k

(* The revisions of a sequence of responses.                               *)
LEMMA RevisionsShape ==
  ASSUME NEW q \in Seq(Responses)
  PROVE  /\ Revisions(q) \in Seq(Nat) /\ Len(Revisions(q)) = Len(q)
         /\ \A i \in 1..Len(q) : Revisions(q)[i] = q[i].revision
<1>1. /\ Len(q) \in Nat /\ DOMAIN q = 1..Len(q)
      /\ \A i \in 1..Len(q) : q[i] \in Responses
  BY LenProperties, ElementOfSeq
<1>2. \A r \in Responses : r.revision \in Nat
  BY DEF Responses
<1>3. Revisions(q) \in [1..Len(q) -> Nat]
  BY <1>1, <1>2 DEF Revisions
<1> QED BY <1>1, <1>3, LenProperties DEF Revisions

(* They grow with it.                                                      *)
LEMMA RevisionsOfLonger ==
  ASSUME NEW q \in Seq(Responses), NEW r \in Responses
  PROVE  Revisions(Append(q, r)) = Append(Revisions(q), r.revision)
<1> DEFINE a == Append(q, r)
           l == Revisions(a)
           b == Append(Revisions(q), r.revision)
<1>1. Len(q) \in Nat /\ r.revision \in Nat
  BY LenProperties DEF Responses
<1>2. /\ a \in Seq(Responses) /\ Len(a) = Len(q) + 1 /\ a[Len(q) + 1] = r
      /\ \A i \in 1..Len(q) : a[i] = q[i]
  BY AppendProperties
<1> HIDE DEF a
<1>3. l \in Seq(Nat) /\ Len(l) = Len(a) /\ \A i \in 1..Len(a) : l[i] = a[i].revision
  BY <1>2, RevisionsShape
<1>4. /\ Revisions(q) \in Seq(Nat) /\ Len(Revisions(q)) = Len(q)
      /\ \A i \in 1..Len(q) : Revisions(q)[i] = q[i].revision
  BY RevisionsShape
<1>5. /\ b \in Seq(Nat) /\ Len(b) = Len(q) + 1 /\ b[Len(q) + 1] = r.revision
      /\ \A i \in 1..Len(q) : b[i] = q[i].revision
  BY <1>1, <1>4, AppendProperties
<1> HIDE DEF l, b
<1>6. ASSUME NEW i \in 1..Len(q) + 1 PROVE l[i] = b[i]
  <2>1. l[i] = a[i].revision
    BY <1>2, <1>3
  <2>2. CASE i = Len(q) + 1
    BY <1>2, <1>5, <2>1, <2>2
  <2>3. CASE i \in 1..Len(q)
    BY <1>2, <1>5, <2>1, <2>3
  <2> QED BY <1>1, <2>2, <2>3
<1>7. l = b
  BY <1>1, <1>2, <1>3, <1>5, <1>6, SeqEqual
<1> QED BY <1>7 DEF l, b, a

(* What the requests that call no adapter leave of every session.          *)
LEMMA RequestsCountNothing ==
  ASSUME ServiceInv, NEW h \in Handlers, ServeRequest(h)
  PROVE  /\ UNCHANGED <<sessions, history, model, memory>>
         /\ \A s \in Sessions : state'[s].next_step_id = state[s].next_step_id
<1>1. UNCHANGED <<sessions, history, model, memory>>
  BY DEF ServeRequest, Receive, EnterStep, EnterReset, EnterClose
<1>2. CASE state' = state
  BY <1>1, <1>2
<1>3. CASE EnterStep(h) /\ Replay(h, "responses")
  <2>1. PICK s \in Sessions : s = SessionOf(h) /\ pc[h] # "idle"
    BY <1>3, CallerKnows DEF EnterStep
  <2> QED BY <1>1, <1>3, <2>1, ReplayKeepsFields
<1>4. CASE EnterReset(h) /\ Replay(h, "reset_requests")
  <2>1. PICK s \in Sessions : s = SessionOf(h) /\ pc[h] # "idle"
    BY <1>4, CallerKnows DEF EnterReset
  <2> QED BY <1>1, <1>4, <2>1, ReplayKeepsFields
<1>5. CASE EnterClose(h) /\ state' = [state EXCEPT ![SessionOf(h)].closed = TRUE]
  <2>1. PICK s \in Sessions : s = SessionOf(h)
    BY <1>5, CallerKnows DEF EnterClose
  <2>2. state = [t \in Sessions |-> state[t]]
    BY DEF ServiceInv, Typed
  <2>3. IsSession(state[s])
    BY DEF ServiceInv, Typed
  <2>4. state'[s].next_step_id = state[s].next_step_id
    BY <1>5, <2>1, <2>2, <2>3 DEF IsSession, Fields
  <2>5. \A t \in Sessions : t # s => state'[t] = state[t]
    BY <1>5, <2>1, <2>2
  <2> QED BY <1>1, <2>4, <2>5
<1> QED BY <1>2, <1>3, <1>4, <1>5 DEF ServeRequest, Receive, EnterStep, EnterReset, EnterClose

(* Sessions whose parts do not change keep their memory.                   *)
LEMMA SameRemembers ==
  ASSUME NEW s \in Sessions, Remembers(s), model' = model,
         memory'[s] = memory[s], history'[s] = history[s],
         state'[s].next_step_id = state[s].next_step_id,
         s \in sessions' <=> s \in sessions
  PROVE  Remembers(s)'
BY DEF Remembers, EpisodeOf

(* A committed step is appended to the memory, or replaces it.             *)
LEMMA StepFollows ==
  ASSUME NEW adapters \in {"dm05", "pi05", "streamvln"}, NEW old \in Seq(Nat),
         NEW episode \in Seq(Nat), NEW revision \in Nat,
         Follows(adapters, old, episode),
         NEW kept \in CASE adapters = "dm05" -> {LastOf(Append(old, revision), history_frames)}
                        [] adapters = "pi05" -> {<<revision>>, old}
                        [] adapters = "streamvln" -> {Append(old, revision)}
  PROVE  kept \in Seq(Nat) /\ Follows(adapters, kept, Append(episode, revision))
<1> DEFINE longer == Append(episode, revision)
<1>1. /\ longer \in Seq(Nat) /\ Len(longer) = Len(episode) + 1 /\ longer[Len(episode) + 1] = revision
      /\ \A i \in 1..Len(episode) : longer[i] = episode[i]
  BY AppendProperties
<1>2. Append(old, revision) \in Seq(Nat)
  BY AppendProperties
<1>3. CASE adapters = "dm05"
  <2>1. old = LastOf(episode, history_frames) /\ kept = LastOf(Append(old, revision), history_frames)
    BY <1>3 DEF Follows
  <2>2. kept = LastOf(longer, history_frames)
    BY <2>1, LastOfRolling, ServedAssumption
  <2>3. kept \in Seq(Nat)
    BY <1>1, <2>2, LastOfShape, ServedAssumption
  <2> QED BY <1>3, <2>2, <2>3 DEF Follows
<1>4. CASE adapters = "pi05"
  <2>1. Len(old) <= 1 /\ Range(old) \subseteq Range(episode) /\ kept \in {<<revision>>, old}
    BY <1>4 DEF Follows
  <2>2. Len(episode) \in Nat /\ DOMAIN episode = 1..Len(episode) /\ DOMAIN longer = 1..Len(longer)
    BY <1>1, LenProperties
  <2> HIDE DEF longer
  <2>3. Range(episode) \subseteq Range(longer) /\ revision \in Range(longer)
    <3>1. \A i \in DOMAIN episode : i \in DOMAIN longer /\ longer[i] = episode[i]
      BY <1>1, <2>2
    <3>2. Len(episode) + 1 \in DOMAIN longer
      BY <1>1, <2>2
    <3>3. Range(episode) \subseteq Range(longer)
      BY <3>1, Zenon DEF Range
    <3> QED BY <1>1, <3>2, <3>3, Zenon DEF Range
  <2>4. <<revision>> \in Seq(Nat) /\ Len(<<revision>>) = 1 /\ Range(<<revision>>) = {revision}
    BY DEF Range
  <2>5. kept \in Seq(Nat) /\ Len(kept) <= 1 /\ Range(kept) \subseteq Range(longer)
    <3>1. CASE kept = old
      BY <2>1, <2>3, <3>1
    <3>2. CASE kept = <<revision>>
      BY <2>3, <2>4, <3>2
    <3> QED BY <2>1, <3>1, <3>2
  <2> QED BY <1>4, <2>5 DEF Follows, longer
<1>5. CASE adapters = "streamvln"
  BY <1>2, <1>5 DEF Follows
<1> QED BY <1>3, <1>4, <1>5

(* A step commits one more revision of the episode and one more memory.    *)
LEMMA ServeStepRemembers ==
  ASSUME ServiceInv, MemoryInv, NEW h \in Handlers, ServeStep(h)
  PROVE  MemoryInv'
<1>1. PICK s \in Sessions : s = SessionOf(h)
  BY CallerKnows DEF ServeStep, InferOk
<1> DEFINE response == Response(h)
           new == [state[s] EXCEPT
             !.revision = @ + 1,
             !.next_step_id = StepOf[call[h].id] + 1,
             !.seen_requests = Remember(@, [id |-> call[h].id, content |-> call[h].content]),
             !.responses = Remember(@, response)]
<1>2. /\ pc[h] = "infer" /\ history' = [history EXCEPT ![s] = Append(@, response)]
      /\ state' = [state EXCEPT ![s] = new] /\ sessions' = sessions /\ model' = model
  BY <1>1 DEF ServeStep, InferOk
<1>3. PICK kept \in Kept(memory[s], response.revision) : memory' = [memory EXCEPT ![s] = kept]
  BY <1>1 DEF ServeStep
<1>4. /\ call[h] \in Call /\ call[h].op = "step" /\ s \in sessions
      /\ IsSession(state[s]) /\ state = [t \in Sessions |-> state[t]]
      /\ StepOf[call[h].id] = state[s].next_step_id
  BY <1>1, <1>2, CallerKnows DEF ServiceInv, Phase
<1>5. /\ response \in Responses /\ response.revision = state[s].revision + 1
      /\ response.revision \in Nat
  BY <1>1, <1>4, CallShape DEF Response, Responses, IsSession
<1>6. new.next_step_id = state[s].next_step_id + 1
  BY <1>4, Zenon DEF IsSession, Fields
<1> HIDE DEF new, response
<1>7. /\ state'[s].next_step_id = state[s].next_step_id + 1 /\ state[s].next_step_id \in Nat
      /\ \A t \in Sessions : t # s => state'[t] = state[t]
  BY <1>2, <1>4, <1>6 DEF IsSession
<1>8. /\ memory[s] \in Seq(Nat) /\ history[s] \in Seq(Responses) /\ Remembers(s)
      /\ history'[s] = Append(history[s], response)
      /\ \A t \in Sessions : t # s => history'[t] = history[t]
  BY <1>2 DEF MemoryInv
<1> DEFINE n == state[s].next_step_id
           steps == LastOf(history[s], n)
<1>9. Len(history[s]) >= n /\ Len(history[s]) \in Nat /\ Follows(model, memory[s], EpisodeOf(s))
  BY <1>4, <1>8, LenProperties DEF Remembers
<1>10. steps \in Seq(Responses)
  BY <1>7, <1>8, LastOfShape
<1>11. EpisodeOf(s) = Revisions(steps) /\ Revisions(steps) \in Seq(Nat)
  BY <1>10, RevisionsShape DEF EpisodeOf, Revisions
<1>12. EpisodeOf(s)' = Append(EpisodeOf(s), response.revision)
  <2>1. LastOf(Append(history[s], response), n + 1) = Append(steps, response)
    BY <1>5, <1>7, <1>8, <1>9, LastOfLonger
  <2>2. EpisodeOf(s)' = Revisions(Append(steps, response))
    BY <1>7, <1>8, <2>1 DEF EpisodeOf, Revisions
  <2> QED BY <1>5, <1>10, <1>11, <2>2, RevisionsOfLonger
<1>13. kept \in Seq(Nat) /\ Follows(model, kept, Append(EpisodeOf(s), response.revision))
  BY <1>3, <1>5, <1>8, <1>9, <1>11, StepFollows DEF Kept, MemoryInv
<1>14. /\ memory' \in [Sessions -> Seq(Nat)] /\ memory'[s] = kept
       /\ \A t \in Sessions : t # s => memory'[t] = memory[t]
  BY <1>3, <1>13 DEF MemoryInv
<1>15. /\ Append(history[s], response) \in Seq(Responses)
       /\ Len(Append(history[s], response)) = Len(history[s]) + 1
  BY <1>5, <1>8, AppendProperties
<1>16. history' \in [Sessions -> Seq(Responses)]
  BY <1>2, <1>15 DEF MemoryInv
<1>17. Remembers(s)'
  <2>1. Len(history'[s]) >= state'[s].next_step_id
    BY <1>7, <1>8, <1>9, <1>15
  <2>2. s \in sessions' /\ Follows(model, memory[s], EpisodeOf(s))'
    BY <1>2, <1>4, <1>12, <1>13, <1>14 DEF Follows
  <2> QED BY <2>1, <2>2 DEF Remembers
<1>18. ASSUME NEW t \in Sessions, t # s PROVE Remembers(t)'
  BY <1>2, <1>7, <1>8, <1>14, <1>18, SameRemembers DEF MemoryInv
<1> QED BY <1>2, <1>14, <1>16, <1>17, <1>18 DEF MemoryInv

(* An episode without steps.                                               *)
LEMMA EmptyEpisode ==
  ASSUME NEW q \in Seq(Responses)
  PROVE  Revisions(LastOf(q, 0)) = <<>>
<1>1. LastOf(q, 0) \in Seq(Responses) /\ Len(LastOf(q, 0)) = 0
  BY LastOfShape, LenProperties
<1>2. Revisions(LastOf(q, 0)) \in Seq(Nat) /\ Len(Revisions(LastOf(q, 0))) = 0
  BY <1>1, RevisionsShape
<1> QED BY <1>2, EmptySeq

(* Every adapter remembers nothing of it.                                  *)
LEMMA NothingFollows ==
  ASSUME NEW adapters \in {"dm05", "pi05", "streamvln"}
  PROVE  Follows(adapters, <<>>, <<>>)
<1>1. /\ Len(<<>>) = 0 /\ Len(<<>>) <= 1 /\ LastOf(<<>>, history_frames) = <<>>
      /\ Range(<<>>) \subseteq Range(<<>>)
  BY ServedAssumption DEF LastOf
<1> QED BY <1>1 DEF Follows

(* A reset and a close leave an empty memory of an empty episode.          *)
LEMMA ServeResetRemembers ==
  ASSUME ServiceInv, MemoryInv, NEW h \in Handlers, ServeReset(h)
  PROVE  MemoryInv'
<1>1. PICK s \in Sessions : s = SessionOf(h)
  BY CallerKnows DEF ServeReset, ResetOk, ResetWith, CloseOk
<1>2. /\ memory' \in [Sessions -> Seq(Nat)] /\ memory'[s] = <<>> /\ model' = model
      /\ \A t \in Sessions : t # s => memory'[t] = memory[t]
  BY <1>1, EmptySeq DEF ServeReset, MemoryInv
<1>3. CASE CloseOk(h)
  <2>1. /\ history' = history /\ sessions' = sessions \ {s} /\ pc[h] # "idle"
        /\ state' = [state EXCEPT ![s] = [state[s] EXCEPT !.responses = <<>>,
                       !.seen_requests = <<>>, !.reset_requests = <<>>]]
    BY <1>1, <1>3 DEF CloseOk
  <2>2. IsSession(state[s]) /\ state = [t \in Sessions |-> state[t]]
    BY <1>1, <2>1, CallerKnows
  <2>3. \A t \in Sessions : state'[t].next_step_id = state[t].next_step_id
    BY <2>1, <2>2 DEF IsSession, Fields
  <2>4. Remembers(s)'
    BY <1>2, <2>1, <2>3 DEF MemoryInv, Remembers
  <2>5. ASSUME NEW t \in Sessions, t # s PROVE Remembers(t)'
    BY <1>2, <2>1, <2>3, <2>5, SameRemembers DEF MemoryInv
  <2> QED BY <1>2, <2>1, <2>4, <2>5 DEF MemoryInv
<1>4. CASE ResetOk(h)
  <2> DEFINE response == Response(h)
             new == [state[s] EXCEPT !.revision = @ + 1, !.next_step_id = 0, !.responses = <<>>,
                                     !.reset_requests = Remember(@, response)]
  <2>1. /\ history' = [history EXCEPT ![s] = Append(@, response)] /\ sessions' = sessions
        /\ pc[h] = "reset" /\ state' = [state EXCEPT ![s] = new]
    BY <1>1, <1>4 DEF ResetOk, ResetWith
  <2>2. /\ call[h] \in Call /\ call[h].op = "reset" /\ s \in sessions
        /\ IsSession(state[s]) /\ state = [t \in Sessions |-> state[t]]
    BY <1>1, <2>1, CallerKnows DEF ServiceInv, Phase
  <2>3. response \in Responses
    BY <1>1, <2>2, CallShape DEF Response, Responses, IsSession
  <2>4. new.next_step_id = 0
    BY <2>2, Zenon DEF IsSession, Fields
  <2> HIDE DEF new, response
  <2>5. state'[s].next_step_id = 0 /\ \A t \in Sessions : t # s => state'[t] = state[t]
    BY <2>1, <2>2, <2>4
  <2>6. /\ history[s] \in Seq(Responses) /\ history'[s] = Append(history[s], response)
        /\ \A t \in Sessions : t # s => history'[t] = history[t]
    BY <2>1 DEF MemoryInv
  <2>7. history'[s] \in Seq(Responses) /\ Len(history'[s]) \in Nat
    BY <2>3, <2>6, AppendProperties, LenProperties
  <2>8. history' \in [Sessions -> Seq(Responses)]
    BY <2>1, <2>6, <2>7 DEF MemoryInv
  <2>9. EpisodeOf(s)' = <<>>
    BY <2>5, <2>7, EmptyEpisode DEF EpisodeOf, Revisions
  <2>10. Follows(model, <<>>, <<>>)
    BY NothingFollows DEF MemoryInv
  <2>11. Remembers(s)'
    <3>1. Follows(model, memory[s], EpisodeOf(s))'
      BY <1>2, <2>9, <2>10 DEF Follows
    <3>2. Len(history'[s]) >= state'[s].next_step_id
      BY <2>5, <2>7
    <3> QED BY <2>1, <2>2, <3>1, <3>2 DEF Remembers
  <2>12. ASSUME NEW t \in Sessions, t # s PROVE Remembers(t)'
    BY <1>2, <2>1, <2>5, <2>6, <2>12, SameRemembers DEF MemoryInv
  <2> QED BY <1>2, <2>8, <2>11, <2>12 DEF MemoryInv
<1> QED BY <1>3, <1>4 DEF ServeReset

(* Open sessions start, and failures leave, the memory as it was.          *)
LEMMA ServedStepRemembers ==
  ServiceInv /\ MemoryInv /\ [ServedNext]_servedVars => MemoryInv'
<1> SUFFICES ASSUME ServiceInv, MemoryInv, [ServedNext]_servedVars PROVE MemoryInv'
  OBVIOUS
<1>1. ASSUME NEW s \in Sessions, Open(s), UNCHANGED <<model, memory>> PROVE MemoryInv'
  <2>1. /\ UNCHANGED <<state, history, model, memory>> /\ sessions' = sessions \cup {s}
        /\ s \notin opened /\ s \notin sessions
    BY <1>1 DEF Open, ServiceInv, Typed
  <2>2. state[s].next_step_id = 0 /\ memory[s] = <<>> /\ history[s] \in Seq(Responses)
    BY <2>1 DEF ServiceInv, Agrees, MemoryInv, Remembers
  <2>3. EpisodeOf(s) = <<>> /\ Len(history[s]) \in Nat
    BY <2>2, EmptyEpisode, LenProperties DEF EpisodeOf, Revisions
  <2>4. Follows(model, <<>>, <<>>)
    BY NothingFollows DEF MemoryInv
  <2>5. EpisodeOf(s)' = EpisodeOf(s)
    BY <2>1 DEF EpisodeOf
  <2>6. Follows(model, memory[s], EpisodeOf(s))'
    BY <2>1, <2>2, <2>3, <2>4, <2>5 DEF Follows
  <2>7. Remembers(s)'
    BY <2>1, <2>2, <2>3, <2>6 DEF Remembers
  <2>8. ASSUME NEW t \in Sessions, t # s PROVE Remembers(t)'
    BY <2>1, <2>8, SameRemembers DEF MemoryInv
  <2> QED BY <2>1, <2>7, <2>8 DEF MemoryInv
<1>2. ASSUME NEW h \in Handlers, ServeRequest(h) PROVE MemoryInv'
  BY <1>2, RequestsCountNothing, SameRemembers DEF MemoryInv
<1>3. ASSUME NEW h \in Handlers, ServeFails(h) PROVE MemoryInv'
  <2>1. UNCHANGED <<sessions, state, history, model, memory>>
    BY <1>3 DEF ServeFails, AdapterFails
  <2> QED BY <2>1, SameRemembers DEF MemoryInv
<1>4. CASE UNCHANGED servedVars
  BY <1>4, SameRemembers DEF servedVars, MemoryInv
<1> QED BY <1>1, <1>2, <1>3, <1>4, ServeStepRemembers, ServeResetRemembers DEF ServedNext

(* What DM0.5, pi0.5 or StreamVLN keeps of a session is exactly what the   *)
(* committed steps of its current episode left, the last history_frames of *)
(* them for DM0.5: a failed attempt adds nothing, a retry nothing twice, a *)
(* reset or close forgets all.                                             *)
THEOREM MemoryFollows == ServedSpec => []MemoryFollowsEpisode
<1>1. ServedInit => MemoryInv
  <2> SUFFICES ASSUME ServedInit PROVE MemoryInv
    OBVIOUS
  <2>1. \A s \in Sessions : Remembers(s)
    <3>1. Len(<<>>) = 0
      OBVIOUS
    <3> QED BY <3>1 DEF ServedInit, Init, NewSession, Remembers
  <2> QED BY <2>1, EmptySeq DEF ServedInit, Init, MemoryInv
<1>2. MemoryInv => MemoryFollowsEpisode
  BY DEF MemoryInv, Remembers, Follows, MemoryFollowsEpisode
<1>3. ServedSpec => []MemoryInv
  BY <1>1, ServedStepRemembers, ServedIsAService, ServiceInvariant, PTL DEF ServedSpec
<1> QED BY <1>2, <1>3, PTL

(***************************************************************************)
(* What the caches of a session still answer, and how long they recognise  *)
(* what they no longer answer.                                             *)
(***************************************************************************)

Requests == [id : StepIds, content : Contents]
StepResponses == [id : StepIds, content : Contents, revision : Nat]
ResetResponses == [id : ResetIds, content : Contents, revision : Nat]

(* The number of steps executed after the m-th operation.                  *)
Later(ops, m) == Cardinality(PlacesOf(ops, StepIds) \cap (m + 1)..Len(ops))

(* seen_requests is a queue: a step is behind no more of its entries than  *)
(* there were steps since, and gone only after as many as the queue holds. *)
SeenOrLate(ops, seen) ==
  \A m \in PlacesOf(ops, StepIds) :
    \/ \E p \in DOMAIN seen : seen[p].id = ops[m].id /\ Len(seen) - p <= Later(ops, m)
    \/ Later(ops, m) >= idempotency_cache_size

(* reset_requests evicts only when it is full.                             *)
CachedOrFull(ops, resets) ==
  \A m \in PlacesOf(ops, ResetIds) :
    Has(resets, ops[m].id) \/ Len(resets) = idempotency_cache_size

Distinct(cache) == \A m, n \in DOMAIN cache : cache[m].id = cache[n].id => m = n

(* The fields of a session agree with its adapter and its history.         *)
Recorded(r, a, ops) ==
  /\ ops \in Seq(Responses)
  /\ r.responses \in Seq(StepResponses)
  /\ r.seen_requests \in Seq(Requests)
  /\ r.reset_requests \in Seq(ResetResponses)
  /\ Range(r.responses) \subseteq Range(ops)
  /\ \A n \in DOMAIN r.responses : r.responses[n].id \in Range(a)
  /\ Range(r.reset_requests) \subseteq Range(ops)
  /\ Len(r.responses) <= idempotency_cache_size
  /\ Len(r.seen_requests) <= idempotency_cache_size
  /\ Len(r.reset_requests) <= idempotency_cache_size /\ Distinct(r.reset_requests)
  /\ ~r.closed => SeenOrLate(ops, r.seen_requests) /\ CachedOrFull(ops, r.reset_requests)
  /\ RepeatsLate(ops)

(* An operation that is about to be executed is none that is remembered.   *)
Admitted(h) ==
  LET r == state[SessionOf(h)]
      id == call[h].id
  IN  /\ pc[h] = "infer" => ~r.closed /\ ~Has(r.seen_requests, id) /\ ~Has(r.responses, id)
      /\ pc[h] = "reset" => ~r.closed /\ ~Has(r.reset_requests, id)

CacheInv ==
  /\ reply = [h \in Handlers |-> reply[h]]
  /\ history = [s \in Sessions |-> history[s]]
  /\ \A h \in Handlers : Admitted(h)
  /\ \A s \in Sessions : Recorded(state[s], adapter[s], history[s])

(* The entry of a request in a cache, and the cache without it.            *)
LEMMA EntryIsThere ==
  ASSUME NEW S, NEW q \in Seq(S), NEW id, Has(q, id)
  PROVE  /\ Position(q, id) \in 1..Len(q) /\ q[Position(q, id)] = Entry(q, id)
         /\ Entry(q, id) \in S /\ Entry(q, id).id = id /\ Entry(q, id) \in Range(q)
<1>1. DOMAIN q = 1..Len(q)
  BY LenProperties
<1>2. \E n \in DOMAIN q : q[n].id = id
  BY DEF Has
<1>3. Position(q, id) \in DOMAIN q /\ q[Position(q, id)].id = id
  BY <1>2 DEF Position
<1>4. Entry(q, id) \in S
  BY <1>1, <1>3, ElementOfSeq DEF Entry
<1>5. Entry(q, id) \in Range(q)
  BY <1>3, Zenon DEF Entry, Range
<1> QED BY <1>1, <1>3, <1>4, <1>5 DEF Entry

LEMMA OthersShape ==
  ASSUME NEW S, NEW q \in Seq(S), NEW id, Has(q, id)
  PROVE  /\ Others(q, id) \in Seq(S) /\ Len(Others(q, id)) = Len(q) - 1
         /\ \A i \in 1..Len(q) - 1 :
              Others(q, id)[i] = IF i < Position(q, id) THEN q[i] ELSE q[i + 1]
<1> DEFINE p == Position(q, id)
           a == SubSeq(q, 1, p - 1)
           b == SubSeq(q, p + 1, Len(q))
<1>1. p \in 1..Len(q) /\ Len(q) \in Nat /\ \A i \in 1..Len(q) : q[i] \in S
  BY EntryIsThere, LenProperties, ElementOfSeq
<1>2. Others(q, id) = a \o b
  BY DEF Others, RemoveAt
<1> HIDE DEF p
<1>3. a \in Seq(S) /\ Len(a) = p - 1 /\ \A i \in 1..p - 1 : a[i] = q[i]
  <2>1. \A i \in 1..p - 1 : q[i] \in S
    BY <1>1
  <2>2. /\ a \in Seq(S) /\ Len(a) = IF 1 <= p - 1 THEN p - 1 - 1 + 1 ELSE 0
        /\ \A i \in 1..p - 1 - 1 + 1 : a[i] = q[1 + i - 1]
    BY <1>1, <2>1, SubSeqProperties
  <2> HIDE DEF a
  <2> QED BY <1>1, <2>2
<1>4. /\ b \in Seq(S) /\ Len(b) = Len(q) - p
      /\ \A i \in 1..Len(q) - p : b[i] = q[p + i]
  <2>1. \A i \in p + 1..Len(q) : q[i] \in S
    BY <1>1
  <2>2. /\ b \in Seq(S) /\ Len(b) = IF p + 1 <= Len(q) THEN Len(q) - (p + 1) + 1 ELSE 0
        /\ \A i \in 1..Len(q) - (p + 1) + 1 : b[i] = q[p + 1 + i - 1]
    BY <1>1, <2>1, SubSeqProperties
  <2> HIDE DEF b
  <2>3. Len(b) = Len(q) - p /\ Len(q) - (p + 1) + 1 = Len(q) - p
    BY <1>1, <2>2
  <2>4. ASSUME NEW i \in 1..Len(q) - p PROVE b[i] = q[p + i]
    <3>1. b[i] = q[p + 1 + i - 1]
      BY <2>2, <2>3
    <3>2. p + 1 + i - 1 = p + i
      BY <1>1
    <3> QED BY <3>1, <3>2
  <2> QED BY <2>2, <2>3, <2>4
<1> HIDE DEF a, b
<1>5. /\ a \o b \in Seq(S) /\ Len(a \o b) = Len(a) + Len(b)
      /\ \A i \in 1..Len(a) + Len(b) : (a \o b)[i] = IF i <= Len(a) THEN a[i] ELSE b[i - Len(a)]
  BY <1>3, <1>4, ConcatProperties
<1>6. Len(a) + Len(b) = Len(q) - 1
  BY <1>1, <1>3, <1>4
<1>7. ASSUME NEW i \in 1..Len(q) - 1
      PROVE (a \o b)[i] = IF i < p THEN q[i] ELSE q[i + 1]
  <2>1. CASE i < p
    BY <1>1, <1>3, <1>5, <1>6, <2>1
  <2>2. CASE i >= p
    <3>1. i - Len(a) \in 1..Len(q) - p /\ p + (i - Len(a)) = i + 1 /\ ~(i <= Len(a))
      BY <1>1, <1>3, <2>2
    <3>2. ~(i < p) /\ (a \o b)[i] = b[i - Len(a)]
      BY <1>1, <1>5, <1>6, <2>2, <3>1
    <3> QED BY <1>4, <3>1, <3>2
  <2>3. i < p \/ i >= p
    BY <1>1
  <2> QED BY <2>1, <2>2, <2>3
<1> QED BY <1>2, <1>5, <1>6, <1>7 DEF p

(* An answered request becomes the newest of its cache, which holds the    *)
(* same entries as before.                                                 *)
LEMMA MoveToEndShape ==
  ASSUME NEW S, NEW q \in Seq(S), NEW id, Has(q, id)
  PROVE  /\ MoveToEnd(q, id) \in Seq(S) /\ Len(MoveToEnd(q, id)) = Len(q)
         /\ \A i \in 1..Len(q) :
              MoveToEnd(q, id)[i] = q[IF i < Position(q, id) THEN i
                                      ELSE IF i < Len(q) THEN i + 1 ELSE Position(q, id)]
<1> DEFINE p == Position(q, id)
           o == Others(q, id)
           e == Entry(q, id)
<1>1. p \in 1..Len(q) /\ Len(q) \in Nat /\ e \in S /\ q[p] = e
  BY EntryIsThere, LenProperties
<1>2. /\ o \in Seq(S) /\ Len(o) = Len(q) - 1
      /\ \A i \in 1..Len(q) - 1 : o[i] = IF i < p THEN q[i] ELSE q[i + 1]
  BY OthersShape
<1> HIDE DEF p, o, e
<1>3. /\ Append(o, e) \in Seq(S) /\ Len(Append(o, e)) = Len(o) + 1
      /\ Append(o, e)[Len(o) + 1] = e
      /\ \A i \in 1..Len(o) : Append(o, e)[i] = o[i]
  BY <1>1, <1>2, AppendProperties
<1>4. ASSUME NEW i \in 1..Len(q)
      PROVE  Append(o, e)[i] = q[IF i < p THEN i ELSE IF i < Len(q) THEN i + 1 ELSE p]
  <2>1. CASE i = Len(q)
    BY <1>1, <1>2, <1>3, <2>1
  <2>2. CASE i < Len(q)
    BY <1>1, <1>2, <1>3, <2>2
  <2>3. i = Len(q) \/ i < Len(q)
    BY <1>1
  <2> QED BY <2>1, <2>2, <2>3
<1> QED BY <1>1, <1>2, <1>3, <1>4 DEF MoveToEnd, p, o, e

LEMMA MoveToEndKeeps ==
  ASSUME NEW S, NEW q \in Seq(S), NEW id, Has(q, id)
  PROVE  /\ Range(MoveToEnd(q, id)) = Range(q)
         /\ \A other : Has(MoveToEnd(q, id), other) <=> Has(q, other)
         /\ Distinct(q) => Distinct(MoveToEnd(q, id))
<1> DEFINE p == Position(q, id)
           l == MoveToEnd(q, id)
           from(i) == IF i < p THEN i ELSE IF i < Len(q) THEN i + 1 ELSE p
<1>1. p \in 1..Len(q) /\ Len(q) \in Nat /\ DOMAIN q = 1..Len(q)
  BY EntryIsThere, LenProperties
<1>2. l \in Seq(S) /\ Len(l) = Len(q) /\ \A i \in 1..Len(q) : l[i] = q[from(i)]
  BY MoveToEndShape
<1>3. DOMAIN l = 1..Len(q)
  BY <1>2, LenProperties
<1> HIDE DEF p, l
<1>4. /\ \A i \in 1..Len(q) : from(i) \in 1..Len(q)
      /\ \A i, j \in 1..Len(q) : from(i) = from(j) => i = j
      /\ \A i \in 1..Len(q) : \E j \in 1..Len(q) : from(j) = i
  <2>1. ASSUME NEW i \in 1..Len(q) PROVE from(i) \in 1..Len(q)
    BY <1>1
  <2>2. ASSUME NEW i \in 1..Len(q), NEW j \in 1..Len(q), from(i) = from(j) PROVE i = j
    BY <1>1, <2>2
  <2>3. ASSUME NEW i \in 1..Len(q) PROVE \E j \in 1..Len(q) : from(j) = i
    <3>1. CASE i < p
      <4>1. from(i) = i
        BY <3>1
      <4> QED BY <4>1
    <3>2. CASE i = p
      <4>1. Len(q) \in 1..Len(q) /\ ~(Len(q) < p) /\ ~(Len(q) < Len(q))
        BY <1>1
      <4>2. from(Len(q)) = i
        BY <3>2, <4>1
      <4> QED BY <4>1, <4>2
    <3>3. CASE i > p
      <4>1. from(i - 1) = i /\ i - 1 \in 1..Len(q)
        BY <1>1, <3>3
      <4> QED BY <4>1
    <3>4. i < p \/ i = p \/ i > p
      BY <1>1
    <3> QED BY <3>1, <3>2, <3>3, <3>4
  <2> QED BY <2>1, <2>2, <2>3
<1> HIDE DEF from
<1>5. \A i \in 1..Len(q) : \E j \in 1..Len(q) : q[i] = l[j]
  BY <1>2, <1>4
<1>6. Range(l) = Range(q)
  <2>1. \A i \in DOMAIN l : \E j \in DOMAIN q : l[i] = q[j]
    BY <1>1, <1>2, <1>3, <1>4
  <2>2. \A i \in DOMAIN q : \E j \in DOMAIN l : q[i] = l[j]
    BY <1>1, <1>3, <1>4, <1>5
  <2> QED BY <2>1, <2>2 DEF Range
<1>7. ASSUME NEW other PROVE Has(l, other) <=> Has(q, other)
  <2>1. ASSUME NEW i \in DOMAIN l, l[i].id = other PROVE Has(q, other)
    BY <1>1, <1>2, <1>3, <1>4, <2>1 DEF Has
  <2>2. ASSUME NEW i \in DOMAIN q, q[i].id = other PROVE Has(l, other)
    BY <1>1, <1>3, <1>4, <1>5, <2>2 DEF Has
  <2> QED BY <2>1, <2>2 DEF Has
<1>8. Distinct(q) => Distinct(l)
  <2> SUFFICES ASSUME Distinct(q), NEW i \in DOMAIN l, NEW j \in DOMAIN l, l[i].id = l[j].id
               PROVE  i = j
    BY DEF Distinct
  <2>1. from(i) \in DOMAIN q /\ from(j) \in DOMAIN q /\ q[from(i)].id = q[from(j)].id
    BY <1>1, <1>2, <1>3, <1>4
  <2> QED BY <1>3, <1>4, <2>1 DEF Distinct
<1> QED BY <1>6, <1>7, <1>8 DEF l

(* A new entry is the newest; if there was no room the oldest goes, and    *)
(* every other entry is one place older.                                   *)
LEMMA RememberShape ==
  ASSUME NEW S, NEW q \in Seq(S), NEW e \in S, ~Has(q, e.id), Len(q) <= idempotency_cache_size,
         NEW l, l = Remember(q, e)
  PROVE  /\ l \in Seq(S) /\ Len(l) \in Nat \ {0} /\ Len(l) <= idempotency_cache_size
         /\ l[Len(l)] = e
         /\ \/ Len(l) = Len(q) + 1 /\ \A i \in 1..Len(q) : l[i] = q[i]
            \/ /\ Len(q) = idempotency_cache_size /\ Len(l) = Len(q)
               /\ \A i \in 1..Len(q) - 1 : l[i] = q[i + 1]
<1> DEFINE a == Append(q, e)
           n == idempotency_cache_size
<1>1. n \in Nat \ {0} /\ Len(q) \in Nat
  BY ServiceAssumption, LenProperties
<1>2. l = LastOf(a, n)
  BY DEF Remember, Others
<1>3. /\ a \in Seq(S) /\ Len(a) = Len(q) + 1 /\ a[Len(q) + 1] = e
      /\ \A i \in 1..Len(q) : a[i] = q[i]
  BY AppendProperties
<1> HIDE DEF a, n
<1>4. /\ l \in Seq(S) /\ Len(l) = IF Len(a) <= n THEN Len(a) ELSE n
      /\ \A i \in 1..Len(l) : l[i] = a[Len(a) - Len(l) + i]
  <2>1. n \in Nat /\ a \in Seq(S)
    BY <1>1, <1>3
  <2> QED BY <1>2, <2>1, LastOfShape
<1>5. CASE Len(q) < n
  <2>1. Len(l) = Len(q) + 1 /\ \A i \in 1..Len(l) : l[i] = a[i]
    <3>1. Len(l) = Len(q) + 1 /\ Len(l) = Len(a)
      BY <1>1, <1>3, <1>4, <1>5
    <3>2. \A i \in 1..Len(l) : Len(a) - Len(l) + i = i
      BY <1>1, <1>3, <3>1
    <3> QED BY <1>4, <3>1, <3>2
  <2> QED BY <1>1, <1>3, <1>4, <1>5, <2>1 DEF n
<1>6. CASE Len(q) = n
  <2>1. Len(l) = n /\ \A i \in 1..n : l[i] = a[i + 1]
    <3>1. Len(l) = n /\ Len(a) = n + 1
      BY <1>1, <1>3, <1>4, <1>6
    <3>2. \A i \in 1..n : Len(a) - Len(l) + i = i + 1
      BY <1>1, <3>1
    <3> QED BY <1>4, <3>1, <3>2
  <2> QED BY <1>1, <1>3, <1>4, <1>6, <2>1 DEF n
<1>7. Len(q) < n \/ Len(q) = n
  BY <1>1 DEF n
<1> QED BY <1>5, <1>6, <1>7

(* The places of an operation that is appended, and of those before it.    *)
LEMMA PlacesOfLonger ==
  ASSUME NEW ops \in Seq(Responses), NEW e \in Responses, NEW ids
  PROVE  /\ PlacesOf(ops, ids) \subseteq 1..Len(ops) /\ Len(ops) \in Nat
         /\ DOMAIN ops = 1..Len(ops) /\ DOMAIN Append(ops, e) = 1..Len(ops) + 1
         /\ Append(ops, e) \in Seq(Responses) /\ Len(Append(ops, e)) = Len(ops) + 1
         /\ Append(ops, e)[Len(ops) + 1] = e /\ \A n \in 1..Len(ops) : Append(ops, e)[n] = ops[n]
         /\ PlacesOf(Append(ops, e), ids) =
              PlacesOf(ops, ids) \cup {n \in {Len(ops) + 1} : e.id \in ids}
<1> DEFINE l == Append(ops, e)
<1>1. DOMAIN ops = 1..Len(ops) /\ Len(ops) \in Nat
  BY LenProperties
<1>2. /\ l \in Seq(Responses) /\ Len(l) = Len(ops) + 1 /\ l[Len(ops) + 1] = e
      /\ \A n \in 1..Len(ops) : l[n] = ops[n]
  BY AppendProperties
<1>3. DOMAIN l = 1..Len(ops) + 1
  BY <1>2, LenProperties
<1> HIDE DEF l
<1>4. PlacesOf(l, ids) = PlacesOf(ops, ids) \cup {n \in {Len(ops) + 1} : e.id \in ids}
  BY <1>1, <1>2, <1>3 DEF PlacesOf
<1> QED BY <1>1, <1>2, <1>3, <1>4 DEF PlacesOf, l

(* Places between two of them can be counted.                              *)
LEMMA PlacesAreCounted ==
  ASSUME NEW ops, NEW ids, NEW m \in Int, NEW n \in Int
  PROVE  /\ IsFiniteSet(PlacesOf(ops, ids) \cap m..n)
         /\ Cardinality(PlacesOf(ops, ids) \cap m..n) \in Nat
<1>1. IsFiniteSet(m..n) /\ PlacesOf(ops, ids) \cap m..n \in SUBSET (m..n)
  BY FS_Interval
<1>2. IsFiniteSet(PlacesOf(ops, ids) \cap m..n)
  BY <1>1, FS_Subset
<1> QED BY <1>2, FS_CardinalityType

(* A step counts for every operation before it; a reset for none.          *)
LEMMA LaterGrows ==
  ASSUME NEW ops \in Seq(Responses), NEW e \in Responses, NEW m \in 1..Len(ops)
  PROVE  /\ Later(ops, m) \in Nat
         /\ e.id \in StepIds => Later(Append(ops, e), m) = Later(ops, m) + 1
         /\ e.id \notin StepIds => Later(Append(ops, e), m) = Later(ops, m)
<1> DEFINE l == Append(ops, e)
           places == PlacesOf(ops, StepIds)
<1>1. /\ places \subseteq 1..Len(ops) /\ Len(ops) \in Nat /\ Len(l) = Len(ops) + 1
      /\ PlacesOf(l, StepIds) = places \cup {n \in {Len(ops) + 1} : e.id \in StepIds}
  BY PlacesOfLonger
<1>2. /\ IsFiniteSet(places \cap (m + 1)..Len(ops))
      /\ Cardinality(places \cap (m + 1)..Len(ops)) \in Nat
  <2>1. m + 1 \in Int /\ Len(ops) \in Int
    BY <1>1
  <2> QED BY <2>1, PlacesAreCounted
<1> HIDE DEF l, places
<1>3. CASE e.id \in StepIds
  <2>1. /\ PlacesOf(l, StepIds) \cap (m + 1)..Len(l)
             = (places \cap (m + 1)..Len(ops)) \cup {Len(ops) + 1}
        /\ Len(ops) + 1 \notin places \cap (m + 1)..Len(ops)
    BY <1>1, <1>3
  <2> QED BY <1>2, <1>3, <2>1, FS_AddElement DEF Later, l, places
<1>4. CASE e.id \notin StepIds
  <2>1. PlacesOf(l, StepIds) \cap (m + 1)..Len(l) = places \cap (m + 1)..Len(ops)
    BY <1>1, <1>4
  <2> QED BY <1>2, <1>4, <2>1 DEF Later, l, places
<1> QED BY <1>3, <1>4

(* A committed step is seen, and the ones seen before are one step later.  *)
LEMMA StepIsSeen ==
  ASSUME NEW ops \in Seq(Responses), NEW seen \in Seq(Requests), NEW e \in Responses,
         NEW k \in Requests, k.id = e.id, e.id \in StepIds, ~Has(seen, e.id),
         Len(seen) <= idempotency_cache_size, SeenOrLate(ops, seen)
  PROVE  SeenOrLate(Append(ops, e), Remember(seen, k))
<1> DEFINE l == Append(ops, e)
           q == Remember(seen, k)
<1>1. /\ PlacesOf(ops, StepIds) \subseteq 1..Len(ops) /\ Len(ops) \in Nat
      /\ l[Len(ops) + 1] = e /\ \A n \in 1..Len(ops) : l[n] = ops[n]
      /\ PlacesOf(l, StepIds) = PlacesOf(ops, StepIds) \cup {n \in {Len(ops) + 1} : e.id \in StepIds}
      /\ l \in Seq(Responses) /\ Len(l) = Len(ops) + 1
  BY PlacesOfLonger
<1>2. Len(q) \in Nat \ {0} /\ Len(q) <= idempotency_cache_size /\ q[Len(q)] = k
  BY RememberShape
<1>2b. \/ Len(q) = Len(seen) + 1 /\ \A i \in 1..Len(seen) : q[i] = seen[i]
      \/ /\ Len(seen) = idempotency_cache_size /\ Len(q) = Len(seen)
         /\ \A i \in 1..Len(seen) - 1 : q[i] = seen[i + 1]
  BY RememberShape
<1>3. /\ DOMAIN q = 1..Len(q) /\ DOMAIN seen = 1..Len(seen) /\ Len(seen) \in Nat
      /\ idempotency_cache_size \in Nat
  <2>1. q \in Seq(Requests)
    BY RememberShape
  <2> QED BY <2>1, LenProperties, ServiceAssumption
<1>4. \A m \in 1..Len(ops) : Later(ops, m) \in Nat /\ Later(l, m) = Later(ops, m) + 1
  BY LaterGrows
<1>5. Later(l, Len(ops) + 1) \in Nat
  <2>1. Len(ops) + 1 + 1 \in Int /\ Len(l) \in Int
    BY <1>1
  <2> QED BY <2>1, PlacesAreCounted DEF Later
<1> HIDE DEF l, q
<1>6. ASSUME NEW m \in PlacesOf(l, StepIds)
      PROVE  \/ \E p \in DOMAIN q : q[p].id = l[m].id /\ Len(q) - p <= Later(l, m)
             \/ Later(l, m) >= idempotency_cache_size
  <2>1. CASE m = Len(ops) + 1
    <3>1. Len(q) \in DOMAIN q
      BY <1>2, <1>3
    <3>2. q[Len(q)].id = l[m].id
      BY <1>1, <1>2, <2>1
    <3>3. Len(q) - Len(q) <= Later(l, m)
      BY <1>2, <1>5, <2>1
    <3> QED BY <3>1, <3>2, <3>3
  <2>2. CASE m \in PlacesOf(ops, StepIds)
    <3>1. m \in 1..Len(ops) /\ l[m] = ops[m] /\ Later(l, m) = Later(ops, m) + 1 /\ Later(ops, m) \in Nat
      BY <1>1, <1>4, <2>2
    <3>2. CASE Later(ops, m) >= idempotency_cache_size
      BY <1>3, <3>1, <3>2
    <3>3. CASE \E p \in DOMAIN seen : seen[p].id = ops[m].id /\ Len(seen) - p <= Later(ops, m)
      <4>1. PICK p \in 1..Len(seen) : seen[p].id = ops[m].id /\ Len(seen) - p <= Later(ops, m)
        BY <1>3, <3>3
      <4>2. CASE Len(q) = Len(seen) + 1 /\ \A i \in 1..Len(seen) : q[i] = seen[i]
        <5>1. p \in DOMAIN q /\ q[p] = seen[p] /\ Len(q) - p <= Later(l, m)
          BY <1>3, <3>1, <4>1, <4>2
        <5> QED BY <3>1, <4>1, <5>1
      <4>3. CASE /\ Len(seen) = idempotency_cache_size /\ Len(q) = Len(seen)
                 /\ \A i \in 1..Len(seen) - 1 : q[i] = seen[i + 1]
        <5>1. CASE p = 1
          BY <1>3, <3>1, <4>1, <4>3, <5>1
        <5>2. CASE p # 1
          <6>1. p - 1 \in DOMAIN q /\ q[p - 1] = seen[p] /\ Len(q) - (p - 1) <= Later(l, m)
            BY <1>3, <3>1, <4>1, <4>3, <5>2
          <6> QED BY <3>1, <4>1, <6>1
        <5> QED BY <5>1, <5>2
      <4> QED BY <1>2b, <4>2, <4>3
    <3> QED BY <2>2, <3>2, <3>3 DEF SeenOrLate
  <2> QED BY <1>1, <2>1, <2>2
<1> QED BY <1>6 DEF SeenOrLate, l, q

(* A reset changes nothing for the steps before it, nor a step for resets. *)
LEMMA ResetIsNoStep ==
  ASSUME NEW ops \in Seq(Responses), NEW seen, NEW e \in Responses, e.id \notin StepIds,
         SeenOrLate(ops, seen)
  PROVE  SeenOrLate(Append(ops, e), seen)
<1>1. /\ PlacesOf(Append(ops, e), StepIds) = PlacesOf(ops, StepIds)
      /\ PlacesOf(ops, StepIds) \subseteq 1..Len(ops)
      /\ \A n \in 1..Len(ops) : Append(ops, e)[n] = ops[n]
  <2>1. PlacesOf(Append(ops, e), StepIds)
           = PlacesOf(ops, StepIds) \cup {n \in {Len(ops) + 1} : e.id \in StepIds}
    BY PlacesOfLonger
  <2>2. PlacesOf(Append(ops, e), StepIds) = PlacesOf(ops, StepIds)
    BY <2>1
  <2> QED BY <2>2, PlacesOfLonger
<1>2. \A m \in 1..Len(ops) : Later(Append(ops, e), m) = Later(ops, m)
  BY LaterGrows
<1> QED BY <1>1, <1>2 DEF SeenOrLate

LEMMA StepIsNoReset ==
  ASSUME NEW ops \in Seq(Responses), NEW resets, NEW e \in Responses, e.id \notin ResetIds,
         CachedOrFull(ops, resets)
  PROVE  CachedOrFull(Append(ops, e), resets)
<1>1. /\ PlacesOf(Append(ops, e), ResetIds) = PlacesOf(ops, ResetIds)
      /\ PlacesOf(ops, ResetIds) \subseteq 1..Len(ops)
      /\ \A n \in 1..Len(ops) : Append(ops, e)[n] = ops[n]
  <2>1. PlacesOf(Append(ops, e), ResetIds)
           = PlacesOf(ops, ResetIds) \cup {n \in {Len(ops) + 1} : e.id \in ResetIds}
    BY PlacesOfLonger
  <2>2. PlacesOf(Append(ops, e), ResetIds) = PlacesOf(ops, ResetIds)
    BY <2>1
  <2> QED BY <2>2, PlacesOfLonger
<1> QED BY <1>1 DEF CachedOrFull

(* A committed reset is cached, in the place of the oldest if need be.     *)
LEMMA ResetIsCached ==
  ASSUME NEW ops \in Seq(Responses), NEW resets \in Seq(ResetResponses), NEW e \in ResetResponses,
         e \in Responses, ~Has(resets, e.id), Len(resets) <= idempotency_cache_size,
         CachedOrFull(ops, resets), Distinct(resets)
  PROVE  CachedOrFull(Append(ops, e), Remember(resets, e)) /\ Distinct(Remember(resets, e))
<1> DEFINE l == Append(ops, e)
           q == Remember(resets, e)
<1>1. /\ PlacesOf(ops, ResetIds) \subseteq 1..Len(ops)
      /\ l[Len(ops) + 1] = e /\ \A n \in 1..Len(ops) : l[n] = ops[n]
      /\ PlacesOf(l, ResetIds) = PlacesOf(ops, ResetIds) \cup {n \in {Len(ops) + 1} : e.id \in ResetIds}
  BY PlacesOfLonger
<1>2. Len(q) \in Nat \ {0} /\ Len(q) <= idempotency_cache_size /\ q[Len(q)] = e
  BY RememberShape
<1>2b. \/ Len(q) = Len(resets) + 1 /\ \A i \in 1..Len(resets) : q[i] = resets[i]
      \/ /\ Len(resets) = idempotency_cache_size /\ Len(q) = Len(resets)
         /\ \A i \in 1..Len(resets) - 1 : q[i] = resets[i + 1]
  BY RememberShape
<1>3. /\ DOMAIN q = 1..Len(q) /\ DOMAIN resets = 1..Len(resets) /\ Len(resets) \in Nat
      /\ idempotency_cache_size \in Nat
  <2>1. q \in Seq(ResetResponses)
    BY RememberShape
  <2> QED BY <2>1, LenProperties, ServiceAssumption
<1> HIDE DEF l, q
<1>4. ASSUME NEW m \in PlacesOf(l, ResetIds)
      PROVE  Has(q, l[m].id) \/ Len(q) = idempotency_cache_size
  <2>1. CASE m = Len(ops) + 1
    <3>1. Len(q) \in DOMAIN q
      BY <1>2, <1>3
    <3>2. q[Len(q)].id = l[m].id
      BY <1>1, <1>2, <2>1
    <3> QED BY <3>1, <3>2 DEF Has
  <2>2. CASE m \in PlacesOf(ops, ResetIds) /\ Len(q) # idempotency_cache_size
    <3>1. l[m] = ops[m] /\ Len(q) = Len(resets) + 1 /\ \A i \in 1..Len(resets) : q[i] = resets[i]
      BY <1>1, <1>2b, <2>2
    <3>2. Has(resets, ops[m].id)
      <4>1. Len(resets) # idempotency_cache_size
        BY <1>2, <2>2, <3>1
      <4> QED BY <2>2, <4>1 DEF CachedOrFull
    <3> QED BY <1>3, <3>1, <3>2 DEF Has
  <2> QED BY <1>1, <2>1, <2>2
<1>5. ASSUME NEW i \in DOMAIN q, NEW j \in DOMAIN q, q[i].id = q[j].id, i < j PROVE FALSE
  <2>1. \E d \in {0, 1} : \A n \in 1..Len(q) - 1 : n + d \in DOMAIN resets /\ q[n] = resets[n + d]
    <3>1. CASE Len(q) = Len(resets) + 1 /\ \A n \in 1..Len(resets) : q[n] = resets[n]
      <4>1. \A n \in 1..Len(q) - 1 : n + 0 \in DOMAIN resets /\ q[n] = resets[n + 0]
        BY <1>2, <1>3, <3>1
      <4> QED BY <4>1
    <3>2. CASE Len(q) = Len(resets) /\ \A n \in 1..Len(resets) - 1 : q[n] = resets[n + 1]
      <4>1. \A n \in 1..Len(q) - 1 : n + 1 \in DOMAIN resets /\ q[n] = resets[n + 1]
        BY <1>2, <1>3, <3>2
      <4> QED BY <4>1
    <3> QED BY <1>2b, <3>1, <3>2
  <2>2. PICK d \in {0, 1} : \A n \in 1..Len(q) - 1 : n + d \in DOMAIN resets /\ q[n] = resets[n + d]
    BY <2>1
  <2>3. i \in 1..Len(q) - 1 /\ j \in 1..Len(q)
    BY <1>2, <1>3, <1>5
  <2>4. CASE j = Len(q)
    BY <1>2, <1>5, <2>2, <2>3, <2>4 DEF Has
  <2>5. CASE j # Len(q)
    <3>1. j \in 1..Len(q) - 1 /\ i + d # j + d
      BY <1>2, <1>5, <2>3, <2>5
    <3> QED BY <1>5, <2>2, <2>3, <3>1 DEF Distinct
  <2> QED BY <2>4, <2>5
<1>6. Distinct(q)
  <2>1. Len(q) \in Nat
    BY <1>2
  <2>2. \A i, j \in DOMAIN q : i < j \/ j < i \/ i = j
    BY <1>3, <2>1
  <2> QED BY <1>5, <2>2 DEF Distinct
<1> QED BY <1>4, <1>6 DEF CachedOrFull, l, q

(* What comes after a pair of operations does not bear on them.            *)
LEMMA LongerKeepsPairs ==
  ASSUME NEW ops \in Seq(Responses), NEW e \in Responses, RepeatsLate(ops),
         NEW m \in 1..Len(ops), NEW n \in 1..Len(ops),
         NEW l, l = Append(ops, e), m < n, l[m].id = l[n].id
  PROVE  /\ l[n].id \in StepIds =>
              Cardinality(PlacesOf(l, StepIds) \cap (m + 1)..(n - 1)) >= idempotency_cache_size
         /\ l[n].id \in ResetIds =>
              Cardinality(IdsOf(l, PlacesOf(l, ResetIds) \cap 1..(n - 1)) \ {l[n].id})
                >= idempotency_cache_size
<1>1. /\ DOMAIN ops = 1..Len(ops) /\ Len(ops) \in Nat /\ \A i \in 1..Len(ops) : l[i] = ops[i]
  BY PlacesOfLonger
<1>2. ASSUME NEW ids
      PROVE  PlacesOf(l, ids) = PlacesOf(ops, ids) \cup {i \in {Len(ops) + 1} : e.id \in ids}
  BY PlacesOfLonger
<1>3. \A a \in Nat : PlacesOf(l, StepIds) \cap (a + 1)..(n - 1)
                       = PlacesOf(ops, StepIds) \cap (a + 1)..(n - 1)
  BY <1>1, <1>2
<1>4. PlacesOf(l, ResetIds) \cap 1..(n - 1) = PlacesOf(ops, ResetIds) \cap 1..(n - 1)
  BY <1>1, <1>2
<1>5. IdsOf(l, PlacesOf(l, ResetIds) \cap 1..(n - 1))
        = IdsOf(ops, PlacesOf(ops, ResetIds) \cap 1..(n - 1))
  <2>1. \A i \in PlacesOf(ops, ResetIds) \cap 1..(n - 1) : l[i] = ops[i]
    BY <1>1
  <2> QED BY <1>4, <2>1 DEF IdsOf
<1>6. m \in DOMAIN ops /\ n \in DOMAIN ops /\ ops[m].id = ops[n].id /\ l[n] = ops[n] /\ m \in Nat
  BY <1>1
<1> QED BY <1>3, <1>5, <1>6 DEF RepeatsLate

(* A step that is not seen was followed by enough steps, if it was ever    *)
(* executed.                                                               *)
LEMMA UnseenIsLate ==
  ASSUME NEW ops \in Seq(Responses), NEW e \in Responses, NEW seen \in Seq(Requests),
         e.id \in StepIds, ~Has(seen, e.id), SeenOrLate(ops, seen), RepeatsLate(ops)
  PROVE  RepeatsLate(Append(ops, e))
<1> DEFINE l == Append(ops, e)
<1>1. /\ DOMAIN ops = 1..Len(ops) /\ Len(ops) \in Nat /\ DOMAIN l = 1..Len(ops) + 1
      /\ l[Len(ops) + 1] = e /\ \A i \in 1..Len(ops) : l[i] = ops[i]
      /\ PlacesOf(l, StepIds) = PlacesOf(ops, StepIds) \cup {i \in {Len(ops) + 1} : e.id \in StepIds}
  BY PlacesOfLonger
<1> SUFFICES ASSUME NEW m \in DOMAIN l, NEW n \in DOMAIN l, m < n, l[m].id = l[n].id
             PROVE  /\ l[n].id \in StepIds =>
                         Cardinality(PlacesOf(l, StepIds) \cap (m + 1)..(n - 1))
                           >= idempotency_cache_size
                    /\ l[n].id \in ResetIds =>
                         Cardinality(IdsOf(l, PlacesOf(l, ResetIds) \cap 1..(n - 1)) \ {l[n].id})
                           >= idempotency_cache_size
  BY DEF RepeatsLate
<1>2. CASE n \in 1..Len(ops)
  <2>1. m \in 1..Len(ops)
    BY <1>1, <1>2
  <2> QED BY <1>2, <2>1, LongerKeepsPairs
<1>3. CASE n = Len(ops) + 1
  <2> HIDE DEF l
  <2>1. /\ m \in 1..Len(ops) /\ ops[m].id = e.id /\ l[n].id = e.id /\ n - 1 = Len(ops)
        /\ e.id \notin ResetIds
    BY <1>1, <1>3, ServiceAssumption
  <2>2. PlacesOf(l, StepIds) \cap (m + 1)..(n - 1) = PlacesOf(ops, StepIds) \cap (m + 1)..Len(ops)
    BY <1>1, <2>1
  <2>3. m \in PlacesOf(ops, StepIds)
    BY <1>1, <2>1 DEF PlacesOf
  <2>4. Later(ops, m) >= idempotency_cache_size
    BY <2>1, <2>3 DEF SeenOrLate, Has
  <2> QED BY <2>1, <2>2, <2>4 DEF Later
<1>4. n \in 1..Len(ops) \/ n = Len(ops) + 1
  BY <1>1
<1> QED BY <1>2, <1>3, <1>4

(* The ids of a full cache of resets are as many others.                   *)
LEMMA FullCacheCounts ==
  ASSUME NEW ops \in Seq(Responses), NEW q \in Seq(ResetResponses), NEW id,
         Distinct(q), ~Has(q, id), Range(q) \subseteq Range(ops), Len(q) = idempotency_cache_size
  PROVE  Cardinality(IdsOf(ops, PlacesOf(ops, ResetIds) \cap 1..Len(ops)) \ {id})
           >= idempotency_cache_size
<1> DEFINE places == PlacesOf(ops, ResetIds) \cap 1..Len(ops)
           ids == IdsOf(ops, places) \ {id}
           f == [i \in 1..Len(q) |-> q[i].id]
<1>1. /\ Len(q) \in Nat /\ DOMAIN q = 1..Len(q) /\ DOMAIN ops = 1..Len(ops) /\ Len(ops) \in Nat
      /\ \A i \in 1..Len(q) : q[i] \in ResetResponses
  BY LenProperties, ElementOfSeq
<1>2. ASSUME NEW i \in 1..Len(q) PROVE q[i].id \in ids
  <2>1. PICK n \in DOMAIN ops : ops[n] = q[i]
    BY <1>1, Zenon DEF Range
  <2>2. q[i].id \in ResetIds /\ q[i].id # id
    BY <1>1 DEF ResetResponses, Has
  <2>3. n \in places
    BY <1>1, <2>1, <2>2 DEF PlacesOf
  <2> HIDE DEF places
  <2> QED BY <2>1, <2>2, <2>3 DEF IdsOf
<1>3. IsFiniteSet(ids)
  <2>1. IsFiniteSet(places)
    <3>1. 1 \in Int /\ Len(ops) \in Int
      BY <1>1
    <3> QED BY <3>1, PlacesAreCounted
  <2> DEFINE g == [n \in places |-> ops[n].id]
  <2> HIDE DEF places
  <2>2. g \in Surjection(places, IdsOf(ops, places))
    BY DEF Surjection, IdsOf
  <2>3. IsFiniteSet(IdsOf(ops, places))
    BY <2>1, <2>2, FS_Surjection
  <2> QED BY <2>3, FS_Subset
<1> HIDE DEF ids
<1>4. f \in Injection(1..Len(q), ids)
  <2>1. f \in [1..Len(q) -> ids]
    BY <1>2
  <2>2. \A i, j \in 1..Len(q) : f[i] = f[j] => i = j
    BY <1>1 DEF Distinct
  <2> HIDE DEF f
  <2> QED BY <2>1, <2>2, Zenon DEF Injection, IsInjective
<1> HIDE DEF f
<1>5. Cardinality(1..Len(q)) <= Cardinality(ids)
  BY <1>3, <1>4, FS_Injection
<1>6. Cardinality(1..Len(q)) = Len(q)
  <2>1. Cardinality(1..Len(q)) = IF 1 > Len(q) THEN 0 ELSE Len(q) - 1 + 1
    <3>1. 1 \in Int /\ Len(q) \in Int
      BY <1>1
    <3> QED BY <3>1, FS_Interval
  <2> QED BY <1>1, <2>1
<1>7. Cardinality(ids) \in Nat
  BY <1>3, FS_CardinalityType
<1> QED BY <1>1, <1>5, <1>6, <1>7 DEF ids

(* A reset that is not cached was pushed out by as many others, if it was  *)
(* ever executed.                                                          *)
LEMMA UncachedIsLate ==
  ASSUME NEW ops \in Seq(Responses), NEW e \in Responses, NEW resets \in Seq(ResetResponses),
         e.id \in ResetIds, ~Has(resets, e.id), Distinct(resets), Range(resets) \subseteq Range(ops),
         CachedOrFull(ops, resets), RepeatsLate(ops)
  PROVE  RepeatsLate(Append(ops, e))
<1> DEFINE l == Append(ops, e)
<1>1. /\ DOMAIN ops = 1..Len(ops) /\ Len(ops) \in Nat /\ DOMAIN l = 1..Len(ops) + 1
      /\ l[Len(ops) + 1] = e /\ \A i \in 1..Len(ops) : l[i] = ops[i]
      /\ PlacesOf(l, ResetIds) = PlacesOf(ops, ResetIds) \cup {i \in {Len(ops) + 1} : e.id \in ResetIds}
  BY PlacesOfLonger
<1> SUFFICES ASSUME NEW m \in DOMAIN l, NEW n \in DOMAIN l, m < n, l[m].id = l[n].id
             PROVE  /\ l[n].id \in StepIds =>
                         Cardinality(PlacesOf(l, StepIds) \cap (m + 1)..(n - 1))
                           >= idempotency_cache_size
                    /\ l[n].id \in ResetIds =>
                         Cardinality(IdsOf(l, PlacesOf(l, ResetIds) \cap 1..(n - 1)) \ {l[n].id})
                           >= idempotency_cache_size
  BY DEF RepeatsLate
<1>2. CASE n \in 1..Len(ops)
  <2>1. m \in 1..Len(ops)
    BY <1>1, <1>2
  <2> QED BY <1>2, <2>1, LongerKeepsPairs
<1>3. CASE n = Len(ops) + 1
  <2> HIDE DEF l
  <2>1. /\ m \in 1..Len(ops) /\ ops[m].id = e.id /\ l[n].id = e.id /\ n - 1 = Len(ops)
        /\ e.id \notin StepIds
    BY <1>1, <1>3, ServiceAssumption
  <2>2. PlacesOf(l, ResetIds) \cap 1..(n - 1) = PlacesOf(ops, ResetIds) \cap 1..Len(ops)
    BY <1>1, <2>1
  <2>3. IdsOf(l, PlacesOf(l, ResetIds) \cap 1..(n - 1))
          = IdsOf(ops, PlacesOf(ops, ResetIds) \cap 1..Len(ops))
    <3>1. \A i \in PlacesOf(ops, ResetIds) \cap 1..Len(ops) : l[i] = ops[i]
      BY <1>1
    <3> QED BY <2>2, <3>1 DEF IdsOf
  <2>4. m \in PlacesOf(ops, ResetIds)
    BY <1>1, <2>1 DEF PlacesOf
  <2>5. Len(resets) = idempotency_cache_size
    BY <2>1, <2>4 DEF CachedOrFull
  <2>6. Cardinality(IdsOf(ops, PlacesOf(ops, ResetIds) \cap 1..Len(ops)) \ {e.id})
          >= idempotency_cache_size
    BY <2>5, FullCacheCounts
  <2> QED BY <2>1, <2>3, <2>6
<1>4. n \in 1..Len(ops) \/ n = Len(ops) + 1
  BY <1>1
<1> QED BY <1>2, <1>3, <1>4

(* What is appended or remembered is an entry, and nothing else is new.    *)
LEMMA RangeOfLonger ==
  ASSUME NEW S, NEW q \in Seq(S), NEW e \in S
  PROVE  Range(Append(q, e)) = Range(q) \cup {e}
<1> DEFINE l == Append(q, e)
<1>1. /\ Len(q) \in Nat /\ DOMAIN q = 1..Len(q) /\ l \in Seq(S) /\ Len(l) = Len(q) + 1
      /\ l[Len(q) + 1] = e /\ \A i \in 1..Len(q) : l[i] = q[i]
  BY AppendProperties, LenProperties
<1> HIDE DEF l
<1>2. DOMAIN l = 1..Len(q) + 1
  BY <1>1, LenProperties
<1>3. \A i \in DOMAIN l : l[i] = e \/ \E j \in DOMAIN q : l[i] = q[j]
  <2>1. \A i \in DOMAIN l : i = Len(q) + 1 \/ i \in DOMAIN q
    BY <1>1, <1>2
  <2> QED BY <1>1, <2>1
<1>4. Len(q) + 1 \in DOMAIN l /\ \A i \in DOMAIN q : i \in DOMAIN l /\ q[i] = l[i]
  BY <1>1, <1>2
<1>5. Range(l) \subseteq Range(q) \cup {e}
  BY <1>3 DEF Range
<1>6. Range(q) \subseteq Range(l) /\ e \in Range(l)
  BY <1>1, <1>4 DEF Range
<1> QED BY <1>5, <1>6 DEF l

LEMMA RememberedRange ==
  ASSUME NEW S, NEW q \in Seq(S), NEW e \in S, ~Has(q, e.id), Len(q) <= idempotency_cache_size
  PROVE  Range(Remember(q, e)) \subseteq Range(q) \cup {e}
<1> DEFINE l == Remember(q, e)
<1>1. l \in Seq(S) /\ Len(l) \in Nat \ {0} /\ l[Len(l)] = e
  BY RememberShape
<1>2. \/ Len(l) = Len(q) + 1 /\ \A i \in 1..Len(q) : l[i] = q[i]
      \/ Len(l) = Len(q) /\ \A i \in 1..Len(q) - 1 : l[i] = q[i + 1]
  BY RememberShape
<1> HIDE DEF l
<1>3. DOMAIN l = 1..Len(l) /\ DOMAIN q = 1..Len(q) /\ Len(q) \in Nat
  BY <1>1, LenProperties
<1>4. ASSUME NEW i \in DOMAIN l PROVE l[i] = e \/ \E j \in DOMAIN q : l[i] = q[j]
  <2>1. i = Len(l) \/ i \in 1..Len(l) - 1
    BY <1>1, <1>3
  <2>2. CASE Len(l) = Len(q) + 1 /\ \A j \in 1..Len(q) : l[j] = q[j]
    BY <1>1, <1>3, <2>1, <2>2
  <2>3. CASE Len(l) = Len(q) /\ \A j \in 1..Len(q) - 1 : l[j] = q[j + 1]
    <3>1. i \in 1..Len(l) - 1 => i + 1 \in DOMAIN q /\ l[i] = q[i + 1]
      BY <1>3, <2>3
    <3> QED BY <1>1, <2>1, <3>1
  <2> QED BY <1>2, <2>2, <2>3
<1> QED BY <1>4 DEF Range, l

(* A replay reorders a cache, which is as good as before.                  *)
LEMMA ReplayRecorded ==
  ASSUME NEW r, NEW a, NEW ops, Recorded(r, a, ops), NEW id, NEW q,
         q.closed = r.closed, q.seen_requests = r.seen_requests,
         \/ /\ Has(r.responses, id) /\ q.responses = MoveToEnd(r.responses, id)
            /\ q.reset_requests = r.reset_requests
         \/ /\ Has(r.reset_requests, id) /\ q.reset_requests = MoveToEnd(r.reset_requests, id)
            /\ q.responses = r.responses
  PROVE  Recorded(q, a, ops)
<1>1. CASE /\ Has(r.responses, id) /\ q.responses = MoveToEnd(r.responses, id)
           /\ q.reset_requests = r.reset_requests
  <2>1. r.responses \in Seq(StepResponses) /\ \A n \in DOMAIN r.responses : r.responses[n].id \in Range(a)
    BY DEF Recorded
  <2>2. /\ q.responses \in Seq(StepResponses) /\ Range(q.responses) = Range(r.responses)
        /\ Len(q.responses) = Len(r.responses)
    BY <1>1, <2>1, MoveToEndShape, MoveToEndKeeps
  <2>3. ASSUME NEW n \in DOMAIN q.responses PROVE q.responses[n].id \in Range(a)
    <3>1. q.responses[n] \in Range(r.responses)
      BY <2>2, Zenon DEF Range
    <3>2. PICK m \in DOMAIN r.responses : r.responses[m] = q.responses[n]
      BY <3>1 DEF Range
    <3> QED BY <2>1, <3>2
  <2> QED BY <1>1, <2>2, <2>3 DEF Recorded
<1>2. CASE /\ Has(r.reset_requests, id) /\ q.reset_requests = MoveToEnd(r.reset_requests, id)
           /\ q.responses = r.responses
  <2>1. r.reset_requests \in Seq(ResetResponses) /\ Distinct(r.reset_requests)
    BY DEF Recorded
  <2>2. /\ q.reset_requests \in Seq(ResetResponses) /\ Range(q.reset_requests) = Range(r.reset_requests)
        /\ Len(q.reset_requests) = Len(r.reset_requests) /\ Distinct(q.reset_requests)
        /\ \A other : Has(q.reset_requests, other) <=> Has(r.reset_requests, other)
    BY <1>2, <2>1, MoveToEndShape, MoveToEndKeeps
  <2>3. CachedOrFull(ops, r.reset_requests) => CachedOrFull(ops, q.reset_requests)
    BY <2>2 DEF CachedOrFull
  <2> QED BY <1>2, <2>2, <2>3 DEF Recorded
<1> QED BY <1>1, <1>2

(* A committed step.                                                       *)
LEMMA StepRecorded ==
  ASSUME NEW r, NEW a \in Seq(StepIds), NEW ops, Recorded(r, a, ops), ~r.closed,
         NEW e \in StepResponses, NEW k \in Requests, k.id = e.id,
         ~Has(r.responses, e.id), ~Has(r.seen_requests, e.id), NEW q,
         q.closed = r.closed, q.responses = Remember(r.responses, e),
         q.seen_requests = Remember(r.seen_requests, k), q.reset_requests = r.reset_requests
  PROVE  Recorded(q, Append(a, e.id), Append(ops, e))
<1>1. /\ e \in Responses /\ e.id \in StepIds /\ e.id \notin ResetIds
  BY ServiceAssumption DEF StepResponses, Responses
<1>2. /\ ops \in Seq(Responses) /\ r.responses \in Seq(StepResponses)
      /\ r.seen_requests \in Seq(Requests) /\ Len(r.seen_requests) <= idempotency_cache_size
      /\ Len(r.responses) <= idempotency_cache_size
  BY DEF Recorded
<1>3. /\ q.responses \in Seq(StepResponses) /\ Len(q.responses) <= idempotency_cache_size
      /\ Range(q.responses) \subseteq Range(r.responses) \cup {e}
  BY <1>2, RememberShape, RememberedRange
<1>4. q.seen_requests \in Seq(Requests) /\ Len(q.seen_requests) <= idempotency_cache_size
  BY <1>2, RememberShape
<1>5. /\ Append(ops, e) \in Seq(Responses) /\ Range(Append(ops, e)) = Range(ops) \cup {e}
      /\ Range(Append(a, e.id)) = Range(a) \cup {e.id}
  BY <1>1, <1>2, RangeOfLonger, AppendProperties
<1>6. ASSUME NEW n \in DOMAIN q.responses PROVE q.responses[n].id \in Range(Append(a, e.id))
  <2>1. q.responses[n] \in Range(q.responses)
    BY Zenon DEF Range
  <2>2. CASE q.responses[n] = e
    BY <1>5, <2>2
  <2>3. CASE q.responses[n] \in Range(r.responses)
    <3>1. PICK m \in DOMAIN r.responses : r.responses[m] = q.responses[n]
      BY <2>3 DEF Range
    <3> QED BY <1>5, <3>1 DEF Recorded
  <2> QED BY <1>3, <2>1, <2>2, <2>3
<1>7. SeenOrLate(Append(ops, e), q.seen_requests)
  <2>1. SeenOrLate(ops, r.seen_requests)
    BY DEF Recorded
  <2> QED BY <1>1, <1>2, <2>1, StepIsSeen
<1>8. CachedOrFull(Append(ops, e), q.reset_requests)
  <2>1. CachedOrFull(ops, r.reset_requests)
    BY DEF Recorded
  <2> QED BY <1>1, <1>2, <2>1, StepIsNoReset
<1>9. RepeatsLate(Append(ops, e))
  <2>1. SeenOrLate(ops, r.seen_requests) /\ RepeatsLate(ops)
    BY DEF Recorded
  <2> QED BY <1>1, <1>2, <2>1, UnseenIsLate
<1>10. /\ q.reset_requests \in Seq(ResetResponses) /\ Range(q.reset_requests) \subseteq Range(ops)
       /\ Len(q.reset_requests) <= idempotency_cache_size /\ Distinct(q.reset_requests)
       /\ Range(r.responses) \subseteq Range(ops)
  BY DEF Recorded
<1> QED BY <1>3, <1>4, <1>5, <1>6, <1>7, <1>8, <1>9, <1>10 DEF Recorded

(* A committed reset.                                                      *)
LEMMA ResetRecorded ==
  ASSUME NEW r, NEW a, NEW ops, Recorded(r, a, ops), ~r.closed,
         NEW e \in ResetResponses, ~Has(r.reset_requests, e.id), NEW q,
         q.closed = r.closed, q.responses = <<>>, q.seen_requests = r.seen_requests,
         q.reset_requests = Remember(r.reset_requests, e)
  PROVE  Recorded(q, <<>>, Append(ops, e))
<1>1. /\ e \in Responses /\ e.id \in ResetIds /\ e.id \notin StepIds
  BY ServiceAssumption DEF ResetResponses, Responses
<1>2. /\ ops \in Seq(Responses) /\ r.reset_requests \in Seq(ResetResponses)
      /\ Range(r.reset_requests) \subseteq Range(ops)
      /\ Len(r.reset_requests) <= idempotency_cache_size /\ Distinct(r.reset_requests)
      /\ SeenOrLate(ops, r.seen_requests) /\ CachedOrFull(ops, r.reset_requests)
      /\ RepeatsLate(ops)
  BY DEF Recorded
<1>3. /\ q.reset_requests \in Seq(ResetResponses) /\ Len(q.reset_requests) <= idempotency_cache_size
      /\ Range(q.reset_requests) \subseteq Range(r.reset_requests) \cup {e}
  BY <1>2, RememberShape, RememberedRange
<1>4. Append(ops, e) \in Seq(Responses) /\ Range(Append(ops, e)) = Range(ops) \cup {e}
  BY <1>1, <1>2, RangeOfLonger, AppendProperties
<1>5. CachedOrFull(Append(ops, e), q.reset_requests) /\ Distinct(q.reset_requests)
  BY <1>1, <1>2, ResetIsCached
<1>6. SeenOrLate(Append(ops, e), q.seen_requests)
  BY <1>1, <1>2, ResetIsNoStep
<1>7. RepeatsLate(Append(ops, e))
  BY <1>1, <1>2, UncachedIsLate
<1>8. /\ q.responses \in Seq(StepResponses) /\ DOMAIN q.responses = {} /\ Range(q.responses) = {}
      /\ Len(q.responses) = 0 /\ idempotency_cache_size \in Nat
  BY EmptySeq, ServiceAssumption DEF Range
<1>9. q.seen_requests \in Seq(Requests) /\ Len(q.seen_requests) <= idempotency_cache_size
  BY DEF Recorded
<1> QED BY <1>2, <1>3, <1>4, <1>5, <1>6, <1>7, <1>8, <1>9 DEF Recorded

(* Caches that are empty are at odds with nothing.                         *)
LEMMA NothingRecorded ==
  ASSUME NEW ops \in Seq(Responses), RepeatsLate(ops), NEW a, NEW q,
         q.closed \/ ops = <<>>,
         q.responses = <<>>, q.seen_requests = <<>>, q.reset_requests = <<>>
  PROVE  Recorded(q, a, ops)
<1>1. /\ <<>> \in Seq(StepResponses) /\ <<>> \in Seq(Requests) /\ <<>> \in Seq(ResetResponses)
      /\ DOMAIN <<>> = {} /\ Range(<<>>) = {} /\ Len(<<>>) = 0
  BY EmptySeq DEF Range
<1>2. idempotency_cache_size \in Nat
  BY ServiceAssumption
<1>3. ops = <<>> => SeenOrLate(ops, q.seen_requests) /\ CachedOrFull(ops, q.reset_requests)
  BY <1>1 DEF SeenOrLate, CachedOrFull, PlacesOf
<1> QED BY <1>1, <1>2, <1>3 DEF Recorded, Distinct

(* A service without sessions has empty caches.                            *)
LEMMA InitCaches == Init => CacheInv
<1> SUFFICES ASSUME Init PROVE CacheInv
  OBVIOUS
<1>1. ASSUME NEW s \in Sessions PROVE Recorded(state[s], adapter[s], history[s])
  <2>1. /\ history[s] = <<>> /\ state[s].responses = <<>> /\ state[s].seen_requests = <<>>
        /\ state[s].reset_requests = <<>>
    BY DEF Init, NewSession
  <2>2. <<>> \in Seq(Responses) /\ RepeatsLate(<<>>)
    BY EmptySeq DEF RepeatsLate
  <2> QED BY <2>1, <2>2, NothingRecorded
<1>2. \A h \in Handlers : Admitted(h)
  BY DEF Init, Admitted
<1> QED BY <1>1, <1>2 DEF Init, CacheInv

(* A step of a handler on its own session keeps the invariant if it keeps  *)
(* it of that session and of that handler.                                 *)
LEMMA OwnCachesOnly ==
  ASSUME ServiceInv, CacheInv, NEW h \in Handlers, pc[h] # "idle",
         NEW s \in Sessions, s = SessionOf(h), pc[h] \in Working \/ lock[s] = Free,
         history' = [t \in Sessions |-> history'[t]],
         \A t \in Sessions : t # s =>
           state'[t] = state[t] /\ adapter'[t] = adapter[t] /\ history'[t] = history[t],
         \/ \E r : Return(h, r)
         \/ \E label \in Working : Hold(h, label) /\ Admitted(h)',
         Recorded(state'[s], adapter'[s], history'[s])
  PROVE  CacheInv'
<1>1. /\ reply' = [g \in Handlers |-> reply'[g]] /\ Admitted(h)'
      /\ \A g \in Handlers : g # h => pc'[g] = pc[g] /\ call'[g] = call[g]
  <2>1. reply = [g \in Handlers |-> reply[g]]
    BY DEF CacheInv
  <2>2. CASE \E r : Return(h, r)
    <3>1. PICK r : Return(h, r)
      BY <2>2
    <3>2. pc'[h] = "idle" /\ \A g \in Handlers : g # h => pc'[g] = pc[g] /\ call'[g] = call[g]
      BY <3>1, ReturnFrees
    <3>3. reply' = [reply EXCEPT ![h] = r]
      BY <3>1 DEF Return
    <3> QED BY <2>1, <3>2, <3>3 DEF Admitted
  <2>3. CASE \E label \in Working : Hold(h, label) /\ Admitted(h)'
    <3>1. PICK label \in Working : Hold(h, label) /\ Admitted(h)'
      BY <2>3
    <3>2. call' = call /\ \A g \in Handlers : g # h => pc'[g] = pc[g]
      BY <3>1, HoldTakes
    <3>3. reply' = reply
      BY <3>1 DEF Hold
    <3> QED BY <2>1, <3>1, <3>2, <3>3
  <2> QED BY <2>2, <2>3
<1>2. ASSUME NEW g \in Handlers, g # h PROVE Admitted(g)'
  <2>1. pc'[g] = pc[g] /\ call'[g] = call[g] /\ Admitted(g)
    BY <1>1, <1>2 DEF CacheInv
  <2>2. CASE pc[g] \in Working
    <3>1. SessionOf(g) # s /\ SessionOf(g) \in Sessions
      BY <1>2, <2>2, OthersApart DEF ServiceInv, Typed, Phase, Working
    <3>2. state'[SessionOf(g)] = state[SessionOf(g)] /\ SessionOf(g)' = SessionOf(g)
      BY <2>1, <3>1 DEF SessionOf
    <3> QED BY <2>1, <3>2 DEF Admitted
  <2>3. CASE pc[g] \notin Working
    BY <2>1, <2>3 DEF Admitted, Working
  <2> QED BY <2>2, <2>3
<1>3. ASSUME NEW t \in Sessions PROVE Recorded(state'[t], adapter'[t], history'[t])
  BY <1>3 DEF CacheInv
<1> QED BY <1>1, <1>2, <1>3 DEF CacheInv

(* An answer that changes no session.                                      *)
LEMMA AnswerCaches ==
  ASSUME ServiceInv, CacheInv, NEW h \in Handlers, pc[h] # "idle",
         pc[h] \in Working \/ lock[SessionOf(h)] = Free,
         UNCHANGED <<state, adapter, history>>,
         \/ \E r : Return(h, r)
         \/ \E label \in Working : Hold(h, label) /\ Admitted(h)'
  PROVE  CacheInv'
<1>1. PICK s \in Sessions : s = SessionOf(h)
  BY CallerKnows
<1>2. history' = [t \in Sessions |-> history'[t]] /\ Recorded(state'[s], adapter'[s], history'[s])
  BY DEF CacheInv
<1> QED BY <1>1, <1>2, OwnCachesOnly

(* A replay.                                                               *)
LEMMA ReplayCaches ==
  ASSUME ServiceInv, CacheInv, NEW h \in Handlers, pc[h] # "idle", lock[SessionOf(h)] = Free,
         NEW field \in {"responses", "reset_requests"}, Replay(h, field),
         Has(state[SessionOf(h)][field], call[h].id), UNCHANGED <<adapter, history>>
  PROVE  CacheInv'
<1>1. PICK s \in Sessions : s = SessionOf(h)
  BY CallerKnows
<1>2. IsSession(state[s]) /\ state = [t \in Sessions |-> state[t]]
  BY <1>1, CallerKnows
<1>3. CASE state' = state
  BY <1>3, AnswerCaches DEF Replay
<1>4. CASE state' = [state EXCEPT ![s][field] = MoveToEnd(@, call[h].id)]
  <2> DEFINE moved == MoveToEnd(state[s][field], call[h].id)
             q == [state[s] EXCEPT ![field] = moved]
  <2>1. state'[s] = q /\ \A t \in Sessions : t # s => state'[t] = state[t]
    BY <1>2, <1>4
  <2> HIDE DEF moved
  <2>2. q.closed = state[s].closed /\ q.seen_requests = state[s].seen_requests
    BY <1>2 DEF IsSession, Fields
  <2>3. \/ /\ field = "responses" /\ q.responses = moved
           /\ q.reset_requests = state[s].reset_requests
        \/ /\ field = "reset_requests" /\ q.reset_requests = moved
           /\ q.responses = state[s].responses
    BY <1>2 DEF IsSession, Fields
  <2> HIDE DEF q
  <2>4. Recorded(state[s], adapter[s], history[s])
    BY DEF CacheInv
  <2>5. Recorded(q, adapter[s], history[s])
    <3>1. CASE field = "responses"
      <4>1. /\ Has(state[s].responses, call[h].id) /\ q.responses = MoveToEnd(state[s].responses, call[h].id)
            /\ q.reset_requests = state[s].reset_requests
        BY <1>1, <2>3, <3>1 DEF moved
      <4> QED BY <2>2, <2>4, <4>1, ReplayRecorded
    <3>2. CASE field = "reset_requests"
      <4>1. /\ Has(state[s].reset_requests, call[h].id)
            /\ q.reset_requests = MoveToEnd(state[s].reset_requests, call[h].id)
            /\ q.responses = state[s].responses
        BY <1>1, <2>3, <3>2 DEF moved
      <4> QED BY <2>2, <2>4, <4>1, ReplayRecorded
    <3> QED BY <3>1, <3>2
  <2>6. \E r : Return(h, r)
    BY DEF Replay
  <2>7. history' = [t \in Sessions |-> history'[t]]
    BY DEF CacheInv
  <2> QED BY <1>1, <2>1, <2>5, <2>6, <2>7, OwnCachesOnly
<1> QED BY <1>1, <1>3, <1>4 DEF Replay

(* A step is answered, or it is executed because nobody remembers it.      *)
LEMMA EnterStepCaches ==
  ASSUME ServiceInv, CacheInv, NEW h \in Handlers, EnterStep(h)
  PROVE  CacheInv'
<1> DEFINE s == SessionOf(h)
           r == state[s]
           id == call[h].id
<1>1. /\ pc[h] = "lock" /\ pc[h] # "idle" /\ lock[s] = Free /\ UNCHANGED <<adapter, history>>
  BY DEF EnterStep
<1>2. CASE state' = state /\ \E x : Return(h, x)
  BY <1>1, <1>2, AnswerCaches
<1>3. CASE Has(r.responses, id) /\ Replay(h, "responses")
  BY <1>1, <1>3, ReplayCaches
<1>4. CASE /\ state' = state /\ Hold(h, "infer") /\ ~r.closed
           /\ ~Has(r.responses, id) /\ ~Has(r.seen_requests, id)
  <2>1. s \in Sessions /\ "infer" \in Working
    BY <1>1, CallerKnows DEF Working
  <2>2. pc'[h] = "infer" /\ call' = call
    BY <1>4, <2>1, HoldTakes
  <2>3. Admitted(h)'
    BY <1>4, <2>2 DEF Admitted, SessionOf
  <2> QED BY <1>1, <1>4, <2>1, <2>3, AnswerCaches
<1> QED BY <1>2, <1>3, <1>4 DEF EnterStep

LEMMA EnterResetCaches ==
  ASSUME ServiceInv, CacheInv, NEW h \in Handlers, EnterReset(h)
  PROVE  CacheInv'
<1> DEFINE s == SessionOf(h)
           r == state[s]
           id == call[h].id
<1>1. /\ pc[h] = "lock" /\ pc[h] # "idle" /\ lock[s] = Free /\ UNCHANGED <<adapter, history>>
  BY DEF EnterReset
<1>2. CASE state' = state /\ \E x : Return(h, x)
  BY <1>1, <1>2, AnswerCaches
<1>3. CASE Has(r.reset_requests, id) /\ Replay(h, "reset_requests")
  BY <1>1, <1>3, ReplayCaches
<1>4. CASE state' = state /\ Hold(h, "reset") /\ ~r.closed /\ ~Has(r.reset_requests, id)
  <2>1. s \in Sessions /\ "reset" \in Working
    BY <1>1, CallerKnows DEF Working
  <2>2. pc'[h] = "reset" /\ call' = call
    BY <1>4, <2>1, HoldTakes
  <2>3. Admitted(h)'
    BY <1>4, <2>2 DEF Admitted, SessionOf
  <2> QED BY <1>1, <1>4, <2>1, <2>3, AnswerCaches
<1> QED BY <1>2, <1>3, <1>4 DEF EnterReset

(* A session that is being closed forgets nothing yet.                     *)
LEMMA EnterCloseCaches ==
  ASSUME ServiceInv, CacheInv, NEW h \in Handlers, EnterClose(h)
  PROVE  CacheInv'
<1>1. PICK s \in Sessions : s = SessionOf(h) /\ pc[h] = "lock" /\ pc[h] # "idle" /\ lock[s] = Free
  BY CallerKnows DEF EnterClose
<1>2. UNCHANGED <<adapter, history>>
  BY DEF EnterClose
<1>3. CASE state' = state /\ \E x : Return(h, x)
  BY <1>1, <1>2, <1>3, AnswerCaches
<1>4. CASE state' = [state EXCEPT ![s].closed = TRUE] /\ Hold(h, "close")
  <2>1. IsSession(state[s]) /\ state = [t \in Sessions |-> state[t]]
    BY <1>1, CallerKnows
  <2> DEFINE q == [state[s] EXCEPT !.closed = TRUE]
  <2>2. /\ q.closed = TRUE /\ q.responses = state[s].responses
        /\ q.seen_requests = state[s].seen_requests /\ q.reset_requests = state[s].reset_requests
    BY <2>1 DEF IsSession, Fields
  <2>3. state'[s] = q /\ \A t \in Sessions : t # s => state'[t] = state[t]
    BY <1>4, <2>1
  <2> HIDE DEF q
  <2>4. Recorded(state[s], adapter[s], history[s])
    BY DEF CacheInv
  <2>5. Recorded(q, adapter[s], history[s])
    BY <2>2, <2>4 DEF Recorded
  <2>6. "close" \in Working /\ pc'[h] = "close"
    BY <1>1, <1>4, HoldTakes DEF Working
  <2>7. Admitted(h)' /\ history' = [t \in Sessions |-> history'[t]]
    BY <1>2, <2>6 DEF Admitted, CacheInv
  <2> QED BY <1>1, <1>2, <1>4, <2>3, <2>5, <2>6, <2>7, OwnCachesOnly
<1> QED BY <1>1, <1>3, <1>4 DEF EnterClose

(* A step commits: it is answered, remembered and part of the episode.     *)
LEMMA InferOkCaches ==
  ASSUME ServiceInv, CacheInv, NEW h \in Handlers, InferOk(h)
  PROVE  CacheInv' /\ Response(h) \in Range(history'[SessionOf(h)])
                   /\ call[h].id \in Range(adapter'[SessionOf(h)])
<1>1. PICK s \in Sessions : s = SessionOf(h) /\ pc[h] = "infer" /\ pc[h] # "idle" /\ pc[h] \in Working
  BY CallerKnows DEF InferOk, Working
<1> DEFINE e == Response(h)
           k == [id |-> call[h].id, content |-> call[h].content]
           r == state[s]
           q == [r EXCEPT !.revision = @ + 1,
                          !.next_step_id = StepOf[call[h].id] + 1,
                          !.seen_requests = Remember(@, k),
                          !.responses = Remember(@, e)]
<1>2. /\ adapter' = [adapter EXCEPT ![s] = Append(@, call[h].id)]
      /\ history' = [history EXCEPT ![s] = Append(@, e)]
      /\ state' = [state EXCEPT ![s] = q]
      /\ \E x : Return(h, x)
  BY <1>1 DEF InferOk
<1>3. IsSession(r) /\ state = [t \in Sessions |-> state[t]] /\ call[h] \in Call /\ call[h].op = "step"
  BY <1>1, CallerKnows DEF ServiceInv, Phase
<1>4. e \in StepResponses /\ k \in Requests /\ e.id = call[h].id /\ k.id = e.id
  BY <1>1, <1>3, CallShape DEF Response, StepResponses, Requests, IsSession
<1>5. /\ Recorded(r, adapter[s], history[s]) /\ adapter[s] \in Seq(StepIds)
      /\ ~r.closed /\ ~Has(r.responses, e.id) /\ ~Has(r.seen_requests, e.id)
  BY <1>1, <1>4 DEF CacheInv, Admitted, ServiceInv, Typed
<1> DEFINE asked == Remember(r.seen_requests, k)
           answered == Remember(r.responses, e)
<1>6. /\ q.closed = r.closed /\ q.responses = answered
      /\ q.seen_requests = asked /\ q.reset_requests = r.reset_requests
  <2> HIDE DEF k, e
  <2> QED BY <1>3, Zenon DEF IsSession, Fields
<1> HIDE DEF q, e, k
<1>7. Recorded(q, Append(adapter[s], e.id), Append(history[s], e))
  BY <1>4, <1>5, <1>6, StepRecorded
<1>8. /\ state'[s] = q /\ adapter'[s] = Append(adapter[s], e.id) /\ history'[s] = Append(history[s], e)
      /\ \A t \in Sessions : t # s =>
           state'[t] = state[t] /\ adapter'[t] = adapter[t] /\ history'[t] = history[t]
      /\ history' = [t \in Sessions |-> history'[t]]
  BY <1>2, <1>3, <1>4 DEF CacheInv, ServiceInv, Typed
<1>9. CacheInv'
  BY <1>1, <1>2, <1>7, <1>8, OwnCachesOnly
<1>10. e \in Range(history'[s]) /\ e.id \in Range(adapter'[s])
  <2>1. history[s] \in Seq(Responses) /\ e \in Responses
    BY <1>4, <1>5 DEF Recorded, StepResponses, Responses
  <2>2. e.id \in StepIds
    BY <1>4 DEF StepResponses
  <2> QED BY <1>5, <1>8, <2>1, <2>2, RangeOfLonger
<1> QED BY <1>1, <1>4, <1>9, <1>10 DEF e

(* A reset commits: steps of the episode before are not answered again.    *)
LEMMA ResetOkCaches ==
  ASSUME ServiceInv, CacheInv, NEW h \in Handlers, ResetOk(h)
  PROVE  CacheInv' /\ Response(h) \in Range(history'[SessionOf(h)])
<1>1. PICK s \in Sessions : s = SessionOf(h) /\ pc[h] = "reset" /\ pc[h] # "idle" /\ pc[h] \in Working
  BY CallerKnows DEF ResetOk, ResetWith, Working
<1> DEFINE e == Response(h)
           r == state[s]
           q == [r EXCEPT !.revision = @ + 1, !.next_step_id = 0, !.responses = <<>>,
                          !.reset_requests = Remember(@, e)]
<1>2. /\ adapter' = [adapter EXCEPT ![s] = <<>>]
      /\ history' = [history EXCEPT ![s] = Append(@, e)]
      /\ state' = [state EXCEPT ![s] = q]
      /\ \E x : Return(h, x)
  BY <1>1 DEF ResetOk, ResetWith
<1>3. IsSession(r) /\ state = [t \in Sessions |-> state[t]] /\ call[h] \in Call /\ call[h].op = "reset"
  BY <1>1, CallerKnows DEF ServiceInv, Phase
<1>4. e \in ResetResponses /\ e.id = call[h].id
  BY <1>1, <1>3, CallShape DEF Response, ResetResponses, IsSession
<1>5. Recorded(r, adapter[s], history[s]) /\ ~r.closed /\ ~Has(r.reset_requests, e.id)
  BY <1>1, <1>4 DEF CacheInv, Admitted
<1> DEFINE answered == Remember(r.reset_requests, e)
<1>6. /\ q.closed = r.closed /\ q.responses = <<>>
      /\ q.seen_requests = r.seen_requests /\ q.reset_requests = answered
  <2> HIDE DEF e
  <2> QED BY <1>3, Zenon DEF IsSession, Fields
<1> HIDE DEF q, e
<1>7. Recorded(q, <<>>, Append(history[s], e))
  BY <1>4, <1>5, <1>6, ResetRecorded
<1>8. /\ state'[s] = q /\ adapter'[s] = <<>> /\ history'[s] = Append(history[s], e)
      /\ \A t \in Sessions : t # s =>
           state'[t] = state[t] /\ adapter'[t] = adapter[t] /\ history'[t] = history[t]
      /\ history' = [t \in Sessions |-> history'[t]]
  BY <1>2, <1>3 DEF CacheInv, ServiceInv, Typed
<1>9. CacheInv'
  <2>1. Recorded(state'[s], adapter'[s], history'[s])
    BY <1>7, <1>8
  <2>2. history' = [t \in Sessions |-> history'[t]]
    BY <1>8
  <2>3. \E x : Return(h, x)
    BY <1>2
  <2> QED BY <1>1, <1>8, <2>1, <2>2, <2>3, OwnCachesOnly
<1>10. e \in Range(history'[s])
  <2>1. history[s] \in Seq(Responses) /\ e \in Responses
    BY <1>4, <1>5 DEF Recorded, ResetResponses, Responses
  <2> QED BY <1>8, <2>1, RangeOfLonger
<1> QED BY <1>1, <1>9, <1>10 DEF e

LEMMA CloseOkCaches ==
  ASSUME ServiceInv, CacheInv, NEW h \in Handlers, CloseOk(h)
  PROVE  CacheInv'
<1>1. PICK s \in Sessions : s = SessionOf(h) /\ pc[h] = "close" /\ pc[h] # "idle" /\ pc[h] \in Working
  BY CallerKnows DEF CloseOk, Working
<1> DEFINE r == state[s]
           q == [r EXCEPT !.responses = <<>>, !.seen_requests = <<>>, !.reset_requests = <<>>]
<1>2. /\ adapter' = [adapter EXCEPT ![s] = <<>>] /\ history' = history
      /\ state' = [state EXCEPT ![s] = q] /\ \E x : Return(h, x)
  BY <1>1 DEF CloseOk
<1>3. IsSession(r) /\ state = [t \in Sessions |-> state[t]] /\ r.closed
  BY <1>1, CallerKnows DEF ServiceInv, Phase
<1>4. /\ q.closed = r.closed /\ q.responses = <<>>
      /\ q.seen_requests = <<>> /\ q.reset_requests = <<>>
  BY <1>3, Zenon DEF IsSession, Fields
<1> HIDE DEF q
<1>5. Recorded(r, adapter[s], history[s])
  BY DEF CacheInv
<1>6. Recorded(q, <<>>, history[s])
  BY <1>3, <1>4, <1>5, NothingRecorded DEF Recorded
<1>7. /\ state'[s] = q /\ adapter'[s] = <<>> /\ history'[s] = history[s]
      /\ \A t \in Sessions : t # s =>
           state'[t] = state[t] /\ adapter'[t] = adapter[t] /\ history'[t] = history[t]
      /\ history' = [t \in Sessions |-> history'[t]]
  BY <1>2, <1>3 DEF CacheInv, ServiceInv, Typed
<1> QED BY <1>1, <1>2, <1>6, <1>7, OwnCachesOnly

LEMMA ReceiveCaches ==
  ASSUME ServiceInv, CacheInv, NEW h \in Handlers, NEW c \in Call, Receive(h, c)
  PROVE  CacheInv'
<1>1. pc[h] = "idle" /\ UNCHANGED <<state, adapter, history>>
  BY DEF Receive
<1>2. /\ reply' = [g \in Handlers |-> reply'[g]] /\ pc'[h] \in {"idle", "lock"}
      /\ \A g \in Handlers : g # h => pc'[g] = pc[g] /\ call'[g] = call[g]
  <2>1. reply = [g \in Handlers |-> reply[g]]
    BY DEF CacheInv
  <2>2. CASE c.session \in sessions
    BY <2>1, <2>2 DEF Receive, ServiceInv, Typed
  <2>3. CASE c.session \notin sessions
    BY <2>1, <2>3 DEF Receive, Return, ServiceInv, Typed
  <2> QED BY <2>2, <2>3
<1>3. \A g \in Handlers : Admitted(g)'
  BY <1>1, <1>2 DEF CacheInv, Admitted, SessionOf
<1> QED BY <1>1, <1>2, <1>3 DEF CacheInv

(* Every step of the service keeps its caches.                             *)
LEMMA ServiceStepCaches == ServiceInv /\ CacheInv /\ [Next]_vars => CacheInv'
<1> SUFFICES ASSUME ServiceInv, CacheInv, [Next]_vars PROVE CacheInv'
  OBVIOUS
<1>1. ASSUME NEW s \in Sessions, Open(s) PROVE CacheInv'
  BY <1>1 DEF Open, CacheInv, Admitted, SessionOf
<1>2. ASSUME NEW h \in Handlers, AdapterFails(h) PROVE CacheInv'
  <2>1. /\ pc[h] \in Working /\ pc[h] # "idle" /\ UNCHANGED <<state, adapter, history>>
        /\ \E r : Return(h, r)
    BY <1>2 DEF AdapterFails, Working
  <2> QED BY <2>1, AnswerCaches
<1>3. CASE UNCHANGED vars
  BY <1>3 DEF vars, CacheInv, Admitted, SessionOf
<1> QED BY <1>1, <1>2, <1>3, ReceiveCaches, EnterStepCaches, EnterResetCaches, EnterCloseCaches,
           InferOkCaches, ResetOkCaches, CloseOkCaches DEF Next

(* In every reachable state the caches remember of the operations executed *)
(* what PolicyService counts on: seen_requests as a queue over resets,     *)
(* reset_requests as long as it is not full, responses of this episode.    *)
THEOREM CachesInvariant == Spec => [](ServiceInv /\ CacheInv)
<1>1. Spec => []CacheInv
  BY InitCaches, ServiceStepCaches, ServiceInvariant, PTL DEF Spec
<1> QED BY <1>1, ServiceInvariant, PTL

(* Of the successful answers, a replay is what the cache holds of the      *)
(* request; the others are what the call has just committed.               *)
LEMMA ReplayAnswers ==
  ASSUME ServiceInv, CacheInv, NEW h \in Handlers, pc[h] # "idle",
         NEW field \in {"responses", "reset_requests"}, Replay(h, field),
         Has(state[SessionOf(h)][field], call[h].id), Answered(h)
  PROVE  /\ reply'[h].response \in Range(history[SessionOf(h)])
         /\ reply'[h].response.id = call[h].id /\ reply'[h].response.content = call[h].content
         /\ field = "responses" => call[h].id \in Range(adapter[SessionOf(h)])
<1>1. PICK s \in Sessions : s = SessionOf(h)
  BY CallerKnows
<1> DEFINE q == state[s][field]
           hit == Entry(q, call[h].id)
<1>2. Recorded(state[s], adapter[s], history[s]) /\ reply = [g \in Handlers |-> reply[g]]
  BY DEF CacheInv
<1>3. Has(q, call[h].id) /\ \E S : q \in Seq(S)
  BY <1>1, <1>2 DEF Recorded
<1>4. hit.id = call[h].id /\ hit \in Range(q)
  BY <1>3, EntryIsThere
<1>5. hit \in Range(history[s])
  BY <1>2, <1>4 DEF Recorded
<1>6. field = "responses" => hit.id \in Range(adapter[s])
  <2> SUFFICES ASSUME field = "responses" PROVE hit.id \in Range(adapter[s])
    OBVIOUS
  <2>1. PICK n \in DOMAIN q : q[n] = hit
    BY <1>4 DEF Range
  <2> QED BY <1>2, <2>1 DEF Recorded
<1> HIDE DEF hit
<1>7. /\ hit.content = call[h].content => Return(h, Ok(hit))
      /\ hit.content # call[h].content => Return(h, Error("idempotency_conflict"))
  BY <1>1 DEF Replay, hit
<1>8. hit.content = call[h].content /\ reply'[h] = Ok(hit)
  BY <1>2, <1>7 DEF Return, Answered, Error
<1> QED BY <1>1, <1>4, <1>5, <1>6, <1>8 DEF Ok

(* What a successful answer of a handler is.                               *)
Truthful(h) ==
  Answered(h) =>
    /\ reply'[h].response \in Range(history'[SessionOf(h)])
    /\ reply'[h].response.id = call[h].id
    /\ reply'[h].response.content = call[h].content
    /\ call[h].op = "step" => call[h].id \in Range(adapter'[SessionOf(h)])

(* A handler whose call does not come to a successful answer.              *)
LEMMA SilentIsTruthful ==
  ASSUME CacheInv, NEW g \in Handlers, NEW h \in Handlers,
         \/ g # h /\ \E r : reply' = [reply EXCEPT ![h] = r]
         \/ reply' = reply
         \/ \E r : r.code # "ok" /\ reply' = [reply EXCEPT ![h] = r]
  PROVE  Truthful(g)
<1>1. reply = [f \in Handlers |-> reply[f]]
  BY DEF CacheInv
<1>2. CASE g # h /\ \E r : reply' = [reply EXCEPT ![h] = r]
  BY <1>1, <1>2 DEF Truthful, Answered
<1>3. CASE reply' = reply
  BY <1>3 DEF Truthful, Answered
<1>4. CASE \E r : r.code # "ok" /\ reply' = [reply EXCEPT ![h] = r]
  BY <1>1, <1>4 DEF Truthful, Answered
<1> QED BY <1>2, <1>3, <1>4

LEMMA RepliesAreOwn ==
  ASSUME CacheInv, NEW h \in Handlers, NEW g \in Handlers, g # h,
         (\E r : Return(h, r)) \/ (\E label : Hold(h, label))
  PROVE  Truthful(g)
BY SilentIsTruthful DEF Return, Hold

LEMMA ErrorIsTruthful ==
  ASSUME CacheInv, NEW h \in Handlers, NEW code, code # "ok", Return(h, Error(code))
  PROVE  Truthful(h)
<1>1. Error(code).code # "ok" /\ reply' = [reply EXCEPT ![h] = Error(code)]
  BY DEF Return, Error
<1> QED BY <1>1, SilentIsTruthful

(* A retry is answered with what its first execution answered.             *)
LEMMA EnterStepAnswers ==
  ASSUME ServiceInv, CacheInv, NEW h \in Handlers, EnterStep(h)
  PROVE  \A g \in Handlers : Truthful(g)
<1> DEFINE s == SessionOf(h)
           r == state[s]
           id == call[h].id
<1>1. pc[h] = "lock" /\ pc[h] # "idle" /\ UNCHANGED <<adapter, history>>
  BY DEF EnterStep
<1>2. CASE \E code : code # "ok" /\ Return(h, Error(code))
  BY <1>2, RepliesAreOwn, ErrorIsTruthful
<1>3. CASE Has(r.responses, id) /\ Replay(h, "responses")
  <2>1. \E x : Return(h, x)
    BY <1>3 DEF Replay
  <2>2. Truthful(h)
    BY <1>1, <1>3, ReplayAnswers DEF Truthful
  <2> QED BY <2>1, <2>2, RepliesAreOwn
<1>4. CASE Hold(h, "infer")
  BY <1>4, SilentIsTruthful DEF Hold
<1>5. \/ \E code : code # "ok" /\ Return(h, Error(code))
      \/ Has(r.responses, id) /\ Replay(h, "responses")
      \/ Hold(h, "infer")
  BY DEF EnterStep
<1> QED BY <1>2, <1>3, <1>4, <1>5

LEMMA EnterResetAnswers ==
  ASSUME ServiceInv, CacheInv, NEW h \in Handlers, EnterReset(h)
  PROVE  \A g \in Handlers : Truthful(g)
<1> DEFINE s == SessionOf(h)
           r == state[s]
           id == call[h].id
<1>1. /\ pc[h] = "lock" /\ pc[h] # "idle" /\ UNCHANGED <<adapter, history>>
      /\ call[h].op = "reset"
  BY DEF EnterReset
<1>2. CASE Return(h, Error("session_not_found"))
  BY <1>2, RepliesAreOwn, ErrorIsTruthful
<1>3. CASE Has(r.reset_requests, id) /\ Replay(h, "reset_requests")
  <2>1. \E x : Return(h, x)
    BY <1>3 DEF Replay
  <2>2. Truthful(h)
    BY <1>1, <1>3, ReplayAnswers DEF Truthful
  <2> QED BY <2>1, <2>2, RepliesAreOwn
<1>4. CASE Hold(h, "reset")
  BY <1>4, SilentIsTruthful DEF Hold
<1> QED BY <1>2, <1>3, <1>4 DEF EnterReset

(* The first execution is answered with what it has just committed.        *)
LEMMA CommitAnswers ==
  ASSUME ServiceInv, CacheInv, NEW h \in Handlers, InferOk(h) \/ ResetOk(h)
  PROVE  \A g \in Handlers : Truthful(g)
<1>1. Return(h, Ok(Response(h)))
  BY DEF InferOk, ResetOk, ResetWith
<1>2. reply'[h] = Ok(Response(h))
  BY <1>1 DEF CacheInv, Return
<1>3. Response(h) \in Range(history'[SessionOf(h)])
  BY InferOkCaches, ResetOkCaches
<1>4. call[h].op = "step" => call[h].id \in Range(adapter'[SessionOf(h)])
  <2>1. CASE InferOk(h)
    BY <2>1, InferOkCaches
  <2>2. CASE ResetOk(h)
    <3>1. pc[h] = "reset"
      BY <2>2 DEF ResetOk, ResetWith
    <3> QED BY <3>1 DEF ServiceInv, Phase
  <2> QED BY <2>1, <2>2
<1>5. Truthful(h)
  BY <1>2, <1>3, <1>4 DEF Truthful, Ok, Response
<1> QED BY <1>1, <1>5, RepliesAreOwn

LEMMA StepsAreTruthful ==
  ServiceInv /\ CacheInv /\ [Next]_vars => \A g \in Handlers : Truthful(g)
<1> SUFFICES ASSUME ServiceInv, CacheInv, [Next]_vars PROVE \A g \in Handlers : Truthful(g)
  OBVIOUS
<1>1. ASSUME NEW h \in Handlers, NEW c \in Call, Receive(h, c)
      PROVE  \A g \in Handlers : Truthful(g)
  <2>1. CASE Return(h, Error("session_not_found"))
    BY <2>1, RepliesAreOwn, ErrorIsTruthful
  <2>2. CASE reply' = [reply EXCEPT ![h] = NoReply]
    BY <2>2, SilentIsTruthful DEF NoReply
  <2> QED BY <1>1, <2>1, <2>2 DEF Receive
<1>2. ASSUME NEW h \in Handlers, EnterClose(h) PROVE \A g \in Handlers : Truthful(g)
  <2>1. CASE Return(h, Error("session_not_found"))
    BY <2>1, RepliesAreOwn, ErrorIsTruthful
  <2>2. CASE Hold(h, "close")
    BY <2>2, SilentIsTruthful DEF Hold
  <2> QED BY <1>2, <2>1, <2>2 DEF EnterClose
<1>3. ASSUME NEW h \in Handlers, CloseOk(h) PROVE \A g \in Handlers : Truthful(g)
  BY <1>3, RepliesAreOwn, ErrorIsTruthful DEF CloseOk
<1>4. ASSUME NEW h \in Handlers, AdapterFails(h) PROVE \A g \in Handlers : Truthful(g)
  BY <1>4, RepliesAreOwn, ErrorIsTruthful DEF AdapterFails
<1>5. CASE (\E s \in Sessions : Open(s)) \/ UNCHANGED vars
  BY <1>5 DEF Open, vars, Truthful, Answered
<1> QED BY <1>1, <1>2, <1>3, <1>4, <1>5, EnterStepAnswers, EnterResetAnswers, CommitAnswers DEF Next

(* No operation is executed again early, however often it is delivered,    *)
(* raised or retried: a step not before as many other steps as the caches  *)
(* hold, over any number of resets; a reset not before the session has     *)
(* executed as many other resets.                                          *)
THEOREM NoEarlyRepeats == ServedSpec => []NoEarlyRepeat
<1>1. CacheInv => NoEarlyRepeat
  BY DEF CacheInv, Recorded, NoEarlyRepeat
<1> QED BY <1>1, CachesInvariant, ServedIsAService, PTL

(* A successful answer is the committed response of that very request: a   *)
(* retry is answered with what its first execution answered.               *)
THEOREM AnswersCommitted == ServedSpec => AnswersAreCommitted
<1>1. ServiceInv /\ CacheInv /\ [Next]_vars =>
        [\A h \in Handlers :
           Answered(h) =>
             /\ reply'[h].response \in Range(history'[SessionOf(h)])
             /\ reply'[h].response.id = call[h].id
             /\ reply'[h].response.content = call[h].content]_vars
  BY StepsAreTruthful DEF Truthful
<1> QED BY <1>1, CachesInvariant, ServedIsAService, PTL DEF Spec, AnswersAreCommitted

(* A step that is answered is part of the episode under way: after a reset *)
(* no response of an earlier episode is handed out again.                  *)
THEOREM AnswersInEpisode == ServedSpec => AnswersAreOfThisEpisode
<1>1. ServiceInv /\ CacheInv /\ [Next]_vars =>
        [\A h \in Handlers :
           Answered(h) /\ call[h].op = "step" =>
             call[h].id \in Range(adapter'[SessionOf(h)])]_vars
  BY StepsAreTruthful DEF Truthful
<1> QED BY <1>1, CachesInvariant, ServedIsAService, PTL DEF Spec, AnswersAreOfThisEpisode
=============================================================================
