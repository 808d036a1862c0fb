------------------------------ MODULE PolicyService ------------------------------
(***************************************************************************)
(* engine/serve/service.py: the session, ordering and idempotency rules    *)
(* that the HTTP and the wireless server share.  Each request runs on a    *)
(* handler thread of its own; a session's lock is held across the call of  *)
(* the model adapter, the dictionary's lock never is.                      *)
(*                                                                         *)
(* The network may deliver any request any number of times, in any order   *)
(* and at any time.  A request_id stands for one intended operation: a     *)
(* step with the step_id StepOf gives, or a reset.  Only a faulty client   *)
(* sends it with other content.  A fingerprint is the content it hashes,   *)
(* and a cached response what tells responses apart.                       *)
(*                                                                         *)
(* The adapter is external: it remembers the steps it executed since its   *)
(* last reset, and a call of it that raises leaves that as it was.         *)
(***************************************************************************)
EXTENDS Naturals, FiniteSets, SequencesExt

CONSTANTS
  Handlers,               \* server threads
  Sessions,               \* the session ids that uuid4 yields
  StepIds, ResetIds,      \* the request ids of steps and of resets
  StepOf,                 \* the step_id each of StepIds is sent with
  Contents,               \* request contents that a fingerprint tells apart
  maximum_sessions,       \* limit of open_session
  idempotency_cache_size, \* limit of each session's three caches
  MaxRevision             \* bound: operations committed per session

ASSUME ServiceAssumption ==
  /\ maximum_sessions \in Nat \ {0} /\ idempotency_cache_size \in Nat \ {0}
  /\ MaxRevision \in Nat
  /\ StepIds \cap ResetIds = {}
  /\ StepOf \in [StepIds -> Nat]
  /\ "free" \notin Handlers

VARIABLES
  opened,    \* session ids handed out so far
  sessions,  \* _sessions: the session ids a lookup finds
  state,     \* per session: the fields of _Session
  lock,      \* per session: the handler that holds session.lock
  pc,        \* per handler: where its call is
  call,      \* per handler: the call
  reply,     \* per handler: what its last call came to
  adapter,   \* per session: the request ids executed since the adapter's reset
  history    \* per session: every response ever committed, in order

vars == <<opened, sessions, state, lock, pc, call, reply, adapter, history>>

Free == "free"
NoCall == [op |-> "none"]
NoReply == [code |-> "none"]

Call ==
  [op : {"step"}, session : Sessions, id : StepIds, content : Contents]
    \cup [op : {"reset"}, session : Sessions, id : ResetIds, content : Contents]
    \cup [op : {"close"}, session : Sessions]

NewSession ==
  [revision |-> 0, next_step_id |-> 0, closed |-> FALSE,
   responses |-> <<>>, seen_requests |-> <<>>, reset_requests |-> <<>>]

\* The session the handler's call is about.
SessionOf(h) == call[h].session

-----------------------------------------------------------------------------
(* The ordered dictionaries: sequences of entries, the oldest first.       *)

Has(cache, id) == \E n \in DOMAIN cache : cache[n].id = id
Position(cache, id) == CHOOSE n \in DOMAIN cache : cache[n].id = id
Entry(cache, id) == cache[Position(cache, id)]
Others(cache, id) == IF Has(cache, id) THEN RemoveAt(cache, Position(cache, id)) ELSE cache
MoveToEnd(cache, id) == Append(Others(cache, id), Entry(cache, id))

LastOf(seq, n) == IF Len(seq) <= n THEN seq ELSE SubSeq(seq, Len(seq) - n + 1, Len(seq))

\* _remember: the entry becomes the newest, the oldest are evicted.
Remember(cache, e) == LastOf(Append(Others(cache, e.id), e), idempotency_cache_size)

-----------------------------------------------------------------------------
Init ==
  /\ opened = {}
  /\ sessions = {}
  /\ state = [s \in Sessions |-> NewSession]
  /\ lock = [s \in Sessions |-> Free]
  /\ pc = [h \in Handlers |-> "idle"]
  /\ call = [h \in Handlers |-> NoCall]
  /\ reply = [h \in Handlers |-> NoReply]
  /\ adapter = [s \in Sessions |-> <<>>]
  /\ history = [s \in Sessions |-> <<>>]

\* open_session, up to the limit.
Open(s) ==
  /\ s \notin opened
  /\ Cardinality(sessions) < maximum_sessions
  /\ opened' = opened \cup {s}
  /\ sessions' = sessions \cup {s}
  /\ UNCHANGED <<state, lock, pc, call, reply, adapter, history>>

\* The call is over: the session lock, if the handler has it, is released.
Return(h, r) ==
  /\ pc' = [pc EXCEPT ![h] = "idle"]
  /\ call' = [call EXCEPT ![h] = NoCall]
  /\ reply' = [reply EXCEPT ![h] = r]
  /\ lock' = [s \in Sessions |-> IF lock[s] = h THEN Free ELSE lock[s]]

Error(code) == [code |-> code]
Ok(response) == [code |-> "ok", response |-> response]

\* Calls under way on s can each commit once; the bound counts them all.
Active(s) == Cardinality({h \in Handlers : pc[h] # "idle" /\ SessionOf(h) = s})

\* A request arrives and its session is looked up, without the session's lock.
Receive(h, c) ==
  /\ pc[h] = "idle"
  /\ state[c.session].revision + Active(c.session) < MaxRevision
  /\ IF c.session \in sessions
     THEN /\ pc' = [pc EXCEPT ![h] = "lock"]
          /\ call' = [call EXCEPT ![h] = c]
          /\ reply' = [reply EXCEPT ![h] = NoReply]
          /\ UNCHANGED lock
     ELSE Return(h, Error("session_not_found"))
  /\ UNCHANGED <<opened, sessions, state, adapter, history>>

\* The handler gets the session's lock and keeps it while the adapter works.
Hold(h, label) ==
  /\ lock' = [lock EXCEPT ![SessionOf(h)] = h]
  /\ pc' = [pc EXCEPT ![h] = label]
  /\ UNCHANGED <<call, reply>>

\* Mutant: the content of the retry is not compared.
ReplayAnything(h, field) ==
  LET s == SessionOf(h)
      hit == Entry(state[s][field], call[h].id)
  IN  /\ state' = [state EXCEPT ![s][field] = MoveToEnd(@, call[h].id)]
      /\ Return(h, Ok(hit))

\* A cached response is handed out again if the content is the same.
Replay(h, field) ==
  LET s == SessionOf(h)
      hit == Entry(state[s][field], call[h].id)
  IN  IF hit.content = call[h].content
      THEN /\ state' = [state EXCEPT ![s][field] = MoveToEnd(@, call[h].id)]
           /\ Return(h, Ok(hit))
      ELSE Return(h, Error("idempotency_conflict")) /\ UNCHANGED state

\* step, from taking the lock to adapter.infer.
EnterStep(h) ==
  LET s == SessionOf(h)
      id == call[h].id
  IN  /\ pc[h] = "lock" /\ call[h].op = "step" /\ lock[s] = Free
      /\ \/ /\ state[s].closed
            /\ Return(h, Error("session_not_found")) /\ UNCHANGED state
         \/ /\ ~state[s].closed
            /\ Has(state[s].responses, id)
            /\ Replay(h, "responses")
         \/ /\ ~state[s].closed
            /\ ~Has(state[s].responses, id)
            /\ Has(state[s].seen_requests, id)
            /\ Return(h, Error("stale_idempotency_key")) /\ UNCHANGED state
         \/ /\ ~state[s].closed
            /\ ~Has(state[s].responses, id)
            /\ ~Has(state[s].seen_requests, id)
            /\ UNCHANGED state
            /\ IF StepOf[id] = state[s].next_step_id
               THEN Hold(h, "infer")
               ELSE Return(h, Error(IF StepOf[id] < state[s].next_step_id
                                    THEN "step_id_too_old" ELSE "out_of_order_step"))
      /\ UNCHANGED <<opened, sessions, adapter, history>>

\* What a committed operation answers, and is remembered by.
Response(h) ==
  [id |-> call[h].id, content |-> call[h].content,
   revision |-> state[SessionOf(h)].revision + 1]

\* Mutant: a committed step is only remembered by its response.
InferUnseen(h) ==
  LET s == SessionOf(h)
      old == state[s]
  IN  /\ pc[h] = "infer"
      /\ adapter' = [adapter EXCEPT ![s] = Append(@, call[h].id)]
      /\ history' = [history EXCEPT ![s] = Append(@, Response(h))]
      /\ state' = [state EXCEPT ![s] = [old EXCEPT
           !.revision = @ + 1,
           !.next_step_id = StepOf[call[h].id] + 1,
           !.responses = Remember(@, Response(h))]]
      /\ Return(h, Ok(Response(h)))
      /\ UNCHANGED <<opened, sessions>>

\* adapter.infer returns: the step is committed.
InferOk(h) ==
  LET s == SessionOf(h)
      old == state[s]
  IN  /\ pc[h] = "infer"
      /\ adapter' = [adapter EXCEPT ![s] = Append(@, call[h].id)]
      /\ history' = [history EXCEPT ![s] = Append(@, Response(h))]
      /\ state' = [state EXCEPT ![s] = [old EXCEPT
           !.revision = @ + 1,
           !.next_step_id = StepOf[call[h].id] + 1,
           !.seen_requests = Remember(@, [id |-> call[h].id, content |-> call[h].content]),
           !.responses = Remember(@, Response(h))]]
      /\ Return(h, Ok(Response(h)))
      /\ UNCHANGED <<opened, sessions>>

\* reset, from taking the lock to adapter.reset.
EnterReset(h) ==
  LET s == SessionOf(h)
  IN  /\ pc[h] = "lock" /\ call[h].op = "reset" /\ lock[s] = Free
      /\ \/ /\ state[s].closed
            /\ Return(h, Error("session_not_found")) /\ UNCHANGED state
         \/ /\ ~state[s].closed
            /\ Has(state[s].reset_requests, call[h].id)
            /\ Replay(h, "reset_requests")
         \/ /\ ~state[s].closed
            /\ ~Has(state[s].reset_requests, call[h].id)
            /\ Hold(h, "reset") /\ UNCHANGED state
      /\ UNCHANGED <<opened, sessions, adapter, history>>

\* What ResetOk does besides the fields of the session it resets.
ResetWith(h, fields) ==
  LET s == SessionOf(h)
  IN  /\ pc[h] = "reset"
      /\ adapter' = [adapter EXCEPT ![s] = <<>>]
      /\ history' = [history EXCEPT ![s] = Append(@, Response(h))]
      /\ state' = [state EXCEPT ![s] = fields]
      /\ Return(h, Ok(Response(h)))
      /\ UNCHANGED <<opened, sessions>>

\* Mutants: the step counter, or the cached responses, survive the reset.
ResetKeepsCount(h) ==
  LET old == state[SessionOf(h)]
  IN  ResetWith(h, [old EXCEPT !.revision = @ + 1, !.responses = <<>>,
                               !.reset_requests = Remember(@, Response(h))])

ResetKeepsResponses(h) ==
  LET old == state[SessionOf(h)]
  IN  ResetWith(h, [old EXCEPT !.revision = @ + 1, !.next_step_id = 0,
                               !.reset_requests = Remember(@, Response(h))])

\* Mutant: a committed reset is not remembered.
ResetUnseen(h) ==
  LET old == state[SessionOf(h)]
  IN  ResetWith(h, [old EXCEPT !.revision = @ + 1, !.next_step_id = 0, !.responses = <<>>])

\* adapter.reset returns: a new episode, whose step keys are all new.
ResetOk(h) ==
  LET old == state[SessionOf(h)]
  IN  ResetWith(h, [old EXCEPT !.revision = @ + 1, !.next_step_id = 0, !.responses = <<>>,
                               !.reset_requests = Remember(@, Response(h))])

\* Mutant: the session is gone before the adapter has forgotten it.
ClosedEarly(h) ==
  LET s == SessionOf(h)
  IN  /\ pc[h] = "lock" /\ call[h].op = "close" /\ lock[s] = Free
      /\ IF s \in sessions
         THEN /\ state' = [state EXCEPT ![s].closed = TRUE]
              /\ sessions' = sessions \ {s}
              /\ Hold(h, "close")
         ELSE Return(h, Error("session_not_found")) /\ UNCHANGED <<state, sessions>>
      /\ UNCHANGED <<opened, adapter, history>>

\* close, from taking the lock: new work is blocked before the cleanup.
EnterClose(h) ==
  LET s == SessionOf(h)
  IN  /\ pc[h] = "lock" /\ call[h].op = "close" /\ lock[s] = Free
      /\ IF s \in sessions
         THEN /\ state' = [state EXCEPT ![s].closed = TRUE]
              /\ Hold(h, "close")
         ELSE Return(h, Error("session_not_found")) /\ UNCHANGED state
      /\ UNCHANGED <<opened, sessions, adapter, history>>

CloseOk(h) ==
  LET s == SessionOf(h)
      old == state[s]
  IN  /\ pc[h] = "close"
      /\ adapter' = [adapter EXCEPT ![s] = <<>>]
      /\ sessions' = sessions \ {s}
      /\ state' = [state EXCEPT ![s] = [old EXCEPT !.responses = <<>>, !.seen_requests = <<>>,
                                                   !.reset_requests = <<>>]]
      /\ Return(h, Error("closed"))
      /\ UNCHANGED <<opened, history>>

\* The adapter raises; the request may be sent again, a close too.
AdapterFails(h) ==
  /\ pc[h] \in {"infer", "reset", "close"}
  /\ Return(h, Error("adapter_error"))
  /\ UNCHANGED <<opened, sessions, state, adapter, history>>

Next ==
  \/ \E s \in Sessions : Open(s)
  \/ \E h \in Handlers :
       \/ \E c \in Call : Receive(h, c)
       \/ EnterStep(h) \/ InferOk(h)
       \/ EnterReset(h) \/ ResetOk(h)
       \/ EnterClose(h) \/ CloseOk(h)
       \/ AdapterFails(h)

Spec == Init /\ [][Next]_vars

-----------------------------------------------------------------------------
(* Properties.                                                             *)

\* The adapter of a session executed exactly steps 0, 1, .. next_step_id - 1
\* of the current episode, in that order, whatever was resent, raised, reset
\* or half closed.
AdapterFollowsSession ==
  \A s \in sessions :
    /\ Len(adapter[s]) = state[s].next_step_id
    /\ \A n \in DOMAIN adapter[s] : StepOf[adapter[s][n]] = n - 1

\* A closed session leaves nothing behind: a step that found the session
\* before it was closed cannot bring the adapter's memory of it back.
ClosedLeavesNothing ==
  \A s \in opened \ sessions : adapter[s] = <<>> /\ lock[s] = Free

\* Where some operations have a request of the set, and which one it is.
PlacesOf(ops, ids) == {n \in DOMAIN ops : ops[n].id \in ids}
IdsOf(ops, places) == {ops[n].id : n \in places}

RepeatsLate(ops) ==
  \A m, n \in DOMAIN ops :
    LET id == ops[n].id
    IN  m < n /\ ops[m].id = id =>
          /\ id \in StepIds =>
               Cardinality(PlacesOf(ops, StepIds) \cap (m + 1)..(n - 1)) >= idempotency_cache_size
          /\ id \in ResetIds =>
               Cardinality(IdsOf(ops, PlacesOf(ops, ResetIds) \cap 1..(n - 1)) \ {id})
                 >= idempotency_cache_size

\* No operation is executed again early, however often it is delivered, raised
\* or retried in between: a step not before idempotency_cache_size other steps
\* were executed after it, over any number of resets; a reset not before
\* the session has executed as many other resets.
NoEarlyRepeat == \A s \in Sessions : RepeatsLate(history[s])

\* The handler's call comes to a successful answer of a step or a reset.
Answered(h) == reply'[h] # reply[h] /\ reply'[h].code = "ok"

\* A successful answer is the committed response of that very request: a retry
\* is answered with what its first execution answered, never with another's.
AnswersAreCommitted ==
  [][\A h \in Handlers :
       Answered(h) =>
         /\ reply'[h].response \in Range(history'[SessionOf(h)])
         /\ reply'[h].response.id = call[h].id
         /\ reply'[h].response.content = call[h].content]_vars

\* A step that is answered is part of the episode under way when it is: after
\* a reset no response of an earlier episode is handed out again.
AnswersAreOfThisEpisode ==
  [][\A h \in Handlers :
       Answered(h) /\ call[h].op = "step" =>
         call[h].id \in Range(adapter'[SessionOf(h)])]_vars
=============================================================================
