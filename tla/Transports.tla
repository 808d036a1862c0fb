------------------------------ MODULE Transports ------------------------------
(***************************************************************************)
(* The two servers in front of BatchedServingAdapter, and how they stop:   *)
(* engine/serve/wireless_server.py and engine/serve/http_server.py.        *)
(*                                                                         *)
(* The wireless server has one receive loop per peer and at most           *)
(* max_in_flight request tasks, counted by a semaphore; all of them run on *)
(* one event loop, so what lies between two awaits is one action.  The     *)
(* HTTP server has a thread per connection and no limit.  A request that   *)
(* reaches the adapter blocks in its infer; PolicyService, between them,   *)
(* is modelled on its own.  A request is named by the caller of the        *)
(* adapter that it becomes; a name is used again when its request is over. *)
(***************************************************************************)
EXTENDS BatchedAdapter, FiniteSets

CONSTANTS
  Peers,          \* the configured peers of the wireless server
  max_in_flight,  \* permits of the semaphore
  Nobody

ASSUME TransportAssumption ==
  /\ IsFiniteSet(Callers) /\ IsFiniteSet(Peers)
  /\ max_in_flight \in Nat \ {0}
  /\ Nobody \notin Peers

VARIABLES
  transport,  \* which of the two servers this is
  server,     \* where serve_forever and main are
  loop,       \* each peer's receive loop
  stage,      \* where each request is
  owner,      \* the peer whose loop has received it
  permits,    \* the value of _capacity
  waiters     \* the loops that wait for a permit, in order

ingress == <<transport, server, loop, stage, owner, permits, waiters>>
allVars == <<pending, closed, future, worker, late, batch, stopper,
             transport, server, loop, stage, owner, permits, waiters>>

TransportInit ==
  /\ Init
  /\ transport \in {"wireless", "http"}
  /\ server = "serving"
  /\ loop = [p \in Peers |-> IF transport = "wireless" THEN "recv" ELSE "ended"]
  /\ stage = [c \in Callers |-> "away"]
  /\ owner = [c \in Callers |-> Nobody]
  /\ permits = max_in_flight
  /\ waiters = <<>>

\* The requests that are being handled: the tasks or threads.
Handled == {c \in Callers : stage[c] \in {"parse", "infer", "respond"}}

-----------------------------------------------------------------------------
(* Receiving: _serve_peer.                                                 *)

\* Mutant: the line of waiting loops is served from the wrong end.
ReceiveLast(p, c) ==
  /\ loop[p] = "recv"
  /\ stage[c] = "away"
  /\ owner' = [owner EXCEPT ![c] = p]
  /\ IF permits > 0
     THEN /\ permits' = permits - 1
          /\ stage' = [stage EXCEPT ![c] = "parse"]
          /\ UNCHANGED <<loop, waiters>>
     ELSE /\ stage' = [stage EXCEPT ![c] = "held"]
          /\ loop' = [loop EXCEPT ![p] = "wait"]
          /\ waiters' = <<p>> \o waiters
          /\ UNCHANGED permits
  /\ UNCHANGED <<vars, transport, server>>

\* A request arrives.  A free permit is taken without giving way to anybody
\* and the task is made at once; otherwise the loop waits in line, holding the
\* request, and receives nothing else meanwhile.
Receive(p, c) ==
  /\ loop[p] = "recv"
  /\ stage[c] = "away"
  /\ owner' = [owner EXCEPT ![c] = p]
  /\ IF permits > 0
     THEN /\ permits' = permits - 1
          /\ stage' = [stage EXCEPT ![c] = "parse"]
          /\ UNCHANGED <<loop, waiters>>
     ELSE /\ stage' = [stage EXCEPT ![c] = "held"]
          /\ loop' = [loop EXCEPT ![p] = "wait"]
          /\ waiters' = Append(waiters, p)
          /\ UNCHANGED permits
  /\ UNCHANGED <<vars, transport, server>>

\* The permit was handed over: the loop makes the task and receives again.
Resume(p) ==
  /\ loop[p] = "granted"
  /\ loop' = [loop EXCEPT ![p] = "recv"]
  /\ stage' = [c \in Callers |-> IF owner[c] = p /\ stage[c] = "held" THEN "parse" ELSE stage[c]]
  /\ UNCHANGED <<vars, transport, server, owner, permits, waiters>>

\* ConnectionClosedError ends a session, not the loop.
Disconnect(p) ==
  /\ loop[p] = "recv"
  /\ loop' = [loop EXCEPT ![p] = "sleep"]
  /\ UNCHANGED <<vars, transport, server, stage, owner, permits, waiters>>

Reconnect(p) ==
  /\ loop[p] = "sleep"
  /\ loop' = [loop EXCEPT ![p] = "recv"]
  /\ UNCHANGED <<vars, transport, server, stage, owner, permits, waiters>>

\* A connection of the HTTP server brings a request.
Accept(c) ==
  /\ transport = "http"
  /\ server = "serving"
  /\ stage[c] = "away"
  /\ stage' = [stage EXCEPT ![c] = "parse"]
  /\ UNCHANGED <<vars, transport, server, loop, owner, permits, waiters>>

-----------------------------------------------------------------------------
(* Handling: _handle and _dispatch, or do_GET, do_POST and do_DELETE.      *)

\* Mutant: a response that cannot be delivered keeps its permit.
LeaveOrKeep(c) ==
  /\ stage' = [stage EXCEPT ![c] = "away"]
  /\ owner' = [owner EXCEPT ![c] = Nobody]
  /\ \/ UNCHANGED <<loop, permits, waiters>>
     \/ /\ transport = "wireless" /\ waiters = <<>>
        /\ permits' = permits + 1
        /\ UNCHANGED <<loop, waiters>>
     \/ /\ transport = "wireless" /\ waiters # <<>>
        /\ loop' = [loop EXCEPT ![Head(waiters)] = "granted"]
        /\ waiters' = Tail(waiters)
        /\ UNCHANGED permits

\* The request is over.  Releasing the semaphore hands the permit to the loop
\* that has waited longest.
Over(c) ==
  /\ stage' = [stage EXCEPT ![c] = "away"]
  /\ owner' = [owner EXCEPT ![c] = Nobody]
  /\ \/ /\ transport = "http"
        /\ UNCHANGED <<loop, permits, waiters>>
     \/ /\ transport = "wireless" /\ waiters = <<>>
        /\ permits' = permits + 1
        /\ UNCHANGED <<loop, waiters>>
     \/ /\ transport = "wireless" /\ waiters # <<>>
        /\ loop' = [loop EXCEPT ![Head(waiters)] = "granted"]
        /\ waiters' = Tail(waiters)
        /\ UNCHANGED permits

\* A wireless request without a proper envelope gets no response at all.
Malformed(c) ==
  /\ stage[c] = "parse"
  /\ transport = "wireless"
  /\ Over(c)
  /\ UNCHANGED <<vars, transport, server>>

\* A request for the model blocks in infer, or is refused there; any other is
\* answered, with a result or an error, without it.
Dispatch(c) ==
  /\ stage[c] = "parse"
  /\ \/ stage' = [stage EXCEPT ![c] = "infer"] /\ Submit(c)
     \/ stage' = [stage EXCEPT ![c] = "respond"] /\ (Refuse(c) \/ UNCHANGED vars)
  /\ UNCHANGED <<transport, server, loop, owner, permits, waiters>>

Inferred(c) ==
  /\ stage[c] = "infer"
  /\ future[c] # "pending"
  /\ stage' = [stage EXCEPT ![c] = "respond"]
  /\ UNCHANGED <<vars, transport, server, loop, owner, permits, waiters>>

\* The response is sent, or its delivery fails: the finally clause runs.
Respond(c) ==
  /\ stage[c] = "respond"
  /\ Over(c)
  /\ UNCHANGED <<vars, transport, server>>

Handle(c) == Malformed(c) \/ Dispatch(c) \/ Inferred(c) \/ Respond(c)

-----------------------------------------------------------------------------
(* Stopping.                                                               *)

\* serve_forever is cancelled, or one receive loop fails with an error other
\* than a closed connection: every loop is cancelled, one that holds a request
\* drops it, and a permit that was just granted is given back.  The HTTP
\* server stops accepting.
StopServing ==
  /\ server = "serving"
  /\ server' = IF transport = "wireless" THEN "draining" ELSE "closing"
  /\ loop' = [p \in Peers |-> "ended"]
  /\ stage' = [c \in Callers |-> IF stage[c] = "held" THEN "away" ELSE stage[c]]
  /\ owner' = [c \in Callers |-> IF stage[c] = "held" THEN Nobody ELSE owner[c]]
  /\ permits' = permits + Cardinality({p \in Peers : loop[p] = "granted"})
  /\ waiters' = <<>>
  /\ UNCHANGED <<vars, transport>>

\* Mutant: serve_forever does not wait for its requests.
DrainAtOnce ==
  /\ server = "draining"
  /\ server' = "closing"
  /\ UNCHANGED <<vars, transport, loop, stage, owner, permits, waiters>>

\* The last gather of serve_forever: every request task has ended.
Drain ==
  /\ server = "draining"
  /\ Handled = {}
  /\ server' = "closing"
  /\ UNCHANGED <<vars, transport, loop, stage, owner, permits, waiters>>

\* main's finally clause: adapter.shutdown().  HTTP handlers may still run.
ShutDownAdapter ==
  /\ server = "closing"
  /\ Close \/ Join
  /\ UNCHANGED ingress

TransportNext ==
  \/ \E p \in Peers :
       \/ \E c \in Callers : Receive(p, c)
       \/ Resume(p) \/ Disconnect(p) \/ Reconnect(p)
  \/ \E c \in Callers : Accept(c) \/ Handle(c)
  \/ StopServing \/ Drain \/ ShutDownAdapter
  \/ Work /\ UNCHANGED ingress

\* Tasks and threads that can run do, the event loop resumes whoever may go
\* on, and the worker is as fair as in BatchedAdapter.
TransportSpec ==
  /\ TransportInit /\ [][TransportNext]_allVars
  /\ \A c \in Callers : WF_allVars(Handle(c))
  /\ \A p \in Peers : WF_allVars(Resume(p))
  /\ WF_allVars(Drain) /\ WF_allVars(ShutDownAdapter) /\ WF_allVars(Work /\ UNCHANGED ingress)

-----------------------------------------------------------------------------
(* Properties.                                                             *)

\* Every permit is free, on its way to a waiting loop, or with one request
\* task: malformed requests, failed handlers, undelivered responses and a
\* shutdown all give it back, so the server never ends up refusing everybody.
PermitsAreKept ==
  transport = "wireless" =>
    permits + Cardinality({p \in Peers : loop[p] = "granted"}) + Cardinality(Handled) = max_in_flight

\* The wireless server lets every request it has accepted finish before the
\* adapter is shut down: none of them is turned away with server_stopping.
WirelessDrains ==
  transport = "wireless" => \A c \in Callers : future[c] # "server_stopping"

\* A receive loop that waits for a permit gets one, however many requests the
\* other peers send: no peer keeps another from being read.
EveryReceiverGoesOn == \A p \in Peers : loop[p] = "wait" ~> loop[p] # "wait"
=============================================================================
