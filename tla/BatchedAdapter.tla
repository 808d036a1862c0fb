------------------------------ MODULE BatchedAdapter ------------------------------
(***************************************************************************)
(* engine/serve/batching.py: BatchedServingAdapter puts the steps of       *)
(* several sessions into one call of the model.  Handler threads queue a   *)
(* request with a future and block on it; one worker thread, started by    *)
(* the first request, takes a batch, runs the model outside the lock and   *)
(* resolves the futures one by one.  One condition variable guards the     *)
(* queue: a thread that waits on it runs again only when it is notified or *)
(* when its time is up.                                                    *)
(*                                                                         *)
(* A request and its future are named by the caller: a caller has one at a *)
(* time.  The adapter that runs the batch is external: its call returns,   *)
(* and each of its outcomes may be a result or an exception.               *)
(***************************************************************************)
EXTENDS Naturals, SequencesExt

CONSTANTS
  Callers,      \* handler threads
  max_batch,    \* requests in one call of the model
  max_pending   \* limit of the queue

ASSUME BatchAssumption == max_batch \in Nat \ {0} /\ max_pending \in Nat \ {0}

VARIABLES
  pending,  \* _pending: the callers whose requests are queued
  closed,   \* _closed
  future,   \* per caller: how its last call of infer stands
  worker,   \* where the worker thread is
  late,     \* whether the deadline of the batching window has passed
  batch,    \* the callers whose requests the worker has taken
  stopper   \* where the call of shutdown is

vars == <<pending, closed, future, worker, late, batch, stopper>>

Init ==
  /\ pending = <<>>
  /\ closed = FALSE
  /\ future = [c \in Callers |-> "none"]
  /\ worker = "none"
  /\ late = FALSE
  /\ batch = <<>>
  /\ stopper = "none"

-----------------------------------------------------------------------------
(* The callers.                                                            *)

\* notify_all: a worker that waits looks at the queue again.
Notified == CASE worker = "asleep" -> "look"
              [] worker = "dozing" -> "window"
              [] OTHER -> worker

\* infer, up to future.result(); the first request starts the worker.
Submit(c) ==
  /\ future[c] # "pending"
  /\ ~closed
  /\ Len(pending) < max_pending
  /\ pending' = Append(pending, c)
  /\ future' = [future EXCEPT ![c] = "pending"]
  /\ worker' = IF worker = "none" THEN "look" ELSE Notified
  /\ UNCHANGED <<closed, late, batch, stopper>>

\* infer raises 503 server_stopping, or 429 queue_full.
Refuse(c) ==
  /\ future[c] # "pending"
  /\ \/ closed /\ future' = [future EXCEPT ![c] = "server_stopping"]
     \/ /\ ~closed
        /\ Len(pending) >= max_pending
        /\ future' = [future EXCEPT ![c] = "queue_full"]
  /\ UNCHANGED <<pending, closed, worker, late, batch, stopper>>

-----------------------------------------------------------------------------
(* shutdown.                                                               *)

\* Mutant: nobody tells the worker.
CloseQuietly ==
  /\ stopper = "none"
  /\ closed' = TRUE
  /\ pending' = <<>>
  /\ future' = [c \in Callers |-> IF c \in Range(pending) THEN "server_stopping" ELSE future[c]]
  /\ stopper' = "join"
  /\ UNCHANGED <<worker, late, batch>>

\* Mutant: the queue is emptied, its futures are not resolved.
CloseDropping ==
  /\ stopper = "none"
  /\ closed' = TRUE
  /\ pending' = <<>>
  /\ worker' = Notified
  /\ stopper' = "join"
  /\ UNCHANGED <<future, late, batch>>

\* Under the lock: queued requests are rejected, and the worker is told.
Close ==
  /\ stopper = "none"
  /\ closed' = TRUE
  /\ pending' = <<>>
  /\ future' = [c \in Callers |-> IF c \in Range(pending) THEN "server_stopping" ELSE future[c]]
  /\ worker' = Notified
  /\ stopper' = "join"
  /\ UNCHANGED <<late, batch>>

\* join, if there ever was a worker.
Join ==
  /\ stopper = "join"
  /\ worker \in {"none", "dead"}
  /\ stopper' = "done"
  /\ UNCHANGED <<pending, closed, future, worker, late, batch>>

-----------------------------------------------------------------------------
(* The worker: _run.                                                       *)

\* The oldest requests leave the queue, as many as one call takes.
Take ==
  LET n == IF Len(pending) < max_batch THEN Len(pending) ELSE max_batch
  IN  /\ batch' = SubSeq(pending, 1, n)
      /\ pending' = SubSeq(pending, n + 1, Len(pending))
      /\ worker' = "infer"

Stop == worker' = "dead" /\ UNCHANGED <<pending, batch>>

\* wait_for, up to opening the batching window.
Look ==
  /\ worker = "look"
  /\ \/ closed /\ Stop /\ UNCHANGED late
     \/ /\ ~closed /\ pending = <<>>
        /\ worker' = "asleep"
        /\ UNCHANGED <<pending, late, batch>>
     \/ /\ ~closed /\ pending # <<>>
        /\ worker' = "window"
        /\ late' \in BOOLEAN
        /\ UNCHANGED <<pending, batch>>
  /\ UNCHANGED <<closed, future, stopper>>

\* The window closes when the batch is full or time is up; otherwise the
\* worker waits for the rest of it.
Window ==
  /\ worker = "window"
  /\ \/ closed /\ Stop
     \/ /\ ~closed /\ Len(pending) < max_batch /\ ~late
        /\ worker' = "dozing"
        /\ UNCHANGED <<pending, batch>>
     \/ /\ ~closed /\ (Len(pending) >= max_batch \/ late)
        /\ Take
  /\ UNCHANGED <<closed, future, late, stopper>>

Timeout ==
  /\ worker = "dozing"
  /\ worker' = "window"
  /\ late' = TRUE
  /\ UNCHANGED <<pending, closed, future, batch, stopper>>

\* infer_batch returns, raises, or returns something invalid.
Infer ==
  /\ worker = "infer"
  /\ worker' = "resolve"
  /\ UNCHANGED <<pending, closed, future, late, batch, stopper>>

\* Mutant: an exception stands for the whole batch.
ResolveFirst ==
  /\ worker = "resolve"
  /\ \/ future' = [future EXCEPT ![Head(batch)] = "result"] /\ batch' = Tail(batch)
     \/ future' = [future EXCEPT ![Head(batch)] = "error"] /\ batch' = <<>>
  /\ worker' = IF batch' = <<>> THEN "look" ELSE "resolve"
  /\ UNCHANGED <<pending, closed, late, stopper>>

\* One future gets its result or its exception.
Resolve ==
  /\ worker = "resolve"
  /\ \E outcome \in {"result", "error"} :
       future' = [future EXCEPT ![Head(batch)] = outcome]
  /\ batch' = Tail(batch)
  /\ worker' = IF batch' = <<>> THEN "look" ELSE "resolve"
  /\ UNCHANGED <<pending, closed, late, stopper>>

Work == Look \/ Window \/ Timeout \/ Infer \/ Resolve

Next ==
  \/ \E c \in Callers : Submit(c) \/ Refuse(c)
  \/ Close \/ Join
  \/ Work

\* The worker runs whenever it can, its timed waits end, the model call
\* returns, and shutdown's join notices that the worker is gone.
Spec == Init /\ [][Next]_vars /\ WF_vars(Work) /\ WF_vars(Join)

-----------------------------------------------------------------------------
(* Properties.                                                             *)

TypeOK ==
  /\ pending \in Seq(Callers) /\ Len(pending) <= max_pending
  /\ batch \in Seq(Callers) /\ Len(batch) <= max_batch
  /\ closed \in BOOLEAN /\ late \in BOOLEAN
  /\ future \in [Callers -> {"none", "pending", "result", "error",
                             "server_stopping", "queue_full"}]
  /\ worker \in {"none", "look", "asleep", "window", "dozing", "infer", "resolve", "dead"}
  /\ stopper \in {"none", "join", "done"}

\* Whoever blocks on a future is owed exactly one answer, by the queue or by
\* the batch, and nobody else is: no request is dropped between the two, and no
\* future is resolved twice (which would raise and end the worker).
OwedOnce ==
  LET owed == batch \o pending
  IN  /\ Range(owed) = {c \in Callers : future[c] = "pending"}
      /\ IsInjective(owed)

\* Every accepted request is answered, full window or not, shutdown or not.
EveryRequestIsAnswered ==
  \A c \in Callers : future[c] = "pending" ~> future[c] # "pending"

\* shutdown returns, wherever it finds the worker.
ShutdownEnds == stopper = "join" ~> stopper = "done"
=============================================================================
