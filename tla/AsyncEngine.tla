------------------------------- MODULE AsyncEngine -------------------------------
(***************************************************************************)
(* engine/async_engine.py: continuous batching over one EngineCore.        *)
(* Coroutines queue a request with a future and await it.  One loop task   *)
(* collects a window of requests, has an executor thread run it, and       *)
(* resolves the futures; pipelined, a window is only prefilled (staged)    *)
(* when it is run, and denoised together with the prefill of the next one, *)
(* or by a flush when no next one comes.  All but the run itself happens   *)
(* on one event loop: an action is what runs between two awaits.           *)
(*                                                                         *)
(* A request and its future have one name.  The core is external: it       *)
(* answers the rows of a batch in order, or raises for all of it.  Its     *)
(* captured graphs have one set of input and output buffers, which nothing *)
(* guards: two runs that decode with them at once may mix their rows.      *)
(* raced is a history variable: it only records which requests were so run.*)
(***************************************************************************)
EXTENDS Naturals, SequencesExt

CONSTANTS
  Requests,        \* the calls of generate
  max_batch_size,
  CollateFails,    \* whether policy.collate may reject a window
  MaxStops         \* bound: how often somebody calls stop, and start again

ASSUME AsyncAssumption ==
  /\ max_batch_size \in Nat \ {0}
  /\ CollateFails \in BOOLEAN /\ MaxStops \in Nat

VARIABLES
  pipeline,   \* the engine's mode, fixed when it is made
  graphs,     \* whether its core decodes with captured graphs
  queue,      \* _queue
  future,     \* per request: its future
  task,       \* _loop_task: "none", "running", or "dead" once it has raised
  at,         \* what the loop awaits
  window,     \* the requests the loop has taken from the queue
  staged,     \* the requests of the window that is prefilled
  prev_futs,  \* the futures that go with staged
  dropped,    \* the requests that a stop has taken from a running loop
  stops,      \* how often stop was called
  left,       \* how many decoding runs, of stopped loops, the executor is still at
  raced       \* the requests decoded on the buffers of the graphs beside such a run

mode == <<pipeline, graphs>>
runs == <<left, raced>>
vars == <<mode, queue, future, task, at, window, staged, prev_futs, dropped, stops, runs>>

NotMade == [st |-> "none"]
Pending == [st |-> "pending"]
Failed == [st |-> "error"]
Given == [st |-> "cancelled"]  \* the caller has given up waiting

\* The answer the core computes for request r.
Answer(r) == [st |-> "result", of |-> r]

\* What it computes of rows of two runs.
Mixed == [st |-> "result", of |-> "mixed"]

Init ==
  /\ pipeline \in BOOLEAN /\ graphs \in BOOLEAN
  /\ queue = <<>>
  /\ future = [r \in Requests |-> NotMade]
  /\ task = "none" /\ at = "first"
  /\ window = <<>> /\ staged = <<>> /\ prev_futs = <<>>
  /\ dropped = {} /\ stops = 0
  /\ left = 0 /\ raced = {}

-----------------------------------------------------------------------------
(* The callers.                                                            *)

\* generate, up to awaiting the future.
Generate(r) ==
  /\ future[r] = NotMade
  /\ future' = [future EXCEPT ![r] = Pending]
  /\ queue' = Append(queue, r)
  /\ UNCHANGED <<mode, task, at, window, staged, prev_futs, dropped, stops, runs>>

\* The task that awaits generate is cancelled, and the future with it.
GiveUp(r) ==
  /\ future[r] = Pending
  /\ future' = [future EXCEPT ![r] = Given]
  /\ UNCHANGED <<mode, queue, task, at, window, staged, prev_futs, dropped, stops, runs>>

Start ==
  /\ task = "none"
  /\ task' = "running" /\ at' = "first"
  /\ UNCHANGED <<mode, queue, future, window, staged, prev_futs, dropped, stops, runs>>

\* The rows that the run under way decodes: it prefills eagerly, outside the
\* graphs.
Decoding == IF pipeline THEN staged ELSE window

\* The loop is cancelled in whatever it awaits, and forgets what it has taken.
\* That ends its await of the executor but not the run, which goes on in its
\* thread with nobody to hear of its answers.
Stop ==
  /\ stops < MaxStops
  /\ stops' = stops + 1
  /\ task = "running"
  /\ task' = "none"
  /\ dropped' = dropped \cup Range(window) \cup Range(prev_futs)
  /\ window' = <<>> /\ staged' = <<>> /\ prev_futs' = <<>>
  /\ left' = IF at \in {"run", "flush"} /\ Decoding # <<>> THEN left + 1 ELSE left
  /\ UNCHANGED <<mode, queue, future, at, raced>>

\* The executor is done with a run that a stop has left to it.
LeftRunReturns ==
  /\ left > 0
  /\ left' = left - 1
  /\ UNCHANGED <<mode, queue, future, task, at, window, staged, prev_futs, dropped, stops, raced>>

-----------------------------------------------------------------------------
(* Futures.  One that is done already is left alone.                       *)

\* The futures after the n-th of futs gets the n-th of values.
Resolved(futs, values) ==
  [r \in Requests |->
     IF future[r] = Pending /\ \E n \in DOMAIN values : futs[n] = r
     THEN values[CHOOSE n \in DOMAIN values : futs[n] = r] ELSE future[r]]

\* _set: the answers of a batch, by position, of which some are mixed, and _fail.
Set(futs, batch, mixed) ==
  Resolved(futs, [n \in DOMAIN futs \cap DOMAIN batch |->
                    IF batch[n] \in mixed THEN Mixed ELSE Answer(batch[n])])

Fail(futs) == Resolved(futs, [n \in DOMAIN futs |-> Failed])

-----------------------------------------------------------------------------
(* The loop.                                                               *)

Awaits(label) == task = "running" /\ at = label

\* The first request of a window.
First ==
  /\ Awaits("first")
  /\ queue # <<>>
  /\ window' = <<Head(queue)>>
  /\ queue' = Tail(queue)
  /\ at' = "collect"
  /\ UNCHANGED <<mode, future, task, staged, prev_futs, dropped, stops, runs>>

\* _collect_window: another request within max_wait_ms.
Collect ==
  /\ Awaits("collect")
  /\ Len(window) < max_batch_size
  /\ queue # <<>>
  /\ window' = Append(window, Head(queue))
  /\ queue' = Tail(queue)
  /\ UNCHANGED <<mode, future, task, at, staged, prev_futs, dropped, stops, runs>>

\* The executor begins a run, beside those it was left with.
RunBegins ==
  /\ raced' = IF graphs /\ left > 0 THEN raced \cup Range(Decoding) ELSE raced
  /\ UNCHANGED left

\* The window is full or its time is up: it is collated and handed to the
\* executor.  An exception of collate ends the loop task.
Dispatch ==
  /\ Awaits("collect")
  /\ \/ at' = "run" /\ RunBegins /\ UNCHANGED task
     \/ CollateFails /\ task' = "dead" /\ UNCHANGED <<at, runs>>
  /\ UNCHANGED <<mode, queue, future, window, staged, prev_futs, dropped, stops>>

\* _execute.
RunWhole ==
  /\ ~pipeline /\ Awaits("run")
  /\ \/ \E mixed \in SUBSET raced : future' = Set(window, window, mixed)
     \/ future' = Fail(window)
  /\ window' = <<>> /\ at' = "first"
  /\ UNCHANGED <<mode, queue, task, staged, prev_futs, dropped, stops, runs>>

\* Mutant: the actions of the staged window go to the futures of the new one.
RunStagedSwapped ==
  /\ pipeline /\ Awaits("run")
  /\ future' = IF staged = <<>> THEN future ELSE Set(window, staged, {})
  /\ staged' = window /\ prev_futs' = window
  /\ window' = <<>> /\ at' = "first"
  /\ UNCHANGED <<mode, queue, task, dropped, stops, runs>>

\* Mutant: an exception is only told to the window that was being prefilled.
RunStagedForgets ==
  /\ pipeline /\ Awaits("run")
  /\ \/ /\ \E mixed \in SUBSET raced : future' = Set(prev_futs, staged, mixed)
        /\ staged' = window /\ prev_futs' = window
     \/ /\ future' = Fail(window)
        /\ staged' = <<>> /\ prev_futs' = <<>>
  /\ window' = <<>> /\ at' = "first"
  /\ UNCHANGED <<mode, queue, task, dropped, stops, runs>>

\* _pipeline_step: the staged window is denoised and answered, the new one is
\* prefilled; an exception is the answer to both.
RunStaged ==
  /\ pipeline /\ Awaits("run")
  /\ \/ /\ \E mixed \in SUBSET raced : future' = Set(prev_futs, staged, mixed)
        /\ staged' = window /\ prev_futs' = window
     \/ /\ future' = Fail(window \o prev_futs)
        /\ staged' = <<>> /\ prev_futs' = <<>>
  /\ window' = <<>> /\ at' = "first"
  /\ UNCHANGED <<mode, queue, task, dropped, stops, runs>>

\* Nothing new within max_wait_ms: the staged window is denoised alone.
FlushBegins ==
  /\ Awaits("first")
  /\ staged # <<>>
  /\ at' = "flush" /\ RunBegins
  /\ UNCHANGED <<mode, queue, future, task, window, staged, prev_futs, dropped, stops>>

Flush ==
  /\ Awaits("flush")
  /\ \/ \E mixed \in SUBSET raced : future' = Set(prev_futs, staged, mixed)
     \/ future' = Fail(prev_futs)
  /\ staged' = <<>> /\ prev_futs' = <<>> /\ at' = "first"
  /\ UNCHANGED <<mode, queue, task, window, dropped, stops, runs>>

Loop == First \/ Collect \/ Dispatch \/ RunWhole \/ RunStaged \/ FlushBegins \/ Flush

Next ==
  \/ \E r \in Requests : Generate(r) \/ GiveUp(r)
  \/ Start \/ Stop \/ LeftRunReturns
  \/ Loop

\* start is called; the event loop runs the loop task, and the core returns.
Spec == Init /\ [][Next]_vars /\ WF_vars(Loop) /\ WF_vars(Start)

-----------------------------------------------------------------------------
(* Properties.                                                             *)

TypeOK ==
  /\ task \in {"none", "running", "dead"}
  /\ at \in {"first", "collect", "run", "flush"}
  /\ Range(queue) \cup Range(window) \cup Range(prev_futs) \cup dropped \subseteq Requests
  /\ Len(window) <= max_batch_size
  /\ \A r \in Requests : future[r].st \in {"none", "pending", "result", "error", "cancelled"}

\* Whoever awaits is owed one answer by exactly one place: the queue, the
\* window, the staged window, or what a stop has taken away.  A failing run, a
\* flush or a caller that gives up loses nobody else.
OwedOnce ==
  LET owed == queue \o window \o prev_futs
  IN  /\ \A r \in Requests : future[r] = Pending => r \in Range(owed) \cup dropped
      /\ \A r \in Range(owed) : future[r] \in {Pending, Given} /\ r \notin dropped
      /\ IsInjective(owed)

\* An answer is that of the caller's own observation, in either mode and after
\* any failure of an earlier window, any stop and any start.  The one exception:
\* a core with graphs, a loop that was stopped during a run and one that decoded
\* the request before that run was over.
OwnAnswer ==
  \A r \in Requests :
    future[r].st = "result" => future[r].of = r \/ (graphs /\ stops > 0 /\ r \in raced)

\* "Submit one observation; returns when its batch has been executed": every
\* request is answered, whatever becomes of the others, unless a stop has taken
\* it away.
EveryRequestIsAnswered ==
  \A r \in Requests : future[r] = Pending ~> future[r] # Pending \/ r \in dropped
=============================================================================
