------------------------------ MODULE ServedSessions ------------------------------
(***************************************************************************)
(* PolicyService with the model adapters that keep memory of a session:    *)
(* DM0.5 (policies/dm05/serving.py) keeps the frames of the last steps,    *)
(* pi0.5 (policies/pi05/serving.py) the last action chunk, which real-time *)
(* chunking continues, and StreamVLN (policies/streamvln/serving.py) the   *)
(* recurrent memory of its turns.  None of it is part of the service's     *)
(* session: the two stay together only if a step is in both or in neither, *)
(* and a reset clears both, through failures, retries and closes.          *)
(*                                                                         *)
(* What a step leaves in such a memory is named by the revision that the   *)
(* step commits.  The adapter's own lock makes a call of it one step; the  *)
(* turn of a recurrent session is modelled in RecurrentEngine.             *)
(***************************************************************************)
EXTENDS PolicyService

CONSTANTS
  history_frames,  \* length of DM0.5's history
  Continuing       \* contents sent after an offset of a chunk was executed

ASSUME ServedAssumption ==
  /\ history_frames \in Nat \ {0}
  /\ Continuing \subseteq Contents

VARIABLES
  model,   \* which adapter is served
  memory   \* per session: _history_by_session, _last_model_chunk, or the
           \* recurrent memory

servedVars == <<opened, sessions, state, lock, pc, call, reply, adapter, history, model, memory>>

ServedInit ==
  /\ Init
  /\ model \in {"dm05", "pi05", "streamvln"}
  /\ memory = [s \in Sessions |-> <<>>]

\* _resolve_rtc_plan raises: the client has executed an offset of a chunk that
\* the session does not have.
PrefixIsLost(h) ==
  model = "pi05" /\ call[h].content \in Continuing /\ memory[SessionOf(h)] = <<>>

\* What infer leaves behind when it returns.  A chunk of pi0.5 is kept if it is
\* finite to its end, not only in the actions that are returned.
Kept(old, revision) ==
  CASE model = "dm05" -> {LastOf(Append(old, revision), history_frames)}
    [] model = "pi05" -> {<<revision>>, old}
    [] model = "streamvln" -> {Append(old, revision)}

ServeStep(h) ==
  /\ InferOk(h)
  /\ ~PrefixIsLost(h)
  /\ \E kept \in Kept(memory[SessionOf(h)], Response(h).revision) :
       memory' = [memory EXCEPT ![SessionOf(h)] = kept]
  /\ UNCHANGED model

\* Mutant: the frame or the chunk is kept before the results are looked at.
KeepThenFail(h) ==
  /\ AdapterFails(h)
  /\ \/ UNCHANGED memory
     \/ /\ pc[h] = "infer"
        /\ \E kept \in Kept(memory[SessionOf(h)], Response(h).revision) :
             memory' = [memory EXCEPT ![SessionOf(h)] = kept]
  /\ UNCHANGED model

\* The request is invalid, the model raises, or its result is refused: all of
\* it before anything is kept.
ServeFails(h) == AdapterFails(h) /\ UNCHANGED <<model, memory>>

\* reset of each adapter: the entry of the session is dropped.
ServeReset(h) ==
  /\ ResetOk(h) \/ CloseOk(h)
  /\ memory' = [memory EXCEPT ![SessionOf(h)] = <<>>]
  /\ UNCHANGED model

\* The parts of the service that call no adapter.
ServeRequest(h) ==
  /\ \/ \E c \in Call : Receive(h, c)
     \/ EnterStep(h) \/ EnterReset(h) \/ EnterClose(h)
  /\ UNCHANGED <<model, memory>>

ServedNext ==
  \/ \E s \in Sessions : Open(s) /\ UNCHANGED <<model, memory>>
  \/ \E h \in Handlers : ServeRequest(h) \/ ServeStep(h) \/ ServeFails(h) \/ ServeReset(h)

ServedSpec == ServedInit /\ [][ServedNext]_servedVars

-----------------------------------------------------------------------------
(* Properties.                                                             *)

\* The revisions that committed the steps of the episode under way.
EpisodeOf(s) ==
  LET steps == LastOf(history[s], state[s].next_step_id)
  IN  [n \in DOMAIN steps |-> steps[n].revision]

\* The memory of a session is that of the steps its service has committed in
\* this episode: no frame of a failed attempt or of an earlier episode, none
\* twice, none missing, and no memory of a session that is closed.
MemoryFollowsEpisode ==
  \A s \in Sessions :
    IF s \in sessions
    THEN CASE model = "dm05" -> memory[s] = LastOf(EpisodeOf(s), history_frames)
           [] model = "pi05" -> Len(memory[s]) <= 1 /\ Range(memory[s]) \subseteq Range(EpisodeOf(s))
           [] model = "streamvln" -> memory[s] = EpisodeOf(s)
    ELSE memory[s] = <<>>
=============================================================================
