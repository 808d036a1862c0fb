---------------------------- MODULE StreamHistory ----------------------------
(***************************************************************************)
(* The frame history of a StreamVLN episode (policies/streamvln):          *)
(* which frames a slow-memory window selects, which frames keep their      *)
(* visual features, and how prepare_prefix moves an episode's memory to    *)
(* the next model request.  A request may bring several primitive frames,  *)
(* the last of which is the current one, so it may jump over the first     *)
(* frame of a window.                                                      *)
(*                                                                         *)
(* A feature tensor is abstracted to whether it was kept: features[k + 1]  *)
(* is TRUE iff the features of frame k are there and FALSE where the code  *)
(* holds None.                                                             *)
(***************************************************************************)
EXTENDS Integers, Sequences

CONSTANTS window_size,      \* frames of one window of the fast cache
          num_history       \* frames a window's slow memory selects

(* StreamVLNProcessor.__init__ refuses any other profile. *)
ASSUME ProfileAssumption ==
  /\ window_size \in Nat \ {0}
  /\ num_history \in Nat \ {0}
  /\ num_history <= window_size

(* The frames the slow memory selects at step_id: range(0, step_id, stride) *)
(* cut to num_history.  The stride is at most step_id / num_history, so the *)
(* range is never the shorter of the two.                                   *)
slow_frame_indices(step_id) ==
  IF step_id <= 0 \/ step_id % window_size # 0
  THEN <<>>
  ELSE [k \in 1..num_history |-> (k - 1) * (step_id \div num_history)]

(* Whether the features of frame step_id are kept for a later window. *)
retains_history_feature(step_id) ==
  \/ window_size % num_history # 0
  \/ step_id % (window_size \div num_history) = 0

(* The memory of an episode that has not started. *)
NoHistory == [step_id |-> 0, features |-> <<>>, slow |-> <<>>]

(* A request whose current frame is stream_step starts a window if no frame *)
(* is committed yet or the last committed frame was in an earlier window.   *)
StartsWindow(committed, stream_step) ==
  \/ committed.step_id = 0
  \/ stream_step \div window_size > (committed.step_id - 1) \div window_size

(* process: a window that starts past its boundary frame still uses the     *)
(* selection of the boundary.                                               *)

(* Mutant: the selection of the current frame instead of the boundary's. *)
SelectAtFrame(committed, stream_step) ==
  IF StartsWindow(committed, stream_step)
  THEN slow_frame_indices(stream_step) ELSE <<>>

SlowSelection(committed, stream_step) ==
  IF StartsWindow(committed, stream_step)
  THEN slow_frame_indices((stream_step \div window_size) * window_size)
  ELSE <<>>

(* prepare_prefix with frames new frames, the last of them the current one: *)
(* the frames before it are added to the history, with their features where *)
(* they are retained.  A window that starts drops the fast cache.           *)
Prepare(committed, frames) ==
  LET stream_step == committed.step_id + frames - 1
  IN  [step_id  |-> stream_step,
       features |-> committed.features
                      \o [k \in 1..frames - 1 |->
                            retains_history_feature(committed.step_id + k - 1)],
       slow     |-> SlowSelection(committed, stream_step),
       window_start |-> StartsWindow(committed, stream_step)]

(* _selected_history_features raises unless every selected frame kept its   *)
(* features.                                                                *)
Selectable(prepared) ==
  \A k \in DOMAIN prepared.slow :
    /\ prepared.slow[k] + 1 \in DOMAIN prepared.features
    /\ prepared.features[prepared.slow[k] + 1]

(* The history after the request: the current frame is one more committed   *)
(* frame, and the selection stands until the next window.                   *)
Advance(prepared, committed) ==
  [step_id  |-> prepared.step_id + 1,
   features |-> Append(prepared.features,
                       retains_history_feature(prepared.step_id)),
   slow     |-> IF prepared.slow = <<>> THEN committed.slow ELSE prepared.slow]
==============================================================================
