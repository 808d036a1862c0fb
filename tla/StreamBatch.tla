----------------------------- MODULE StreamBatch -----------------------------
(***************************************************************************)
(* StreamVLNBatchedRuntime (policies/streamvln/batching.py): one call of   *)
(* infer answers a turn of up to batch_size episodes in the rows of one    *)
(* key/value arena, decodes each answer by verifying draft trees, and      *)
(* returns private memories whose key/value cache the caller may replay,   *)
(* reorder or fork at will.                                                *)
(*                                                                         *)
(* Two shortcuts make this hard.  A row is not reloaded when the memory    *)
(* of the turn is the one the row computed last (resident), and a turn's   *)
(* cache is appended to the storage of the memory it continues when that   *)
(* memory is the latest user of it (_commit).  Both must survive failures  *)
(* in the middle of a call, relocation of the rows and forks.              *)
(*                                                                         *)
(* A key/value cell is abstracted to the turn and the token it was         *)
(* computed for; text records, for each memory, the cells a runtime        *)
(* without shortcuts would hold (a history variable).  The weights, the    *)
(* sampled tokens and the graph cache are left out, and the switches that  *)
(* turn off incremental commits or draft trees.  The lock of the           *)
(* runtime is pc # "idle": a call that finds it held raises and changes    *)
(* nothing.                                                                *)
(***************************************************************************)
EXTENDS StreamHistory, FiniteSets

CONSTANTS batch_size,       \* rows of the arena
          capacity,         \* workspace_tokens: the most one episode may hold
          pool_tokens,      \* cells of the arena
          dynamic_pool,     \* rows are laid out on demand (kv_pool_tokens)
          page,             \* rows are rounded up to this size (256 in the code)
          max_new_tokens,   \* tokens of one answer
          tree_width,       \* nodes of one draft tree; 1 without tree_decode
          StartSizes,       \* prompt tokens of a turn that starts a window
          turn_size,        \* prompt tokens of any other turn
          Frames,           \* how many new frames a request may bring
          Answers,          \* the lengths at which an answer ends with an end token
          MaxCalls,         \* bound on the calls of infer
          MaxMemories,      \* bound on the memories returned
          MaxFailures       \* bound on the calls that fail

ASSUME BatchAssumption ==
  /\ batch_size \in Nat \ {0} /\ capacity \in Nat \ {0}
  /\ pool_tokens \in capacity..(batch_size * capacity)
  /\ dynamic_pool \in BOOLEAN
  /\ ~dynamic_pool => pool_tokens = batch_size * capacity
  /\ {page, max_new_tokens, tree_width, turn_size} \subseteq Nat \ {0}
  /\ Frames \subseteq Nat \ {0} /\ StartSizes \subseteq Nat \ {0}
  /\ Answers \subseteq Nat \ {0}
  /\ MaxCalls \in Nat /\ MaxMemories \in Nat /\ MaxFailures \in Nat

VARIABLES memories,     \* every memory returned to a caller, oldest first
          storages,     \* the key/value storage of the memories
          arena,        \* the scratch cells the rows are laid out in
          starts, capacities,  \* the layout of the rows
          resident,     \* the memory each row computed last, 0 for None
          previous,     \* resident as it was when the call took it
          pc,           \* the phase of the call in flight
          turns,        \* the rows of the call in flight
          calls,        \* how many calls were made
          failures      \* how many of them failed

vars == <<memories, storages, arena, starts, capacities, resident, previous,
          pc, turns, calls, failures>>

Rows  == 1..batch_size
Junk  == <<0, 0, 0>>
Cells == Nat \X Nat \X Nat
Cell(i, k) == <<calls, i, k>>          \* token k of the turn in row i
Nothing == [i \in Rows |-> 0]

(* The key/value prefix a memory stands for, and the first n cells of a row. *)
Held(m) == [p \in 1..m.seq_len |-> storages[m.storage][p]]
RowPrefix(i, n) == [p \in 1..n |-> arena[starts[i] + p]]

(* _commit takes the least power of two that holds n tokens, at most        *)
(* capacity: the one power of two from n on that is less than twice n.     *)
StorageCapacity(n) ==
  LET roomy == {c \in n..capacity : c < 2 * n /\ \E k \in 0..capacity : c = 2 ^ k}
  IN  IF roomy = {} THEN capacity ELSE CHOOSE c \in roomy : TRUE

Count == Len(turns)
BaseOf(t) == IF t.base = 0 THEN <<>> ELSE memories[t.base].text
Start(t) == IF t.base = 0 THEN 0 ELSE memories[t.base].seq_len
Position(t) == Start(t) + t.prefilled + t.ids

(* What the rows of a turn and its memory must hold. *)
TextOf(i) == BaseOf(turns[i])
               \o [k \in 1..turns[i].prefilled + turns[i].ids |-> Cell(i, k)]

Init ==
  /\ memories = <<>> /\ storages = <<>>
  /\ arena = [p \in 1..pool_tokens |-> Junk]
  /\ starts = [i \in Rows |-> (i - 1) * capacity]
  /\ capacities = [i \in Rows |-> IF dynamic_pool THEN 0 ELSE capacity]
  /\ resident = Nothing /\ previous = Nothing
  /\ pc = "idle" /\ turns = <<>> /\ calls = 0 /\ failures = 0

----------------------------------------------------------------------------
(* The phases of infer. *)

(* A turn of the memory m (0: a new episode) that brings frames new frames, *)
(* in a prompt of start_size tokens if it starts a window.                  *)
Turn(m, frames, start_size) ==
  LET committed == IF m = 0 THEN NoHistory ELSE memories[m]
      prepared  == Prepare(committed, frames)
  IN  [memory |-> m, frames |-> frames, step_id |-> prepared.step_id,
       features |-> prepared.features, slow |-> prepared.slow,
       window_start |-> prepared.window_start,
       size |-> IF prepared.window_start THEN start_size ELSE turn_size,
       base |-> IF prepared.window_start THEN 0 ELSE m,
       prefilled |-> 0, ids |-> 0, answer |-> 0, done |-> FALSE,
       storage |-> 0]

(* The lock is taken and the turns are prepared. *)
Begin ==
  /\ pc = "idle" /\ calls < MaxCalls
  /\ \E n \in Rows :
       /\ Len(memories) + n <= MaxMemories
       /\ \E ms \in [1..n -> 0..Len(memories)], frames \in [1..n -> Frames],
             sizes \in [1..n -> StartSizes] :
            turns' = [i \in 1..n |-> Turn(ms[i], frames[i], sizes[i])]
  /\ pc' = "prepared" /\ calls' = calls + 1
  /\ UNCHANGED <<memories, storages, arena, starts, capacities, resident, previous,
                 failures>>

(* Any exception of a call, a cancellation among them: no row is trusted. *)
Fail ==
  /\ pc # "idle" /\ failures < MaxFailures
  /\ failures' = failures + 1
  /\ resident' = Nothing /\ previous' = Nothing
  /\ turns' = <<>> /\ pc' = "idle"
  /\ UNCHANGED <<memories, storages, arena, starts, capacities, calls>>

(* The features are encoded and the slow memory is gathered.  A turn whose *)
(* prompt and answer may not fit the workspace fails the call.             *)
Required(t) == Start(t) + t.size + max_new_tokens

Encode ==
  /\ pc = "prepared"
  /\ \A i \in 1..Count : Selectable(turns[i]) /\ Required(turns[i]) <= capacity
  /\ pc' = "encoded"
  /\ UNCHANGED <<memories, storages, arena, starts, capacities, resident,
                 previous, turns, calls, failures>>

(* _plan_rows: rows that are too small are laid out anew, in pages if that *)
(* fits the pool, and every row has to be loaded again.                    *)
SumOf(f, n) ==
  LET sum[k \in 0..n] == IF k = 0 THEN 0 ELSE sum[k - 1] + f[k] IN sum[n]

Needed(i) == IF i <= Count THEN Required(turns[i]) ELSE 1
Roomy == \A i \in Rows : Needed(i) <= capacities[i]
Paged == LET up(n) == ((n + page - 1) \div page) * page
         IN  [i \in Rows |-> IF up(Needed(i)) < capacity THEN up(Needed(i)) ELSE capacity]
Tight == [i \in Rows |-> Needed(i)]
Layout == LET paged == Paged
          IN  IF SumOf(paged, batch_size) <= pool_tokens THEN paged ELSE Tight

Keep == UNCHANGED <<starts, capacities>> /\ previous' = resident

(* Mutant: the rows move, and the residents are believed to be in them. *)
RelocateResidents ==
  LET layout == Layout
  IN  /\ SumOf(layout, batch_size) <= pool_tokens
      /\ capacities' = layout
      /\ starts' = [i \in Rows |-> SumOf(layout, i - 1)]
      /\ previous' = resident

Relocate ==
  LET layout == Layout
  IN  /\ SumOf(layout, batch_size) <= pool_tokens
      /\ capacities' = layout
      /\ starts' = [i \in Rows |-> SumOf(layout, i - 1)]
      /\ previous' = Nothing

Plan ==
  /\ pc = "encoded"
  /\ \/ (~dynamic_pool \/ Roomy) /\ Keep
     \/ dynamic_pool /\ ~Roomy /\ Relocate
  /\ resident' = Nothing
  /\ pc' = "planned"
  /\ UNCHANGED <<memories, storages, arena, turns, calls, failures>>

(* A row that is not resident is loaded from the memory of its turn. *)
Imports(i) == turns[i].base # 0 /\ previous[i] # turns[i].memory

(* The arena after cells(i)[k] is written at position from[i] + k of every *)
(* row i of some rows, for k from 1 to the number of cells of that row.     *)
Written(rows, from, cells) ==
  LET at == [i \in rows |-> starts[i] + from[i]]
  IN  [p \in 1..pool_tokens |->
         IF \E i \in rows : p - at[i] \in DOMAIN cells[i]
         THEN LET i == CHOOSE i \in rows : p - at[i] \in DOMAIN cells[i]
              IN  cells[i][p - at[i]]
         ELSE arena[p]]

Load ==
  /\ pc = "planned"
  /\ LET rows == {i \in 1..Count : Imports(i)}
     IN  arena' = Written(rows, [i \in rows |-> 0],
                          [i \in rows |-> Held(memories[turns[i].base])])
  /\ pc' = "loaded"
  /\ UNCHANGED <<memories, storages, starts, capacities, resident, previous,
                 turns, calls, failures>>

(* The prompts of all rows run; the model's answer is from here on fixed:  *)
(* answer is the length at which it ends with an end token, beyond         *)
(* max_new_tokens if it does not.                                          *)
Prefill ==
  /\ pc = "loaded"
  /\ arena' = Written(1..Count, [i \in 1..Count |-> Start(turns[i])],
                      [i \in 1..Count |-> [k \in 1..turns[i].size |-> Cell(i, k)]])
  /\ \E answers \in [1..Count -> Answers] :
        turns' = [i \in 1..Count |->
                    [turns[i] EXCEPT !.prefilled = turns[i].size,
                                     !.answer = answers[i]]]
  /\ pc' = "decoding"
  /\ UNCHANGED <<memories, storages, starts, capacities, resident, previous,
                 calls, failures>>

(* One block of _decode.  The tree of a row holds the pending token as     *)
(* node 0; the nodes that agree with the model's own answer form a branch  *)
(* of increasing nodes (parents precede their children), the rest are      *)
(* candidates the model refuses.                                           *)
Live == {i \in 1..Count : ~turns[i].done}
Room(i) == capacities[i] - Position(turns[i])

(* A block is as wide as the narrowest of the tree and the rows allow. *)
IsWidth(width) ==
  /\ \A i \in Live : width <= Room(i)
  /\ width = tree_width \/ \E i \in Live : width = Room(i)

Branches == [width \in 1..tree_width |->
  {b \in UNION {[1..n -> 0..width - 1] : n \in 1..width} :
     /\ b[1] = 0
     /\ \A k \in 2..Len(b) : b[k - 1] < b[k]}]

(* Along the branch tokens are accepted up to the end token or the limit. *)
Smaller(a, b) == IF a <= b THEN a ELSE b
(* Mutant: the limit on the tokens of an answer is not looked at. *)
AcceptAll(t, b) == Smaller(Len(b), t.answer - t.ids)
Accepted(t, b) == Smaller(Len(b), Smaller(t.answer, max_new_tokens) - t.ids)

(* The cell of node j, and what commit_tree_path leaves at offset j when it *)
(* gathers the accepted path to the front of the block.  What the block     *)
(* leaves behind the path is not told apart from the refused candidates.    *)
Node(i, b, j) ==
  IF \E k \in DOMAIN b : b[k] = j
  THEN Cell(i, turns[i].prefilled + turns[i].ids + CHOOSE k \in DOMAIN b : b[k] = j)
  ELSE Junk
Compacted(i, b, j) ==
  IF j < Accepted(turns[i], b) THEN Node(i, b, b[j + 1]) ELSE Junk

Grown(t, b) ==
  LET ids == t.ids + Accepted(t, b)
  IN  [t EXCEPT !.ids = ids, !.done = ids = t.answer \/ ids = max_new_tokens]

Block ==
  /\ pc = "decoding" /\ Live # {}
  /\ \E width \in 1..tree_width :
       /\ IsWidth(width)
       /\ \E branch \in [Live -> Branches[width]] :
            /\ arena' = Written(Live, [i \in Live |-> Position(turns[i])],
                         [i \in Live |-> [k \in 1..width |->
                                          Compacted(i, branch[i], k - 1)]])
            /\ turns' = [i \in 1..Count |-> IF i \in Live
                                            THEN Grown(turns[i], branch[i])
                                            ELSE turns[i]]
  /\ UNCHANGED <<memories, storages, starts, capacities, resident, previous,
                 pc, calls, failures>>

(* Only the latest memory of a row, used by one turn, lends the storage it *)
(* has left; any other turn gets storage of its own.                       *)

(* Mutant: the memory may be the latest of any row. *)
ReusableAnywhere(i) == \E j \in Rows : previous[j] = turns[i].memory

Reusable(i) ==
  /\ previous[i] = turns[i].memory
  /\ Cardinality({j \in 1..Count : turns[j].memory = turns[i].memory}) = 1

Lends(i) ==
  /\ turns[i].base # 0 /\ Reusable(i)
  /\ Position(turns[i]) <= Len(storages[memories[turns[i].base].storage])

(* _commit of row i, in the order of the rows. *)
Commit(i) ==
  /\ pc = "decoding" /\ Live = {}
  /\ turns[i].storage = 0 /\ \A j \in 1..i - 1 : turns[j].storage # 0
  /\ LET n == Position(turns[i])
         lent == memories[turns[i].base].storage
     IN  \/ /\ Lends(i)
            /\ storages' = [storages EXCEPT ![lent] =
                 [p \in DOMAIN @ |-> IF p \in Start(turns[i]) + 1..n
                                     THEN arena[starts[i] + p] ELSE @[p]]]
            /\ turns' = [turns EXCEPT ![i].storage = lent]
         \/ /\ ~Lends(i)
            /\ storages' = Append(storages,
                 [p \in 1..StorageCapacity(n) |->
                    IF p <= n THEN arena[starts[i] + p] ELSE Junk])
            /\ turns' = [turns EXCEPT ![i].storage = Len(storages) + 1]
  /\ UNCHANGED <<memories, arena, starts, capacities, resident, previous,
                 pc, calls, failures>>

(* Every row is committed: the memories go to the caller and are resident. *)
MemoryOf(i) ==
  LET t == turns[i]
      history == Advance(t, IF t.memory = 0 THEN NoHistory ELSE memories[t.memory])
  IN  [storage |-> t.storage, seq_len |-> Position(t), text |-> TextOf(i),
       step_id |-> history.step_id, features |-> history.features,
       slow |-> history.slow]

Return ==
  /\ pc = "decoding" /\ \A i \in 1..Count : turns[i].storage # 0
  /\ memories' = memories \o [i \in 1..Count |-> MemoryOf(i)]
  /\ resident' = [i \in Rows |-> IF i <= Count THEN Len(memories) + i ELSE 0]
  /\ previous' = Nothing
  /\ turns' = <<>> /\ pc' = "idle"
  /\ UNCHANGED <<storages, arena, starts, capacities, calls, failures>>

Step ==
  \/ Fail \/ Encode \/ Plan \/ Load \/ Prefill \/ Block
  \/ \E i \in Rows : i <= Count /\ Commit(i)
  \/ Return

Next == Begin \/ Step

Spec == Init /\ [][Next]_vars

----------------------------------------------------------------------------
(* Properties. *)

(* Every memory ever returned still holds, cell by cell, what its episode  *)
(* computed: whichever memory is replayed, reordered or forked, and        *)
(* wherever a later call fails, no other turn writes into its prefix.      *)
MemoriesKeepTheirText == \A m \in 1..Len(memories) : Held(memories[m]) = memories[m].text

(* What a row computes on is its own episode: from the load on, the row    *)
(* holds the text of its turn, and a resident memory is still in its row   *)
(* when the next call skips the load.                                      *)
RowsHoldTheirContext ==
  /\ pc \in {"loaded", "decoding"} =>
       \A i \in 1..Count : RowPrefix(i, Position(turns[i])) = TextOf(i)
  /\ \A i \in Rows : resident[i] # 0 =>
       RowPrefix(i, memories[resident[i]].seq_len) = memories[resident[i]].text

(* A window that starts after the first one, at whatever frame of it, uses *)
(* a full slow memory and finds the features of every frame it selects.    *)
SlowMemoryIsComplete ==
  \A i \in 1..Count :
    /\ Selectable(turns[i])
    /\ turns[i].window_start /\ turns[i].step_id >= window_size =>
         Len(turns[i].slow) = num_history

(* The room planned for a row is enough for its longest answer, and no     *)
(* draft takes a row past the end of the answer: decoding never finds a row *)
(* full, and no cell is computed for a token that is not in the answer.     *)
DecodeStaysInBounds ==
  pc = "decoding" =>
    \A i \in 1..Count :
      /\ ~turns[i].done => Room(i) >= 1
      /\ turns[i].ids <= turns[i].answer /\ turns[i].ids <= max_new_tokens
==============================================================================
