-------------------------- MODULE Transports_proofs --------------------------
(***************************************************************************)
(* Proofs about BatchedAdapter and about Transports, the servers in front  *)
(* of it, for any finite sets of callers and peers, any batch and queue    *)
(* sizes and any number of permits.                                        *)
(***************************************************************************)
EXTENDS Transports, FiniteSetTheorems, SequenceTheorems, TLAPS

(***************************************************************************)
(* The batched adapter.                                                    *)
(***************************************************************************)

Queued(s, c) == \E i \in 1..Len(s) : s[i] = c
NoRepeat(s) == \A i, j \in 1..Len(s) : s[i] = s[j] => i = j

(* Nobody is twice in the queue or the batch, or in both, and who is in    *)
(* one of them blocks on a future.                                         *)
QueueInv ==
  /\ NoRepeat(batch) /\ NoRepeat(pending)
  /\ \A c \in Callers : ~(Queued(batch, c) /\ Queued(pending, c))
  /\ \A c \in Callers : future[c] = "pending" <=> Queued(batch, c) \/ Queued(pending, c)

(* The worker holds a batch from taking it to its last answer, opens a     *)
(* window over a queue that only a shutdown empties, and shutdown leaves   *)
(* nothing queued.                                                         *)
WorkerInv ==
  /\ worker \in {"infer", "resolve"} <=> batch # <<>>
  /\ worker \in {"window", "dozing"} /\ ~closed => pending # <<>>
  /\ closed => pending = <<>>

AdapterInv == TypeOK /\ QueueInv /\ WorkerInv

(* Nobody is in the empty queue.                                           *)
LEMMA NobodyQueued == NoRepeat(<<>>) /\ \A c : ~Queued(<<>>, c)
<1>1. 1..Len(<<>>) = {}
  BY EmptySeq
<1> QED BY <1>1 DEF NoRepeat, Queued

(* A newcomer at the end of a line.                                        *)
LEMMA AppendQueues ==
  ASSUME NEW S, NEW s \in Seq(S), NEW x \in S, NoRepeat(s), ~Queued(s, x)
  PROVE  /\ NoRepeat(Append(s, x))
         /\ \A y : Queued(Append(s, x), y) <=> Queued(s, y) \/ y = x
<1> DEFINE q == Append(s, x)
<1>1. /\ Len(s) \in Nat /\ Len(q) = Len(s) + 1 /\ q[Len(s) + 1] = x
      /\ \A i \in 1..Len(s) : q[i] = s[i]
  BY AppendProperties, LenProperties
<1> HIDE DEF q
<1>2. 1..Len(q) = (1..Len(s)) \cup {Len(s) + 1}
  BY <1>1
<1>3. \A y : Queued(q, y) <=> Queued(s, y) \/ y = x
  BY <1>1, <1>2 DEF Queued
<1>4. NoRepeat(q)
  BY <1>1, <1>2 DEF NoRepeat, Queued
<1> QED BY <1>3, <1>4 DEF q

(* The first leaves the line.                                              *)
LEMMA TailQueues ==
  ASSUME NEW S, NEW s \in Seq(S), s # <<>>, NoRepeat(s)
  PROVE  /\ Head(s) \in S /\ Tail(s) \in Seq(S) /\ Len(Tail(s)) = Len(s) - 1 /\ Queued(s, Head(s))
         /\ NoRepeat(Tail(s))
         /\ \A x : Queued(Tail(s), x) <=> Queued(s, x) /\ x # Head(s)
<1> DEFINE h == Head(s)
           t == Tail(s)
<1>1. /\ Len(s) \in Nat \ {0} /\ h = s[1] /\ h \in S /\ t \in Seq(S) /\ Len(t) = Len(s) - 1
      /\ \A i \in 1..Len(s) - 1 : t[i] = s[i + 1]
  BY EmptySeq, HeadTailProperties
<1> HIDE DEF h, t
<1>2. Queued(s, h)
  BY <1>1 DEF Queued
<1>3. NoRepeat(t) /\ \A x : Queued(t, x) => Queued(s, x) /\ x # h
  BY <1>1 DEF NoRepeat, Queued
<1>4. ASSUME NEW i \in 1..Len(s), s[i] # h PROVE Queued(t, s[i])
  <2>1. i - 1 \in 1..Len(s) - 1 /\ t[i - 1] = s[i]
    BY <1>1, <1>4
  <2> QED BY <1>1, <2>1 DEF Queued
<1> QED BY <1>1, <1>2, <1>3, <1>4 DEF h, t, Queued

(* Steps that touch neither the queue nor a future.                        *)
LEMMA SameQueues ==
  ASSUME AdapterInv, UNCHANGED <<batch, pending, future>>
  PROVE  QueueInv'
BY DEF AdapterInv, QueueInv, Queued, NoRepeat

(* A new adapter owes nobody anything.                                     *)
LEMMA InitAdapter == Init => AdapterInv
<1> SUFFICES ASSUME Init PROVE AdapterInv
  OBVIOUS
<1>1. TypeOK
  <2>1. <<>> \in Seq(Callers) /\ Len(<<>>) = 0
    BY EmptySeq
  <2>2. future \in [Callers -> {"none"}]
    BY DEF Init
  <2>3. 0 <= max_batch /\ 0 <= max_pending
    BY BatchAssumption
  <2> QED BY <2>1, <2>2, <2>3 DEF Init, TypeOK
<1>2. QueueInv
  BY NobodyQueued DEF Init, QueueInv
<1>3. WorkerInv
  BY DEF Init, WorkerInv
<1> QED BY <1>1, <1>2, <1>3 DEF AdapterInv

(* A request joins the end of the queue.                                   *)
LEMMA SubmitKeeps ==
  ASSUME AdapterInv, NEW c \in Callers, Submit(c)
  PROVE  AdapterInv'
<1> DEFINE q == Append(pending, c)
<1>1. /\ pending \in Seq(Callers) /\ Len(pending) \in Nat
      /\ q \in Seq(Callers) /\ Len(q) = Len(pending) + 1
      /\ \A i \in 1..Len(pending) : q[i] = pending[i]
      /\ q[Len(pending) + 1] = c
  BY AppendProperties, LenProperties DEF AdapterInv, TypeOK
<1>2. pending' = q /\ batch' = batch
  BY DEF Submit
<1>3. TypeOK'
  BY <1>1, <1>2, BatchAssumption DEF AdapterInv, TypeOK, Submit, Notified
<1>4. ~Queued(batch, c) /\ ~Queued(pending, c) /\ NoRepeat(pending)
  BY DEF AdapterInv, QueueInv, Submit
<1>5. NoRepeat(q) /\ \A d : Queued(q, d) <=> Queued(pending, d) \/ d = c
  BY <1>1, <1>4, AppendQueues
<1>7. QueueInv'
  <2>1. \A d \in Callers : future'[d] = IF d = c THEN "pending" ELSE future[d]
    BY DEF Submit, AdapterInv, TypeOK
  <2> HIDE DEF q
  <2>2. NoRepeat(batch') /\ NoRepeat(pending')
    BY <1>2, <1>5 DEF AdapterInv, QueueInv
  <2>3. \A d : /\ Queued(batch', d) <=> Queued(batch, d)
               /\ Queued(pending', d) <=> Queued(pending, d) \/ d = c
    BY <1>2, <1>5
  <2> QED BY <1>4, <2>1, <2>2, <2>3 DEF AdapterInv, QueueInv
<1>8. WorkerInv'
  BY <1>1, <1>2 DEF AdapterInv, WorkerInv, Submit, Notified, TypeOK
<1> QED BY <1>3, <1>7, <1>8 DEF AdapterInv

(* A request is refused without having been queued.                        *)
LEMMA RefuseKeeps ==
  ASSUME AdapterInv, NEW c \in Callers, Refuse(c)
  PROVE  AdapterInv'
<1>1. TypeOK'
  BY DEF AdapterInv, TypeOK, Refuse
<1>2. QueueInv'
  BY DEF AdapterInv, TypeOK, QueueInv, Refuse, Queued, NoRepeat
<1>3. WorkerInv'
  BY DEF AdapterInv, WorkerInv, Refuse
<1> QED BY <1>1, <1>2, <1>3 DEF AdapterInv

(* shutdown answers exactly those that are in the queue.                   *)
LEMMA CloseKeeps ==
  ASSUME AdapterInv, Close
  PROVE  AdapterInv'
<1>1. TypeOK'
  BY EmptySeq, BatchAssumption DEF AdapterInv, TypeOK, Close, Notified
<1>2. \A c : c \in Range(pending) <=> Queued(pending, c)
  BY LenProperties DEF AdapterInv, TypeOK, Range, Queued
<1>3. QueueInv'
  <2>1. pending' = <<>> /\ batch' = batch
    BY DEF Close
  <2>2. \A c \in Callers : future'[c] = IF Queued(pending, c) THEN "server_stopping" ELSE future[c]
    BY <1>2 DEF Close
  <2>3. NoRepeat(pending') /\ \A c : ~Queued(pending', c)
    BY <2>1, NobodyQueued
  <2>4. NoRepeat(batch') /\ \A c : Queued(batch', c) <=> Queued(batch, c)
    BY <2>1 DEF AdapterInv, QueueInv
  <2> QED BY <2>2, <2>3, <2>4 DEF AdapterInv, QueueInv
<1>4. WorkerInv'
  BY DEF AdapterInv, WorkerInv, TypeOK, Close, Notified
<1> QED BY <1>1, <1>3, <1>4 DEF AdapterInv

(* What the batch takes from the front is what the queue loses.            *)
LEMMA TakeKeeps ==
  ASSUME AdapterInv, worker = "window", ~closed, Take, UNCHANGED <<closed, future, late, stopper>>
  PROVE  AdapterInv'
<1> DEFINE n == IF Len(pending) < max_batch THEN Len(pending) ELSE max_batch
           a == SubSeq(pending, 1, n)
           b == SubSeq(pending, n + 1, Len(pending))
<1>1. /\ pending \in Seq(Callers) /\ Len(pending) \in Nat \ {0}
      /\ \A i \in 1..Len(pending) : pending[i] \in Callers
      /\ batch = <<>> /\ future \in [Callers -> {"none", "pending", "result", "error",
                                                 "server_stopping", "queue_full"}]
  BY EmptySeq, ElementOfSeq DEF AdapterInv, TypeOK, WorkerInv
<1>2. n \in 1..Len(pending) /\ n <= max_batch
  BY <1>1, BatchAssumption
<1>3. a \in Seq(Callers) /\ Len(a) = n /\ \A i \in 1..n : a[i] = pending[i]
  <2> HIDE DEF n
  <2> QED BY <1>1, <1>2, SubSeqProperties
<1>4. /\ b \in Seq(Callers) /\ Len(b) = Len(pending) - n
      /\ \A i \in 1..Len(pending) - n : b[i] = pending[n + i]
  <2> HIDE DEF n
  <2>1. \A i \in n + 1 .. Len(pending) : pending[i] \in Callers
    BY <1>1, <1>2
  <2>2. /\ b \in Seq(Callers)
        /\ Len(b) = IF n + 1 <= Len(pending) THEN Len(pending) - (n + 1) + 1 ELSE 0
        /\ \A i \in 1 .. Len(pending) - (n + 1) + 1 : b[i] = pending[n + 1 + i - 1]
    BY <1>1, <1>2, <2>1, SubSeqProperties
  <2> QED BY <1>1, <1>2, <2>2
<1>5. batch' = a /\ pending' = b /\ worker' = "infer"
  BY DEF Take
<1> HIDE DEF n, a, b
<1>6. TypeOK'
  <2>1. Len(a) <= max_batch /\ Len(b) <= max_pending
    BY <1>1, <1>2, <1>3, <1>4, BatchAssumption DEF AdapterInv, TypeOK
  <2> QED BY <1>3, <1>4, <1>5, <2>1 DEF AdapterInv, TypeOK
<1>7. NoRepeat(pending) /\ \A c \in Callers : future[c] = "pending" <=> Queued(pending, c)
  BY <1>1, EmptySeq DEF AdapterInv, QueueInv, Queued
<1>8. NoRepeat(a) /\ NoRepeat(b)
  <2>1. n \in Nat /\ \A i \in 1..n : i \in 1..Len(pending)
    BY <1>1, <1>2
  <2>2. NoRepeat(a)
    BY <1>3, <1>7, <2>1 DEF NoRepeat
  <2>3. ASSUME NEW i \in 1..Len(b), NEW j \in 1..Len(b), b[i] = b[j] PROVE i = j
    <3>1. n + i \in 1..Len(pending) /\ n + j \in 1..Len(pending)
      BY <1>1, <1>4, <2>1
    <3>2. pending[n + i] = pending[n + j]
      BY <1>4, <2>3
    <3>3. n + i = n + j
      BY <1>7, <3>1, <3>2 DEF NoRepeat
    <3> QED BY <2>1, <3>3
  <2> QED BY <2>2, <2>3 DEF NoRepeat
<1>9. \A c : ~(Queued(a, c) /\ Queued(b, c))
  BY <1>1, <1>2, <1>3, <1>4, <1>7 DEF NoRepeat, Queued
<1>10. \A c : Queued(a, c) \/ Queued(b, c) <=> Queued(pending, c)
  <2>1. \A c : Queued(a, c) \/ Queued(b, c) => Queued(pending, c)
    BY <1>1, <1>2, <1>3, <1>4 DEF Queued
  <2>2. ASSUME NEW c, NEW i \in 1..Len(pending), pending[i] = c
        PROVE  Queued(a, c) \/ Queued(b, c)
    <3>1. CASE i <= n
      BY <1>1, <1>2, <1>3, <2>2, <3>1 DEF Queued
    <3>2. CASE i > n
      <4>1. i - n \in 1..Len(pending) - n /\ b[i - n] = pending[i]
        BY <1>1, <1>2, <1>4, <3>2
      <4> QED BY <1>4, <2>2, <4>1 DEF Queued
    <3> QED BY <1>1, <1>2, <3>1, <3>2
  <2> QED BY <2>1, <2>2 DEF Queued
<1>11. QueueInv'
  BY <1>5, <1>7, <1>8, <1>9, <1>10 DEF QueueInv, Queued, NoRepeat
<1>12. WorkerInv'
  BY <1>2, <1>3, <1>5, EmptySeq DEF WorkerInv
<1> QED BY <1>6, <1>11, <1>12 DEF AdapterInv

(* The first of the batch is answered and leaves it.                       *)
LEMMA ResolveKeeps ==
  ASSUME AdapterInv, Resolve
  PROVE  AdapterInv'
<1> DEFINE h == Head(batch)
           t == Tail(batch)
<1>1. batch \in Seq(Callers) /\ batch # <<>> /\ Len(batch) \in Nat \ {0}
  BY EmptySeq DEF AdapterInv, TypeOK, WorkerInv, Resolve
<1>2. /\ h = batch[1] /\ h \in Callers /\ t \in Seq(Callers) /\ Len(t) = Len(batch) - 1
      /\ \A i \in 1..Len(batch) - 1 : t[i] = batch[i + 1]
  BY <1>1, HeadTailProperties
<1>3. /\ batch' = t /\ worker' = (IF t = <<>> THEN "look" ELSE "resolve")
      /\ \E outcome \in {"result", "error"} : future' = [future EXCEPT ![h] = outcome]
      /\ UNCHANGED <<pending, closed, late, stopper>>
  BY DEF Resolve
<1> HIDE DEF h, t
<1>4. TypeOK'
  BY <1>1, <1>2, <1>3, BatchAssumption DEF AdapterInv, TypeOK
<1>5. NoRepeat(t) /\ \A c : Queued(t, c) <=> Queued(batch, c) /\ c # h
  BY <1>1, TailQueues DEF AdapterInv, QueueInv, h, t
<1>6. QueueInv'
  <2>1. Queued(batch, h)
    BY <1>1, <1>2 DEF Queued
  <2>2. \A c \in Callers : IF c = h THEN future'[c] # "pending" ELSE future'[c] = future[c]
    BY <1>2, <1>3 DEF AdapterInv, TypeOK
  <2>3. batch' = t /\ pending' = pending
    BY <1>3
  <2>4. NoRepeat(batch') /\ NoRepeat(pending')
    BY <1>5, <2>3 DEF AdapterInv, QueueInv
  <2>5. \A c : /\ Queued(batch', c) <=> Queued(batch, c) /\ c # h
               /\ Queued(pending', c) <=> Queued(pending, c)
    BY <1>5, <2>3
  <2> QED BY <1>2, <2>1, <2>2, <2>4, <2>5 DEF AdapterInv, QueueInv
<1>7. WorkerInv'
  BY <1>3 DEF AdapterInv, WorkerInv, Resolve
<1> QED BY <1>4, <1>6, <1>7 DEF AdapterInv

(* The other steps of the worker change neither the queue nor a future.    *)
LEMMA WorkKeeps ==
  ASSUME AdapterInv, Work
  PROVE  AdapterInv'
<1>1. CASE Look
  <2>1. UNCHANGED <<batch, pending, future>> /\ QueueInv'
    BY <1>1, SameQueues DEF Look, Stop
  <2> QED BY <1>1, <2>1 DEF Look, Stop, AdapterInv, TypeOK, WorkerInv
<1>2. CASE Window
  <2>1. CASE ~closed /\ Take
    BY <1>2, <2>1, TakeKeeps DEF Window, Stop
  <2>2. CASE ~(~closed /\ Take) /\ UNCHANGED <<pending, batch>>
    <3>1. worker' \in {"dead", "dozing", "infer"} /\ UNCHANGED <<closed, future, late, stopper>>
      BY <1>2 DEF Window, Take, Stop
    <3>2. QueueInv'
      BY <2>2, <3>1, SameQueues
    <3>3. TypeOK'
      BY <2>2, <3>1 DEF AdapterInv, TypeOK
    <3>4. WorkerInv'
      BY <1>2, <2>2 DEF Window, Stop, AdapterInv, WorkerInv
    <3> QED BY <3>2, <3>3, <3>4 DEF AdapterInv
  <2> QED BY <1>2, <2>1, <2>2 DEF Window, Stop
<1>3. CASE Timeout
  BY <1>3, SameQueues DEF Timeout, AdapterInv, TypeOK, WorkerInv
<1>4. CASE Infer
  BY <1>4, SameQueues DEF Infer, AdapterInv, TypeOK, WorkerInv
<1>5. CASE Resolve
  BY <1>5, ResolveKeeps
<1> QED BY <1>1, <1>2, <1>3, <1>4, <1>5 DEF Work

(* Every step of the adapter keeps its invariant.                          *)
LEMMA AdapterStepKeeps == AdapterInv /\ [Next]_vars => AdapterInv'
<1> SUFFICES ASSUME AdapterInv, [Next]_vars PROVE AdapterInv'
  OBVIOUS
<1>1. ASSUME NEW c \in Callers, Submit(c) \/ Refuse(c) PROVE AdapterInv'
  BY <1>1, SubmitKeeps, RefuseKeeps
<1>2. CASE Close
  BY <1>2, CloseKeeps
<1>3. CASE Join \/ UNCHANGED vars
  <2>1. UNCHANGED <<pending, closed, future, worker, late, batch>> /\ stopper' \in {stopper, "done"}
    BY <1>3 DEF Join, vars
  <2> QED BY <2>1, SameQueues DEF AdapterInv, TypeOK, WorkerInv
<1>4. CASE Work
  BY <1>4, WorkKeeps
<1> QED BY <1>1, <1>2, <1>3, <1>4 DEF Next

(* The queue and the batch, laid end to end, list whoever blocks, once.    *)
LEMMA InvOwesOnce == AdapterInv => OwedOnce
<1> SUFFICES ASSUME AdapterInv PROVE OwedOnce
  OBVIOUS
<1> DEFINE owed == batch \o pending
<1>1. /\ batch \in Seq(Callers) /\ pending \in Seq(Callers)
      /\ Len(batch) \in Nat /\ Len(pending) \in Nat
  BY LenProperties DEF AdapterInv, TypeOK
<1>2. owed \in Seq(Callers) /\ DOMAIN owed = 1..Len(batch) + Len(pending)
  BY <1>1, ConcatProperties, LenProperties
<1>3. \A i \in 1..Len(batch) : i \in DOMAIN owed /\ owed[i] = batch[i]
  BY <1>1, <1>2, ConcatProperties
<1>4. \A i \in 1..Len(pending) : Len(batch) + i \in DOMAIN owed /\ owed[Len(batch) + i] = pending[i]
  BY <1>1, <1>2, ConcatProperties
<1> HIDE DEF owed
<1>5. ASSUME NEW i \in DOMAIN owed
      PROVE  \/ i \in 1..Len(batch)
             \/ i - Len(batch) \in 1..Len(pending) /\ owed[i] = pending[i - Len(batch)]
  BY <1>1, <1>2, <1>4
<1>6. \A c : c \in Range(owed) <=> Queued(batch, c) \/ Queued(pending, c)
  BY <1>3, <1>4, <1>5 DEF Range, Queued
<1>7. \A c \in Range(owed) : c \in Callers
  BY <1>1, <1>6, ElementOfSeq DEF Queued
<1>8. Range(owed) = {c \in Callers : future[c] = "pending"}
  BY <1>6, <1>7 DEF AdapterInv, QueueInv
<1>9. IsInjective(owed)
  <2> SUFFICES ASSUME NEW i \in DOMAIN owed, NEW j \in DOMAIN owed, owed[i] = owed[j]
               PROVE  i = j
    BY DEF IsInjective
  <2>1. owed[i] \in Callers /\ NoRepeat(batch) /\ NoRepeat(pending)
        /\ ~(Queued(batch, owed[i]) /\ Queued(pending, owed[i]))
    BY <1>7 DEF Range, AdapterInv, QueueInv
  <2>2. CASE i \in 1..Len(batch) /\ j \in 1..Len(batch)
    BY <1>3, <2>1, <2>2 DEF NoRepeat
  <2>3. CASE i \notin 1..Len(batch) /\ j \notin 1..Len(batch)
    <3>1. i - Len(batch) = j - Len(batch)
      BY <1>5, <2>1, <2>3 DEF NoRepeat
    <3> QED BY <1>1, <1>2, <3>1
  <2>4. CASE i \in 1..Len(batch) /\ j \notin 1..Len(batch)
    BY <1>3, <1>5, <2>1, <2>4 DEF Queued
  <2>5. CASE i \notin 1..Len(batch) /\ j \in 1..Len(batch)
    BY <1>3, <1>5, <2>1, <2>5 DEF Queued
  <2> QED BY <2>2, <2>3, <2>4, <2>5
<1> QED BY <1>8, <1>9 DEF OwedOnce, owed

(***************************************************************************)
(* The servers.                                                            *)
(***************************************************************************)

Granted == {p \in Peers : loop[p] = "granted"}

TransportTypeOK ==
  /\ transport \in {"wireless", "http"}
  /\ server \in {"serving", "draining", "closing"}
  /\ loop \in [Peers -> {"recv", "wait", "granted", "sleep", "ended"}]
  /\ stage \in [Callers -> {"away", "held", "parse", "infer", "respond"}]
  /\ owner \in [Callers -> Peers \cup {Nobody}]
  /\ permits \in Nat
  /\ waiters \in Seq(Peers)

(* The line of waiters is who waits; a loop that waits, or was granted its *)
(* permit, holds one request; loops run only while a wireless server       *)
(* serves.                                                                 *)
LoopsInv ==
  /\ NoRepeat(waiters)
  /\ \A p \in Peers : loop[p] = "wait" <=> Queued(waiters, p)
  /\ \A c \in Callers : stage[c] = "held" =>
       owner[c] \in Peers /\ loop[owner[c]] \in {"wait", "granted"}
  /\ \A p \in Peers : loop[p] \in {"wait", "granted"} =>
       \E c \in Callers : stage[c] = "held" /\ owner[c] = p
  /\ \A c, d \in Callers :
       stage[c] = "held" /\ stage[d] = "held" /\ owner[c] = owner[d] => c = d
  /\ transport = "http" \/ server # "serving" => \A p \in Peers : loop[p] = "ended"

(* Only requests that are being handled block in the adapter, and a        *)
(* wireless server closes it when none is left.                            *)
StopInv ==
  /\ server = "draining" => transport = "wireless"
  /\ closed => server = "closing"
  /\ transport = "wireless" /\ server = "closing" => Handled = {}
  /\ \A c \in Callers : future[c] = "pending" => stage[c] = "infer"
  /\ WirelessDrains

TransportInv ==
  /\ AdapterInv /\ TransportTypeOK /\ LoopsInv /\ StopInv
  /\ PermitsAreKept

(* What PermitsAreKept adds up is finite.                                  *)
LEMMA CountsAreFinite ==
  /\ IsFiniteSet(Handled) /\ Cardinality(Handled) \in Nat
  /\ IsFiniteSet(Granted) /\ Cardinality(Granted) \in Nat
<1>1. Handled \in SUBSET Callers /\ Granted \in SUBSET Peers
  BY DEF Handled, Granted
<1> QED BY <1>1, TransportAssumption, FS_Subset, FS_CardinalityType

(* The permits only depend on who is handled and who has been granted one. *)
LEMMA PermitsBalance ==
  ASSUME PermitsAreKept, permits \in Nat, permits' \in Nat, transport' = transport,
         transport = "wireless" =>
           permits' + Cardinality(Granted') + Cardinality(Handled') =
             permits + Cardinality(Granted) + Cardinality(Handled)
  PROVE  PermitsAreKept'
<1>1. Granted = {p \in Peers : loop[p] = "granted"} /\ Granted' = {p \in Peers : loop'[p] = "granted"}
  BY DEF Granted
<1> QED BY <1>1 DEF PermitsAreKept

(* A server starts with all its permits and nobody in it.                  *)
LEMMA InitServers == TransportInit => TransportInv
<1> SUFFICES ASSUME TransportInit PROVE TransportInv
  OBVIOUS
<1>1. AdapterInv
  BY InitAdapter DEF TransportInit
<1>2. TransportTypeOK
  BY EmptySeq, TransportAssumption DEF TransportInit, TransportTypeOK
<1>3. LoopsInv
  <2>1. waiters = <<>> /\ \A p \in Peers : loop[p] \in {"recv", "ended"}
    BY DEF TransportInit
  <2>2. \A c \in Callers : stage[c] = "away"
    BY DEF TransportInit
  <2>3. transport = "http" => \A p \in Peers : loop[p] = "ended"
    BY DEF TransportInit
  <2>4. server = "serving"
    BY DEF TransportInit
  <2> QED BY <2>1, <2>2, <2>3, <2>4, NobodyQueued DEF LoopsInv
<1>4. StopInv
  BY DEF TransportInit, Init, StopInv, WirelessDrains
<1>5. PermitsAreKept
  <2>1. Handled = {} /\ Granted = {}
    BY DEF TransportInit, Handled, Granted
  <2>2. Cardinality(Handled) = 0 /\ Cardinality({p \in Peers : loop[p] = "granted"}) = 0
    BY <2>1, FS_EmptySet DEF Granted
  <2> QED BY <2>2, TransportAssumption DEF TransportInit, PermitsAreKept
<1> QED BY <1>1, <1>2, <1>3, <1>4, <1>5 DEF TransportInv

(* A request that gets a permit is handled; one that does not is held by   *)
(* its loop, which joins the end of the line.                              *)
LEMMA ReceiveKeeps ==
  ASSUME TransportInv, NEW p \in Peers, NEW c \in Callers, Receive(p, c)
  PROVE  TransportInv'
<1> USE DEF TransportInv
<1>1. UNCHANGED vars /\ UNCHANGED <<transport, server>> /\ loop[p] = "recv" /\ stage[c] = "away"
  BY DEF Receive
<1>2. transport = "wireless" /\ server = "serving"
  BY <1>1 DEF LoopsInv, TransportTypeOK
<1>3. AdapterInv'
  BY <1>1, AdapterStepKeeps
<1>4. CASE permits > 0
  <2>1. /\ permits' = permits - 1 /\ stage' = [stage EXCEPT ![c] = "parse"]
        /\ owner' = [owner EXCEPT ![c] = p] /\ UNCHANGED <<loop, waiters>>
    BY <1>4 DEF Receive
  <2>2. TransportTypeOK'
    BY <1>1, <1>4, <2>1 DEF TransportTypeOK
  <2>3. \A d \in Callers : d # c => stage'[d] = stage[d] /\ owner'[d] = owner[d]
    BY <2>1 DEF TransportTypeOK
  <2>4. stage'[c] = "parse"
    BY <2>1 DEF TransportTypeOK
  <2>5. LoopsInv'
    BY <1>1, <2>1, <2>3, <2>4 DEF LoopsInv, Queued, NoRepeat
  <2>6. StopInv'
    BY <1>1, <1>2, <2>3, <2>4 DEF StopInv, WirelessDrains, vars
  <2>7. Handled' = Handled \cup {c} /\ c \notin Handled /\ Granted' = Granted
    BY <1>1, <2>1, <2>3, <2>4 DEF Handled, Granted
  <2>8. PermitsAreKept'
    <3>1. Cardinality(Handled') = Cardinality(Handled) + 1
      BY <2>7, CountsAreFinite, FS_AddElement
    <3>2. permits \in Nat /\ permits' \in Nat
      BY <2>2 DEF TransportTypeOK
    <3>3. permits' + Cardinality(Granted') + Cardinality(Handled') =
            permits + Cardinality(Granted) + Cardinality(Handled)
      BY <2>1, <2>7, <3>1, <3>2, CountsAreFinite
    <3> QED BY <1>1, <3>2, <3>3, PermitsBalance
  <2> QED BY <1>3, <2>2, <2>5, <2>6, <2>8
<1>5. CASE ~(permits > 0)
  <2>1. /\ stage' = [stage EXCEPT ![c] = "held"] /\ loop' = [loop EXCEPT ![p] = "wait"]
        /\ owner' = [owner EXCEPT ![c] = p] /\ waiters' = Append(waiters, p) /\ UNCHANGED permits
    BY <1>5 DEF Receive
  <2>2. TransportTypeOK'
    BY <1>1, <2>1, AppendProperties DEF TransportTypeOK
  <2>3. \A d \in Callers : d # c => stage'[d] = stage[d] /\ owner'[d] = owner[d]
    BY <2>1 DEF TransportTypeOK
  <2>4. stage'[c] = "held" /\ owner'[c] = p
    BY <2>1 DEF TransportTypeOK
  <2>5. \A q \in Peers : loop'[q] = IF q = p THEN "wait" ELSE loop[q]
    BY <2>1 DEF TransportTypeOK
  <2>6. ~Queued(waiters, p)
    BY <1>1 DEF LoopsInv
  <2>7. NoRepeat(waiters') /\ \A q : Queued(waiters', q) <=> Queued(waiters, q) \/ q = p
    BY <2>1, <2>6, AppendQueues DEF TransportTypeOK, LoopsInv
  <2>8. LoopsInv'
    <3>1. \A d \in Callers : stage[d] = "held" => owner[d] # p
      BY <1>1 DEF LoopsInv
    <3> QED BY <1>1, <1>2, <2>3, <2>4, <2>5, <2>7, <3>1 DEF LoopsInv
  <2>9. StopInv'
    BY <1>1, <1>2, <2>3, <2>4 DEF StopInv, WirelessDrains, vars
  <2>10. Handled' = Handled /\ Granted' = Granted
    BY <1>1, <2>3, <2>4, <2>5 DEF Handled, Granted
  <2>11. PermitsAreKept'
    BY <1>1, <2>1, <2>2, <2>10, PermitsBalance DEF TransportTypeOK
  <2> QED BY <1>3, <2>2, <2>8, <2>9, <2>11
<1> QED BY <1>4, <1>5

(* A loop that was handed a permit makes a task of the request it held.    *)
LEMMA ResumeKeeps ==
  ASSUME TransportInv, NEW p \in Peers, Resume(p)
  PROVE  TransportInv'
<1> USE DEF TransportInv
<1>1. /\ UNCHANGED vars /\ UNCHANGED <<transport, server, owner, permits, waiters>>
      /\ loop[p] = "granted" /\ loop' = [loop EXCEPT ![p] = "recv"]
  BY DEF Resume
<1>2. transport = "wireless" /\ server = "serving"
  BY <1>1 DEF LoopsInv, TransportTypeOK
<1>3. AdapterInv'
  BY <1>1, AdapterStepKeeps
<1>4. PICK c \in Callers : stage[c] = "held" /\ owner[c] = p
  BY <1>1 DEF LoopsInv
<1>5. \A d \in Callers : d # c => ~(stage[d] = "held" /\ owner[d] = p)
  BY <1>4 DEF LoopsInv
<1>6. stage' = [stage EXCEPT ![c] = "parse"]
  BY <1>4, <1>5 DEF Resume, TransportTypeOK
<1>7. \A d \in Callers : stage'[d] = IF d = c THEN "parse" ELSE stage[d]
  BY <1>6 DEF TransportTypeOK
<1>8. \A q \in Peers : loop'[q] = IF q = p THEN "recv" ELSE loop[q]
  BY <1>1 DEF TransportTypeOK
<1>9. TransportTypeOK'
  BY <1>1, <1>6 DEF TransportTypeOK
<1>10. LoopsInv'
  BY <1>1, <1>2, <1>4, <1>5, <1>7, <1>8 DEF LoopsInv, Queued, NoRepeat
<1>11. StopInv'
  BY <1>1, <1>2, <1>4, <1>7 DEF StopInv, WirelessDrains, vars
<1>12. Handled' = Handled \cup {c} /\ c \notin Handled /\ Granted' = Granted \ {p} /\ p \in Granted
  BY <1>1, <1>4, <1>7, <1>8 DEF Handled, Granted
<1>13. PermitsAreKept'
  <2>1. Cardinality(Handled') = Cardinality(Handled) + 1
    BY <1>12, CountsAreFinite, FS_AddElement
  <2>2. Cardinality(Granted') = Cardinality(Granted) - 1
    BY <1>12, CountsAreFinite, FS_RemoveElement
  <2>3. permits \in Nat /\ permits' = permits
    BY <1>1 DEF TransportTypeOK
  <2>4. permits' + Cardinality(Granted') + Cardinality(Handled') =
          permits + Cardinality(Granted) + Cardinality(Handled)
    BY <2>1, <2>2, <2>3, CountsAreFinite
  <2> QED BY <1>1, <2>3, <2>4, PermitsBalance
<1> QED BY <1>3, <1>9, <1>10, <1>11, <1>13

(* A session that ends or begins again changes neither permits nor line.   *)
LEMMA SessionKeeps ==
  ASSUME TransportInv, NEW p \in Peers, Disconnect(p) \/ Reconnect(p)
  PROVE  TransportInv'
<1> USE DEF TransportInv
<1>1. /\ UNCHANGED vars /\ UNCHANGED <<transport, server, stage, owner, permits, waiters>>
      /\ loop[p] \in {"recv", "sleep"}
      /\ \E step \in {"recv", "sleep"} : loop' = [loop EXCEPT ![p] = step]
  BY DEF Disconnect, Reconnect
<1>2. AdapterInv'
  BY <1>1, AdapterStepKeeps
<1>3. TransportTypeOK'
  <2>1. loop' \in [Peers -> {"recv", "wait", "granted", "sleep", "ended"}]
    BY <1>1 DEF TransportTypeOK
  <2> QED BY <1>1, <2>1 DEF TransportTypeOK
<1>4. \A q \in Peers : loop'[q] = loop[q] \/ (q = p /\ loop'[q] \in {"recv", "sleep"})
  BY <1>1 DEF TransportTypeOK
<1>5. LoopsInv'
  BY <1>1, <1>4 DEF LoopsInv, Queued, NoRepeat
<1>6. StopInv'
  BY <1>1 DEF StopInv, WirelessDrains, Handled, vars
<1>7. Handled' = Handled /\ Granted' = Granted
  BY <1>1, <1>4 DEF Handled, Granted
<1>8. PermitsAreKept'
  BY <1>1, <1>3, <1>7, PermitsBalance DEF TransportTypeOK
<1> QED BY <1>2, <1>3, <1>5, <1>6, <1>8

(* An HTTP connection brings a request.                                    *)
LEMMA AcceptKeeps ==
  ASSUME TransportInv, NEW c \in Callers, Accept(c)
  PROVE  TransportInv'
<1> USE DEF TransportInv
<1>1. /\ UNCHANGED vars /\ UNCHANGED <<transport, server, loop, owner, permits, waiters>>
      /\ transport = "http" /\ server = "serving" /\ stage[c] = "away"
      /\ stage' = [stage EXCEPT ![c] = "parse"]
  BY DEF Accept
<1>2. AdapterInv'
  BY <1>1, AdapterStepKeeps
<1>3. TransportTypeOK'
  BY <1>1 DEF TransportTypeOK
<1>4. \A d \in Callers : stage'[d] = IF d = c THEN "parse" ELSE stage[d]
  BY <1>1 DEF TransportTypeOK
<1>5. LoopsInv'
  BY <1>1, <1>4 DEF LoopsInv, Queued, NoRepeat
<1>6. StopInv'
  BY <1>1, <1>4 DEF StopInv, WirelessDrains, vars
<1>7. PermitsAreKept'
  BY <1>1 DEF PermitsAreKept
<1> QED BY <1>2, <1>3, <1>5, <1>6, <1>7

(* A request is over: its permit is free again or goes to the longest      *)
(* waiting loop.                                                           *)
LEMMA OverKeeps ==
  ASSUME TransportInv, NEW c \in Callers, stage[c] \in {"parse", "respond"}, Over(c),
         UNCHANGED vars, UNCHANGED <<transport, server>>
  PROVE  TransportInv'
<1> USE DEF TransportInv
<1>1. AdapterInv'
  BY AdapterStepKeeps
<1>2. stage' = [stage EXCEPT ![c] = "away"] /\ owner' = [owner EXCEPT ![c] = Nobody]
  BY DEF Over
<1>3. \A d \in Callers : /\ stage'[d] = IF d = c THEN "away" ELSE stage[d]
                         /\ d # c => owner'[d] = owner[d]
  BY <1>2 DEF TransportTypeOK
<1>4. Handled' = Handled \ {c} /\ c \in Handled
  BY <1>3 DEF Handled
<1>5. StopInv'
  BY <1>3, <1>4 DEF StopInv, WirelessDrains, vars
<1>6. CASE UNCHANGED <<loop, waiters>> /\ permits' \in {permits, permits + 1}
            /\ (transport = "wireless" => permits' = permits + 1)
  <2>1. TransportTypeOK'
    BY <1>2, <1>6 DEF TransportTypeOK
  <2>2. LoopsInv'
    BY <1>3, <1>6 DEF LoopsInv, Queued, NoRepeat
  <2>3. Granted' = Granted
    BY <1>6 DEF Granted
  <2>4. PermitsAreKept'
    <3>1. Cardinality(Handled') = Cardinality(Handled) - 1
      BY <1>4, CountsAreFinite, FS_RemoveElement
    <3>2. permits \in Nat /\ permits' \in Nat
      BY <2>1 DEF TransportTypeOK
    <3>3. transport = "wireless" =>
            permits' + Cardinality(Granted') + Cardinality(Handled') =
              permits + Cardinality(Granted) + Cardinality(Handled)
      BY <1>6, <2>3, <3>1, <3>2, CountsAreFinite
    <3> QED BY <3>2, <3>3, PermitsBalance
  <2> QED BY <1>1, <1>5, <2>1, <2>2, <2>4
<1>7. CASE transport = "wireless" /\ waiters # <<>> /\ UNCHANGED permits
           /\ loop' = [loop EXCEPT ![Head(waiters)] = "granted"] /\ waiters' = Tail(waiters)
  <2> DEFINE h == Head(waiters)
  <2>1. /\ h \in Peers /\ waiters' \in Seq(Peers) /\ Queued(waiters, h)
        /\ NoRepeat(waiters') /\ \A q : Queued(waiters', q) <=> Queued(waiters, q) /\ q # h
    BY <1>7, TailQueues DEF TransportTypeOK, LoopsInv
  <2>2. TransportTypeOK'
    BY <1>2, <1>7, <2>1 DEF TransportTypeOK
  <2>3. \A q \in Peers : loop'[q] = IF q = h THEN "granted" ELSE loop[q]
    BY <1>7 DEF TransportTypeOK
  <2>4. loop[h] = "wait"
    BY <2>1 DEF LoopsInv
  <2> HIDE DEF h
  <2>5. LoopsInv'
    BY <1>3, <2>1, <2>3, <2>4 DEF LoopsInv
  <2>6. Granted' = Granted \cup {h} /\ h \notin Granted
    BY <2>1, <2>3, <2>4 DEF Granted
  <2>7. PermitsAreKept'
    <3>1. Cardinality(Handled') = Cardinality(Handled) - 1
      BY <1>4, CountsAreFinite, FS_RemoveElement
    <3>2. Cardinality(Granted') = Cardinality(Granted) + 1
      BY <2>6, CountsAreFinite, FS_AddElement
    <3>3. permits \in Nat /\ permits' = permits
      BY <1>7 DEF TransportTypeOK
    <3>4. permits' + Cardinality(Granted') + Cardinality(Handled') =
            permits + Cardinality(Granted) + Cardinality(Handled)
      BY <3>1, <3>2, <3>3, CountsAreFinite
    <3> QED BY <3>3, <3>4, PermitsBalance
  <2> QED BY <1>1, <1>5, <2>2, <2>5, <2>7
<1> QED BY <1>6, <1>7 DEF Over, TransportTypeOK

(* A request goes on, in the adapter or past it.                           *)
LEMMA HandleKeeps ==
  ASSUME TransportInv, NEW c \in Callers, Handle(c)
  PROVE  TransportInv'
<1> USE DEF TransportInv
<1>1. CASE Malformed(c) \/ Respond(c)
  BY <1>1, OverKeeps DEF Malformed, Respond
<1>2. CASE Dispatch(c) \/ Inferred(c)
  <2>1. /\ stage[c] \in {"parse", "infer"}
        /\ UNCHANGED <<transport, server, loop, owner, permits, waiters>>
        /\ Submit(c) \/ Refuse(c) \/ UNCHANGED vars
        /\ \E step \in {"infer", "respond"} : stage' = [stage EXCEPT ![c] = step]
    BY <1>2 DEF Dispatch, Inferred
  <2>2. AdapterInv'
    BY <2>1, AdapterStepKeeps DEF Next
  <2>3. TransportTypeOK'
    BY <2>1 DEF TransportTypeOK
  <2>4. /\ stage'[c] \in {"infer", "respond"}
        /\ \A d \in Callers : d # c => stage'[d] = stage[d]
    BY <2>1 DEF TransportTypeOK
  <2>5. LoopsInv'
    BY <2>1, <2>4 DEF LoopsInv, Queued, NoRepeat
  <2>6. Handled' = Handled /\ c \in Handled
    BY <2>1, <2>4 DEF Handled
  <2>7. StopInv'
    <3>1. /\ ~(transport = "wireless" /\ closed) /\ closed' = closed
          /\ \A d \in Callers : d # c => future'[d] = future[d]
      BY <2>1, <2>6 DEF StopInv, Submit, Refuse, vars, AdapterInv, TypeOK
    <3>2. future'[c] = "pending" => stage'[c] = "infer"
      <4>1. CASE Dispatch(c)
        BY <4>1 DEF Dispatch, Submit, Refuse, vars, StopInv, AdapterInv, TypeOK, TransportTypeOK
      <4>2. CASE Inferred(c)
        BY <4>2 DEF Inferred, vars
      <4> QED BY <1>2, <4>1, <4>2
    <3>3. transport = "wireless" => future'[c] # "server_stopping"
      BY <2>1, <3>1 DEF StopInv, WirelessDrains, Submit, Refuse, vars, AdapterInv, TypeOK
    <3> QED BY <2>1, <2>4, <2>6, <3>1, <3>2, <3>3 DEF StopInv, WirelessDrains
  <2>8. Granted' = Granted
    BY <2>1 DEF Granted
  <2>9. PermitsAreKept'
    BY <2>1, <2>3, <2>6, <2>8, PermitsBalance DEF TransportTypeOK
  <2> QED BY <2>2, <2>3, <2>5, <2>7, <2>9
<1> QED BY <1>1, <1>2 DEF Handle

(* Every loop ends; a request that was held is dropped and a permit that   *)
(* was on its way is given back.                                           *)
LEMMA StopServingKeeps ==
  ASSUME TransportInv, StopServing
  PROVE  TransportInv'
<1> USE DEF TransportInv
<1>1. UNCHANGED vars /\ UNCHANGED transport /\ server = "serving"
      /\ server' = (IF transport = "wireless" THEN "draining" ELSE "closing")
      /\ waiters' = <<>>
  BY DEF StopServing
<1>2. AdapterInv'
  BY <1>1, AdapterStepKeeps
<1>3. \A p \in Peers : loop'[p] = "ended"
  BY DEF StopServing
<1>4. \A c \in Callers : stage'[c] = IF stage[c] = "held" THEN "away" ELSE stage[c]
  BY DEF StopServing
<1>5. permits' = permits + Cardinality(Granted) /\ permits' \in Nat
  <2>1. permits' = permits + Cardinality(Granted)
    BY DEF StopServing, Granted
  <2> QED BY <2>1, CountsAreFinite DEF TransportTypeOK
<1>6. TransportTypeOK'
  <2>1. loop' \in [Peers -> {"ended"}]
    BY DEF StopServing
  <2>2. stage' \in [Callers -> {"away", "held", "parse", "infer", "respond"}]
        /\ owner' \in [Callers -> Peers \cup {Nobody}]
    BY DEF StopServing, TransportTypeOK
  <2> QED BY <1>1, <1>5, <2>1, <2>2, EmptySeq DEF TransportTypeOK
<1>7. LoopsInv'
  BY <1>1, <1>3, <1>4, NobodyQueued DEF LoopsInv
<1>8. StopInv'
  BY <1>1, <1>4 DEF StopInv, WirelessDrains, vars, TransportTypeOK
<1>9. Handled' = Handled /\ Granted' = {}
  BY <1>3, <1>4 DEF Handled, Granted
<1>10. PermitsAreKept'
  BY <1>1, <1>5, <1>9, CountsAreFinite, FS_EmptySet, PermitsBalance DEF TransportTypeOK
<1> QED BY <1>2, <1>6, <1>7, <1>8, <1>10

(* Steps that only move the server or the adapter behind it.               *)
LEMMA IngressKeeps ==
  ASSUME TransportInv, UNCHANGED <<transport, loop, stage, owner, permits, waiters>>,
         server' = server \/ (server' = "closing" /\ server = "draining"),
         AdapterInv', StopInv'
  PROVE  TransportInv'
<1>1. TransportTypeOK'
  BY DEF TransportInv, TransportTypeOK
<1>2. LoopsInv'
  BY DEF TransportInv, LoopsInv, Queued, NoRepeat
<1>3. PermitsAreKept'
  BY DEF TransportInv, PermitsAreKept, Handled
<1> QED BY <1>1, <1>2, <1>3 DEF TransportInv

(* The gather of serve_forever has nothing left to wait for.               *)
LEMMA DrainKeeps ==
  ASSUME TransportInv, Drain
  PROVE  TransportInv'
<1>1. /\ UNCHANGED vars /\ UNCHANGED <<transport, loop, stage, owner, permits, waiters>>
      /\ server = "draining" /\ server' = "closing" /\ Handled = {} /\ Handled' = Handled
  BY DEF Drain, Handled
<1>2. AdapterInv'
  BY <1>1, AdapterStepKeeps DEF TransportInv
<1>3. StopInv'
  BY <1>1 DEF TransportInv, StopInv, WirelessDrains, vars
<1> QED BY <1>1, <1>2, <1>3, IngressKeeps

(* shutdown finds nobody of the wireless server in the queue.              *)
LEMMA ShutDownKeeps ==
  ASSUME TransportInv, ShutDownAdapter
  PROVE  TransportInv'
<1>1. /\ UNCHANGED <<transport, loop, stage, owner, permits, waiters>> /\ server' = server
      /\ server = "closing" /\ (Close \/ Join) /\ Handled' = Handled
  BY DEF ShutDownAdapter, ingress, Handled
<1>2. AdapterInv'
  BY <1>1, AdapterStepKeeps DEF TransportInv, Next
<1>3. \A c \in Callers : \/ future'[c] = future[c]
                         \/ future[c] = "pending" /\ future'[c] = "server_stopping"
  <2>1. CASE Close
    <3>1. ASSUME NEW c \in Callers, c \in Range(pending) PROVE future[c] = "pending"
      BY <3>1, LenProperties DEF Range, TransportInv, AdapterInv, TypeOK, QueueInv, Queued
    <3> QED BY <2>1, <3>1 DEF Close
  <2>2. CASE Join
    BY <2>2 DEF Join
  <2> QED BY <1>1, <2>1, <2>2
<1>4. StopInv'
  <2>1. transport = "wireless" => \A c \in Callers : future[c] # "pending"
    BY <1>1 DEF TransportInv, StopInv, Handled
  <2>2. server' = "closing" /\ transport' = transport /\ stage' = stage
    BY <1>1
  <2>3. WirelessDrains'
    BY <1>3, <2>1, <2>2 DEF TransportInv, StopInv, WirelessDrains
  <2>4. \A c \in Callers : future'[c] = "pending" => stage'[c] = "infer"
    BY <1>3, <2>2 DEF TransportInv, StopInv
  <2> QED BY <1>1, <2>2, <2>3, <2>4 DEF TransportInv, StopInv
<1> QED BY <1>1, <1>2, <1>4, IngressKeeps

(* The worker only turns pending futures into results and errors.          *)
LEMMA ServedWorkKeeps ==
  ASSUME TransportInv, Work, UNCHANGED ingress
  PROVE  TransportInv'
<1>1. /\ UNCHANGED <<transport, loop, stage, owner, permits, waiters>> /\ server' = server
      /\ Handled' = Handled
  BY DEF ingress, Handled
<1>2. AdapterInv'
  BY AdapterStepKeeps DEF TransportInv, Next
<1>3. closed' = closed /\ \A c \in Callers : \/ future'[c] = future[c]
                                            \/ future'[c] \in {"result", "error"}
  BY DEF TransportInv, AdapterInv, TypeOK, Work, Look, Window, Timeout, Infer, Resolve, Stop, Take
<1>4. StopInv'
  BY <1>1, <1>3 DEF TransportInv, StopInv, WirelessDrains
<1> QED BY <1>1, <1>2, <1>4, IngressKeeps

(* Everything the servers do, with any number of peers, connections and    *)
(* permits, keeps the invariant.                                           *)
THEOREM ServersInvariant == TransportSpec => []TransportInv
<1>1. TransportInv /\ [TransportNext]_allVars => TransportInv'
  <2> SUFFICES ASSUME TransportInv, [TransportNext]_allVars PROVE TransportInv'
    OBVIOUS
  <2>1. ASSUME NEW p \in Peers, NEW c \in Callers, Receive(p, c) PROVE TransportInv'
    BY <2>1, ReceiveKeeps
  <2>2. ASSUME NEW p \in Peers, Resume(p) PROVE TransportInv'
    BY <2>2, ResumeKeeps
  <2>3. ASSUME NEW p \in Peers, Disconnect(p) \/ Reconnect(p) PROVE TransportInv'
    BY <2>3, SessionKeeps
  <2>4. ASSUME NEW c \in Callers, Accept(c) PROVE TransportInv'
    BY <2>4, AcceptKeeps
  <2>5. ASSUME NEW c \in Callers, Handle(c) PROVE TransportInv'
    BY <2>5, HandleKeeps
  <2>6. CASE StopServing
    BY <2>6, StopServingKeeps
  <2>7. CASE Drain
    BY <2>7, DrainKeeps
  <2>8. CASE ShutDownAdapter
    BY <2>8, ShutDownKeeps
  <2>9. CASE Work /\ UNCHANGED ingress
    BY <2>9, ServedWorkKeeps
  <2>10. CASE UNCHANGED allVars
    <3>1. /\ UNCHANGED vars /\ server' = server
          /\ UNCHANGED <<transport, loop, stage, owner, permits, waiters>>
      BY <2>10 DEF allVars, vars
    <3>2. AdapterInv'
      BY <3>1, AdapterStepKeeps DEF TransportInv
    <3>3. StopInv'
      BY <3>1 DEF TransportInv, StopInv, WirelessDrains, Handled, vars
    <3> QED BY <3>1, <3>2, <3>3, IngressKeeps
  <2> QED BY <2>1, <2>2, <2>3, <2>4, <2>5, <2>6, <2>7, <2>8, <2>9, <2>10 DEF TransportNext
<1> QED BY <1>1, InitServers, PTL DEF TransportSpec

(* Each request that blocks is in the queue or in the batch, once, behind  *)
(* either server.                                                          *)
THEOREM RequestsAreOwedOnce == TransportSpec => []OwedOnce
<1>1. TransportInv => OwedOnce
  BY InvOwesOnce DEF TransportInv
<1> QED BY <1>1, ServersInvariant, PTL

(* The permits of max_in_flight are never lost and never multiply.         *)
THEOREM PermitsNeverLeak == TransportSpec => []PermitsAreKept
<1>1. TransportInv => PermitsAreKept
  BY DEF TransportInv
<1> QED BY <1>1, ServersInvariant, PTL

(* A stopping wireless server turns none of its accepted requests away.    *)
THEOREM AcceptedAreServed == TransportSpec => []WirelessDrains
<1>1. TransportInv => WirelessDrains
  BY DEF TransportInv, StopInv
<1> QED BY <1>1, ServersInvariant, PTL

(***************************************************************************)
(* Nobody sleeps over something to do.                                     *)
(***************************************************************************)

(* The composed servers use the adapter as it may be used.                 *)
LEMMA ServersUseAdapter == [TransportNext]_allVars => [Next]_vars
<1>1. ASSUME NEW c \in Callers, Handle(c) PROVE [Next]_vars
  BY <1>1 DEF Handle, Malformed, Dispatch, Inferred, Respond, Next
<1>2. UNCHANGED allVars => UNCHANGED vars
  BY DEF allVars, vars
<1>3. ShutDownAdapter => [Next]_vars
  BY DEF ShutDownAdapter, Next
<1> QED BY <1>1, <1>2, <1>3 DEF TransportNext, Receive, Resume, Disconnect, Reconnect, Accept,
           StopServing, Drain, Next

(* The worker waits on its condition only over an empty queue, or over one *)
(* that does not fill its window, and never once the adapter is closed.    *)
WakeInv ==
  /\ worker = "none" => pending = <<>>
  /\ worker = "asleep" => pending = <<>> /\ ~closed
  /\ worker = "dozing" => ~closed /\ Len(pending) < max_batch
  /\ worker = "dead" => closed
  /\ stopper = "none" <=> ~closed

LEMMA WakeKeeps == AdapterInv /\ WakeInv /\ [Next]_vars => WakeInv'
<1> SUFFICES ASSUME AdapterInv, WakeInv, [Next]_vars PROVE WakeInv'
  OBVIOUS
<1>1. worker \in {"none", "look", "asleep", "window", "dozing", "infer", "resolve", "dead"}
  BY DEF AdapterInv, TypeOK
<1>2. ASSUME NEW c \in Callers, Submit(c) PROVE WakeInv'
  BY <1>1, <1>2 DEF Submit, Notified, WakeInv
<1>3. ASSUME NEW c \in Callers, Refuse(c) PROVE WakeInv'
  BY <1>3 DEF Refuse, WakeInv
<1>4. CASE Close
  BY <1>1, <1>4 DEF Close, Notified, WakeInv
<1>5. CASE Join
  BY <1>5 DEF Join, WakeInv
<1>6. CASE Work
  BY <1>6 DEF Work, Look, Window, Timeout, Infer, Resolve, Take, Stop, WakeInv
<1>7. CASE UNCHANGED vars
  BY <1>7 DEF vars, WakeInv
<1> QED BY <1>2, <1>3, <1>4, <1>5, <1>6, <1>7 DEF Next

(* Loops wait in line only while there is no permit.                       *)
LineInv == waiters # <<>> => permits = 0

LEMMA LineKeeps == TransportInv /\ LineInv /\ [TransportNext]_allVars => LineInv'
<1> SUFFICES ASSUME TransportInv, LineInv, [TransportNext]_allVars PROVE LineInv'
  OBVIOUS
<1>1. ASSUME NEW p \in Peers, NEW c \in Callers, Receive(p, c) PROVE LineInv'
  BY <1>1 DEF Receive, LineInv, TransportInv, TransportTypeOK
<1>2. ASSUME NEW c \in Callers, Over(c) PROVE LineInv'
  BY <1>2, EmptySeq DEF Over, LineInv
<1>3. ASSUME NEW c \in Callers, Handle(c) PROVE LineInv'
  BY <1>2, <1>3 DEF Handle, Malformed, Dispatch, Inferred, Respond, LineInv
<1>4. CASE StopServing
  BY <1>4 DEF StopServing, LineInv
<1>5. CASE UNCHANGED <<permits, waiters>>
  BY <1>5 DEF LineInv
<1> QED BY <1>1, <1>3, <1>4, <1>5 DEF TransportNext, Resume, Disconnect, Reconnect, Accept, Drain,
           ShutDownAdapter, ingress, allVars

(* The guards of the steps that somebody owes: the worker's, those of a    *)
(* request that is handled, and a loop's that was granted a permit.        *)
WorkerCanGo == worker \in {"look", "window", "dozing", "infer", "resolve"}
HandlerCanGo(c) == stage[c] \in {"parse", "respond"} \/ (stage[c] = "infer" /\ future[c] # "pending")
LoopCanGo(p) == loop[p] = "granted"

NobodyIsStuck ==
  /\ \A c \in Callers : future[c] = "pending" => WorkerCanGo
  /\ stopper = "join" => WorkerCanGo \/ worker \in {"none", "dead"}
  /\ (\E c \in Callers : stage[c] # "away") =>
       WorkerCanGo \/ (\E c \in Callers : HandlerCanGo(c)) \/ (\E p \in Peers : LoopCanGo(p))

(* With any number of callers, peers and permits: while a request blocks   *)
(* on its future the worker has a step to take, so that no wake-up of its  *)
(* condition is lost; a shutdown never waits for a sleeping worker; and    *)
(* while any request is in the server, received or held by its loop, the   *)
(* guards of some step that the event loop or a thread owes hold.          *)
THEOREM ServersGoOn == TransportSpec => []NobodyIsStuck
<1>1. TransportSpec => []WakeInv
  <2>1. TransportInit => WakeInv
    BY DEF TransportInit, Init, WakeInv
  <2>2. TransportInv /\ WakeInv /\ [TransportNext]_allVars => WakeInv'
    BY ServersUseAdapter, WakeKeeps DEF TransportInv
  <2> QED BY <2>1, <2>2, ServersInvariant, PTL DEF TransportSpec
<1>2. TransportSpec => []LineInv
  <2>1. TransportInit => LineInv
    BY DEF TransportInit, LineInv
  <2> QED BY <2>1, LineKeeps, ServersInvariant, PTL DEF TransportSpec
<1>3. TransportInv /\ WakeInv /\ LineInv => NobodyIsStuck
  <2> SUFFICES ASSUME TransportInv, WakeInv, LineInv PROVE NobodyIsStuck
    OBVIOUS
  <2>1. worker \in {"none", "look", "asleep", "window", "dozing", "infer", "resolve", "dead"}
    BY DEF TransportInv, AdapterInv, TypeOK
  <2>2. ASSUME NEW c \in Callers, future[c] = "pending" PROVE WorkerCanGo
    <3>1. Queued(batch, c) \/ Queued(pending, c)
      BY <2>2 DEF TransportInv, AdapterInv, QueueInv
    <3>2. batch # <<>> \/ pending # <<>>
      BY <3>1, NobodyQueued
    <3>3. CASE batch # <<>>
      BY <3>3 DEF WorkerCanGo, TransportInv, AdapterInv, WorkerInv
    <3>4. CASE pending # <<>>
      BY <2>1, <3>4 DEF WorkerCanGo, WakeInv, TransportInv, AdapterInv, WorkerInv
    <3> QED BY <3>2, <3>3, <3>4
  <2>3. stopper = "join" => WorkerCanGo \/ worker \in {"none", "dead"}
    BY <2>1 DEF WakeInv, WorkerCanGo
  <2>4. ASSUME NEW c \in Callers, c \in Handled
        PROVE  WorkerCanGo \/ HandlerCanGo(c)
    BY <2>2, <2>4 DEF Handled, HandlerCanGo
  <2>5. ASSUME NEW c \in Callers, stage[c] = "held", Handled = {}
        PROVE  \E p \in Peers : LoopCanGo(p)
    <3>1. owner[c] \in Peers /\ loop[owner[c]] \in {"wait", "granted"}
      BY <2>5 DEF TransportInv, LoopsInv
    <3>2. CASE loop[owner[c]] = "wait"
      <4>1. Queued(waiters, owner[c])
        BY <3>1, <3>2 DEF TransportInv, LoopsInv
      <4>2. permits = 0
        BY <4>1, NobodyQueued DEF LineInv
      <4>3. transport = "wireless"
        BY <3>1, <3>2 DEF TransportInv, LoopsInv, TransportTypeOK
      <4>4. Cardinality(Handled) = 0
        BY <2>5, FS_EmptySet
      <4>5. Cardinality(Granted) = max_in_flight /\ max_in_flight # 0
        BY <4>2, <4>3, <4>4, TransportAssumption, CountsAreFinite
           DEF TransportInv, PermitsAreKept, Granted
      <4>6. Granted # {}
        BY <4>5, FS_EmptySet
      <4> QED BY <4>6 DEF Granted, LoopCanGo
    <3> QED BY <3>1, <3>2 DEF LoopCanGo
  <2>6. ASSUME NEW c \in Callers, stage[c] # "away"
        PROVE  c \in Handled \/ stage[c] = "held"
    BY <2>6 DEF Handled, TransportInv, TransportTypeOK
  <2>7. Handled \subseteq Callers
    BY DEF Handled
  <2> QED BY <2>2, <2>3, <2>4, <2>5, <2>6, <2>7 DEF NobodyIsStuck
<1> QED BY <1>1, <1>2, <1>3, ServersInvariant, PTL
=============================================================================
