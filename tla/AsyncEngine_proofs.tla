-------------------------- MODULE AsyncEngine_proofs --------------------------
(***************************************************************************)
(* Proofs about AsyncEngine, for any set of requests, any size of a window *)
(* and any number of stops.                                                *)
(***************************************************************************)
EXTENDS AsyncEngine, SequenceTheorems, TLAPS

Queued(s, r) == \E i \in 1..Len(s) : s[i] = r
NoRepeat(s) == \A i, j \in 1..Len(s) : s[i] = s[j] => i = j

(* Nobody is in the empty queue.                                           *)
LEMMA NobodyQueued == NoRepeat(<<>>) /\ \A c : ~Queued(<<>>, c)
<1>1. 1..Len(<<>>) = {}
  BY EmptySeq
<1> QED BY <1>1 DEF NoRepeat, Queued

(* A newcomer at the end of a line.                                        *)
LEMMA AppendQueues ==
  ASSUME NEW S, NEW s \in Seq(S), NEW x \in S, NoRepeat(s), ~Queued(s, x)
  PROVE  /\ NoRepeat(Append(s, x))
         /\ \A y : Queued(Append(s, x), y) <=> Queued(s, y) \/ y = x
<1> DEFINE q == Append(s, x)
<1>1. /\ Len(s) \in Nat /\ Len(q) = Len(s) + 1 /\ q[Len(s) + 1] = x
      /\ \A i \in 1..Len(s) : q[i] = s[i]
  BY AppendProperties, LenProperties
<1> HIDE DEF q
<1>2. 1..Len(q) = (1..Len(s)) \cup {Len(s) + 1}
  BY <1>1
<1>3. \A y : Queued(q, y) <=> Queued(s, y) \/ y = x
  BY <1>1, <1>2 DEF Queued
<1>4. NoRepeat(q)
  BY <1>1, <1>2 DEF NoRepeat, Queued
<1> QED BY <1>3, <1>4 DEF q

(* The first leaves the line.                                              *)
LEMMA TailQueues ==
  ASSUME NEW S, NEW s \in Seq(S), s # <<>>, NoRepeat(s)
  PROVE  /\ Head(s) \in S /\ Tail(s) \in Seq(S) /\ Len(Tail(s)) = Len(s) - 1 /\ Queued(s, Head(s))
         /\ NoRepeat(Tail(s))
         /\ \A x : Queued(Tail(s), x) <=> Queued(s, x) /\ x # Head(s)
<1> DEFINE h == Head(s)
           t == Tail(s)
<1>1. /\ Len(s) \in Nat \ {0} /\ h = s[1] /\ h \in S /\ t \in Seq(S) /\ Len(t) = Len(s) - 1
      /\ \A i \in 1..Len(s) - 1 : t[i] = s[i + 1]
  BY EmptySeq, HeadTailProperties
<1> HIDE DEF h, t
<1>2. Queued(s, h)
  BY <1>1 DEF Queued
<1>3. NoRepeat(t) /\ \A x : Queued(t, x) => Queued(s, x) /\ x # h
  BY <1>1 DEF NoRepeat, Queued
<1>4. ASSUME NEW i \in 1..Len(s), s[i] # h PROVE Queued(t, s[i])
  <2>1. i - 1 \in 1..Len(s) - 1 /\ t[i - 1] = s[i]
    BY <1>1, <1>4
  <2> QED BY <1>1, <2>1 DEF Queued
<1> QED BY <1>1, <1>2, <1>3, <1>4 DEF h, t, Queued

(* All there is to know of a concatenation here.                           *)
LEMMA ConcatQueues ==
  ASSUME NEW S, NEW s \in Seq(S), NEW t \in Seq(S)
  PROVE  /\ s \o t \in Seq(S)
         /\ \A x : Queued(s \o t, x) <=> Queued(s, x) \/ Queued(t, x)
         /\ NoRepeat(s) /\ NoRepeat(t) /\ (\A x : ~(Queued(s, x) /\ Queued(t, x))) => NoRepeat(s \o t)
<1> DEFINE q == s \o t
<1>1. Len(s) \in Nat /\ Len(t) \in Nat /\ q \in Seq(S) /\ Len(q) = Len(s) + Len(t)
  BY ConcatProperties, LenProperties
<1>2. \A i \in 1..Len(s) : i \in 1..Len(q) /\ q[i] = s[i]
  BY <1>1, ConcatProperties
<1>3. \A i \in 1..Len(t) : Len(s) + i \in 1..Len(q) /\ q[Len(s) + i] = t[i]
  BY <1>1, ConcatProperties
<1> HIDE DEF q
<1>4. \A i \in 1..Len(q) : \/ i \in 1..Len(s)
                           \/ i - Len(s) \in 1..Len(t) /\ q[i] = t[i - Len(s)]
  BY <1>1, <1>3
<1>5. \A x : Queued(q, x) <=> Queued(s, x) \/ Queued(t, x)
  BY <1>2, <1>3, <1>4 DEF Queued
<1>6. ASSUME NoRepeat(s), NoRepeat(t), \A x : ~(Queued(s, x) /\ Queued(t, x)),
             NEW i \in 1..Len(q), NEW j \in 1..Len(q), q[i] = q[j]
      PROVE  i = j
  <2>1. CASE i \in 1..Len(s) /\ j \in 1..Len(s)
    BY <1>2, <1>6, <2>1 DEF NoRepeat
  <2>2. CASE i \notin 1..Len(s) /\ j \notin 1..Len(s)
    <3>1. i - Len(s) = j - Len(s)
      BY <1>4, <1>6, <2>2 DEF NoRepeat
    <3> QED BY <1>1, <3>1
  <2>3. CASE i \in 1..Len(s) /\ j \notin 1..Len(s)
    BY <1>2, <1>4, <1>6, <2>3 DEF Queued
  <2>4. CASE i \notin 1..Len(s) /\ j \in 1..Len(s)
    BY <1>2, <1>4, <1>6, <2>4 DEF Queued
  <2> QED BY <2>1, <2>2, <2>3, <2>4
<1> QED BY <1>1, <1>5, <1>6 DEF q, NoRepeat

(***************************************************************************)
(* The invariant.                                                          *)
(***************************************************************************)

Futures == {NotMade, Pending, Failed, Given, Mixed} \cup {Answer(r) : r \in Requests}

EngineTypeOK ==
  /\ queue \in Seq(Requests) /\ window \in Seq(Requests)
  /\ staged \in Seq(Requests) /\ prev_futs \in Seq(Requests)
  /\ future \in [Requests -> Futures]
  /\ dropped \subseteq Requests

(* Who is in one of the three places.                                      *)
InHand(r) == Queued(queue, r) \/ Queued(window, r) \/ Queued(prev_futs, r)

(* Nobody is twice in one place or in two places.                          *)
PlacesInv ==
  /\ NoRepeat(queue) /\ NoRepeat(window) /\ NoRepeat(prev_futs)
  /\ \A r : ~(Queued(queue, r) /\ Queued(window, r))
  /\ \A r : ~(Queued(queue, r) /\ Queued(prev_futs, r))
  /\ \A r : ~(Queued(window, r) /\ Queued(prev_futs, r))

(* Who is in a place awaits its answer or has given up, and whoever awaits *)
(* is in a place or was taken away by a stop.                              *)
OwedInv ==
  /\ \A r \in Requests : InHand(r) => future[r] \in {Pending, Given} /\ r \notin dropped
  /\ \A r \in Requests : future[r] = Pending => InHand(r) \/ r \in dropped
  /\ \A r \in dropped : future[r] \in {Pending, Given}

(* The loop opens a window with nothing in its hands but the staged one,   *)
(* whose futures are those of its requests.                                *)
LoopInv ==
  /\ prev_futs = staged
  /\ task = "none" \/ (task = "running" /\ at \in {"first", "flush"}) => window = <<>>

(* A run is left in the executor by a stop, and only then shares the       *)
(* buffers of the graphs with another.                                     *)
RacedInv ==
  /\ stops \in Nat /\ left \in Nat
  /\ left > 0 => stops > 0
  /\ \A r \in raced : graphs /\ stops > 0

AsyncInv == EngineTypeOK /\ PlacesInv /\ OwedInv /\ LoopInv /\ RacedInv /\ OwnAnswer

(* The states of a future differ.                                          *)
LEMMA FuturesDiffer ==
  /\ NotMade # Pending /\ NotMade # Given /\ Pending # Failed /\ Pending # Given /\ Failed # Given
  /\ \A r : /\ Answer(r).st = "result" /\ Answer(r).of = r
            /\ Answer(r) \notin {NotMade, Pending, Failed, Given}
  /\ Mixed \notin {NotMade, Pending, Failed, Given}
  /\ \A f \in {NotMade, Pending, Failed, Given} : f.st # "result"
BY DEF NotMade, Pending, Failed, Given, Answer, Mixed

(* Nobody awaits anything of a new engine.                                 *)
LEMMA InitAsync == Init => AsyncInv
<1> SUFFICES ASSUME Init PROVE AsyncInv
  OBVIOUS
<1>1. <<>> \in Seq(Requests)
  BY EmptySeq
<1>2. EngineTypeOK
  BY <1>1 DEF Init, EngineTypeOK, Futures
<1>3. PlacesInv
  BY NobodyQueued DEF Init, PlacesInv
<1>4. OwedInv
  BY NobodyQueued, FuturesDiffer DEF Init, OwedInv, InHand
<1>5. LoopInv /\ RacedInv /\ OwnAnswer
  BY FuturesDiffer DEF Init, LoopInv, RacedInv, OwnAnswer
<1> QED BY <1>2, <1>3, <1>4, <1>5 DEF AsyncInv

(* Who was decoded beside a run that a stop has left stays so recorded, and *)
(* the engine keeps the core it was made with.                              *)
LEMMA RacedKeeps ==
  ASSUME RacedInv, [Next]_vars
  PROVE  RacedInv' /\ raced \subseteq raced'
<1>1. ASSUME UNCHANGED <<graphs, stops, left, raced>> PROVE RacedInv' /\ raced \subseteq raced'
  BY <1>1 DEF RacedInv
<1>2. ASSUME RunBegins, UNCHANGED <<graphs, stops>> PROVE RacedInv' /\ raced \subseteq raced'
  BY <1>2 DEF RacedInv, RunBegins
<1>3. CASE Stop
  BY <1>3 DEF Stop, RacedInv, mode
<1>4. CASE LeftRunReturns
  BY <1>4 DEF LeftRunReturns, RacedInv, mode
<1>5. CASE Dispatch \/ FlushBegins
  BY <1>1, <1>2, <1>5 DEF Dispatch, FlushBegins, mode, runs
<1>6. ASSUME NEW r \in Requests, Generate(r) \/ GiveUp(r)
      PROVE  UNCHANGED <<graphs, stops, left, raced>>
  BY <1>6 DEF Generate, GiveUp, mode, runs
<1>7. ASSUME Start \/ First \/ Collect \/ RunWhole \/ RunStaged \/ Flush \/ UNCHANGED vars
      PROVE  UNCHANGED <<graphs, stops, left, raced>>
  BY <1>7 DEF Start, First, Collect, RunWhole, RunStaged, Flush, vars, mode, runs
<1> QED BY <1>1, <1>3, <1>4, <1>5, <1>6, <1>7 DEF Next, Loop

(* A new request joins the queue.                                          *)
LEMMA GenerateKeeps ==
  ASSUME AsyncInv, NEW r \in Requests, Generate(r)
  PROVE  AsyncInv'
<1> USE DEF AsyncInv
<1>1. /\ future[r] = NotMade /\ future' = [future EXCEPT ![r] = Pending]
      /\ queue' = Append(queue, r)
      /\ UNCHANGED <<mode, task, at, window, staged, prev_futs, dropped, stops, runs>>
  BY DEF Generate
<1>2. ~InHand(r) /\ r \notin dropped
  BY <1>1, FuturesDiffer DEF OwedInv
<1>3. /\ queue' \in Seq(Requests) /\ NoRepeat(queue')
      /\ \A x : Queued(queue', x) <=> Queued(queue, x) \/ x = r
  BY <1>1, <1>2, AppendQueues, AppendProperties DEF EngineTypeOK, PlacesInv, InHand
<1>4. \A x \in Requests : future'[x] = IF x = r THEN Pending ELSE future[x]
  BY <1>1 DEF EngineTypeOK
<1>5. EngineTypeOK'
  BY <1>1, <1>3 DEF EngineTypeOK, Futures
<1>6. PlacesInv'
  BY <1>1, <1>2, <1>3 DEF PlacesInv, InHand
<1>7. OwedInv'
  <2>1. \A x : InHand(x)' <=> InHand(x) \/ x = r
    BY <1>1, <1>3 DEF InHand
  <2>2. dropped' = dropped /\ dropped \subseteq Requests
    BY <1>1 DEF EngineTypeOK
  <2> QED BY <1>2, <1>4, <2>1, <2>2 DEF OwedInv
<1>8. LoopInv'
  BY <1>1 DEF LoopInv
<1>9. RacedInv' /\ OwnAnswer'
  BY <1>1, <1>4, FuturesDiffer DEF RacedInv, OwnAnswer, mode, runs
<1> QED BY <1>5, <1>6, <1>7, <1>8, <1>9

(* A caller that gives up stays where it is until its turn.                *)
LEMMA GiveUpKeeps ==
  ASSUME AsyncInv, NEW r \in Requests, GiveUp(r)
  PROVE  AsyncInv'
<1> USE DEF AsyncInv
<1>1. /\ future[r] = Pending /\ future' = [future EXCEPT ![r] = Given]
      /\ UNCHANGED <<mode, queue, task, at, window, staged, prev_futs, dropped, stops, runs>>
  BY DEF GiveUp
<1>2. \A x \in Requests : future'[x] = IF x = r THEN Given ELSE future[x]
  BY <1>1 DEF EngineTypeOK
<1>3. EngineTypeOK'
  BY <1>1 DEF EngineTypeOK, Futures
<1>4. PlacesInv'
  BY <1>1 DEF PlacesInv
<1>5. OwedInv'
  <2>1. \A x : InHand(x)' <=> InHand(x)
    BY <1>1 DEF InHand
  <2>2. dropped' = dropped /\ dropped \subseteq Requests
    BY <1>1 DEF EngineTypeOK
  <2> QED BY <1>2, <2>1, <2>2, FuturesDiffer DEF OwedInv
<1>6. LoopInv' /\ RacedInv' /\ OwnAnswer'
  BY <1>1, <1>2, FuturesDiffer DEF LoopInv, RacedInv, OwnAnswer, mode, runs
<1> QED BY <1>3, <1>4, <1>5, <1>6

(* A loop begins, with nothing in its hands.                               *)
LEMMA StartKeeps ==
  ASSUME AsyncInv, Start
  PROVE  AsyncInv'
<1> USE DEF AsyncInv
<1>1. /\ task = "none" /\ task' = "running" /\ at' = "first"
      /\ UNCHANGED <<mode, queue, future, window, staged, prev_futs, dropped, stops, runs>>
  BY DEF Start
<1>2. EngineTypeOK' /\ PlacesInv' /\ LoopInv' /\ RacedInv' /\ OwnAnswer'
  BY <1>1 DEF EngineTypeOK, PlacesInv, LoopInv, RacedInv, OwnAnswer, mode, runs
<1>3. OwedInv'
  BY <1>1 DEF OwedInv, InHand
<1> QED BY <1>2, <1>3

(* What the loop had taken is recorded as lost.                            *)
LEMMA StopKeeps ==
  ASSUME AsyncInv, Stop
  PROVE  AsyncInv'
<1> USE DEF AsyncInv
<1>1. /\ task' = "none" /\ dropped' = dropped \cup Range(window) \cup Range(prev_futs)
      /\ window' = <<>> /\ staged' = <<>> /\ prev_futs' = <<>>
      /\ UNCHANGED <<mode, queue, future, at, raced>>
  BY DEF Stop
<1>2. \A r : /\ r \in Range(window) <=> Queued(window, r)
             /\ r \in Range(prev_futs) <=> Queued(prev_futs, r)
  BY LenProperties DEF EngineTypeOK, Range, Queued
<1>3. EngineTypeOK'
  <2>1. Range(window) \subseteq Requests /\ Range(prev_futs) \subseteq Requests
    BY <1>2, ElementOfSeq DEF EngineTypeOK, Queued
  <2> QED BY <1>1, <2>1, EmptySeq DEF EngineTypeOK
<1>4. PlacesInv'
  BY <1>1, NobodyQueued DEF PlacesInv
<1>5. OwedInv'
  <2>1. \A r : InHand(r)' <=> Queued(queue, r)
    BY <1>1, NobodyQueued DEF InHand
  <2>2. \A r : r \in dropped' <=> r \in dropped \/ Queued(window, r) \/ Queued(prev_futs, r)
    BY <1>1, <1>2
  <2>3. dropped' \subseteq Requests
    BY <1>3 DEF EngineTypeOK
  <2> QED BY <1>1, <2>1, <2>2, <2>3 DEF OwedInv, InHand, PlacesInv
<1>6. LoopInv' /\ RacedInv'
  BY <1>1, RacedKeeps DEF LoopInv, Next
<1>7. OwnAnswer'
  BY <1>1, <1>6 DEF OwnAnswer, RacedInv, mode
<1> QED BY <1>3, <1>4, <1>5, <1>6, <1>7

(***************************************************************************)
(* The loop.                                                               *)
(***************************************************************************)

(* A step that only moves requests between the places.                     *)
LEMMA MoveKeeps ==
  ASSUME AsyncInv, [Next]_vars, EngineTypeOK', PlacesInv', LoopInv', UNCHANGED <<future, dropped>>,
         \A r : InHand(r)' <=> InHand(r)
  PROVE  AsyncInv'
<1>1. OwedInv'
  BY DEF AsyncInv, OwedInv
<1>2. RacedInv' /\ raced \subseteq raced'
  BY RacedKeeps DEF AsyncInv
<1>3. OwnAnswer'
  BY <1>2 DEF AsyncInv, RacedInv, OwnAnswer
<1> QED BY <1>1, <1>2, <1>3 DEF AsyncInv

(* The first request of the queue opens a window.                          *)
LEMMA FirstKeeps ==
  ASSUME AsyncInv, First
  PROVE  AsyncInv'
<1> USE DEF AsyncInv
<1> DEFINE h == Head(queue)
<1>1. /\ task = "running" /\ at = "first" /\ queue # <<>> /\ window = <<>>
      /\ window' = <<h>> /\ queue' = Tail(queue) /\ at' = "collect"
      /\ UNCHANGED <<mode, future, task, staged, prev_futs, dropped, stops, runs>>
  BY DEF First, Awaits, LoopInv
<1>2. /\ h \in Requests /\ queue' \in Seq(Requests) /\ Queued(queue, h) /\ NoRepeat(queue')
      /\ \A x : Queued(queue', x) <=> Queued(queue, x) /\ x # h
  BY <1>1, TailQueues DEF EngineTypeOK, PlacesInv
<1> HIDE DEF h
<1>3. window' \in Seq(Requests) /\ NoRepeat(window') /\ \A x : Queued(window', x) <=> x = h
  <2>1. window' = Append(<<>>, h) /\ <<>> \in Seq(Requests)
    BY <1>1, EmptySeq
  <2> QED BY <1>2, <2>1, NobodyQueued, AppendQueues, AppendProperties
<1>4. EngineTypeOK'
  BY <1>1, <1>2, <1>3 DEF EngineTypeOK
<1>5. PlacesInv'
  BY <1>1, <1>2, <1>3 DEF PlacesInv
<1>6. \A x : InHand(x)' <=> InHand(x)
  BY <1>1, <1>2, <1>3, NobodyQueued DEF InHand
<1>7. LoopInv'
  BY <1>1 DEF LoopInv
<1> QED BY <1>1, <1>4, <1>5, <1>6, <1>7, MoveKeeps DEF Next, Loop

(* Further ones join it.                                                   *)
LEMMA CollectKeeps ==
  ASSUME AsyncInv, Collect
  PROVE  AsyncInv'
<1> USE DEF AsyncInv
<1> DEFINE h == Head(queue)
<1>1. /\ task = "running" /\ at = "collect" /\ queue # <<>>
      /\ window' = Append(window, h) /\ queue' = Tail(queue)
      /\ UNCHANGED <<mode, future, task, at, staged, prev_futs, dropped, stops, runs>>
  BY DEF Collect, Awaits
<1>2. /\ h \in Requests /\ queue' \in Seq(Requests) /\ Queued(queue, h) /\ NoRepeat(queue')
      /\ \A x : Queued(queue', x) <=> Queued(queue, x) /\ x # h
  BY <1>1, TailQueues DEF EngineTypeOK, PlacesInv
<1> HIDE DEF h
<1>3. /\ window' \in Seq(Requests) /\ NoRepeat(window')
      /\ \A x : Queued(window', x) <=> Queued(window, x) \/ x = h
  BY <1>1, <1>2, AppendQueues, AppendProperties DEF EngineTypeOK, PlacesInv
<1>4. EngineTypeOK'
  BY <1>1, <1>2, <1>3 DEF EngineTypeOK
<1>5. PlacesInv'
  BY <1>1, <1>2, <1>3 DEF PlacesInv
<1>6. \A x : InHand(x)' <=> InHand(x)
  BY <1>1, <1>2, <1>3 DEF InHand
<1>7. LoopInv'
  BY <1>1 DEF LoopInv
<1> QED BY <1>1, <1>4, <1>5, <1>6, <1>7, MoveKeeps DEF Next, Loop

(* A window is closed, or its collate raises and ends the loop; a run left *)
(* behind is over.                                                         *)
LEMMA DispatchKeeps ==
  ASSUME AsyncInv, Dispatch \/ FlushBegins \/ LeftRunReturns \/ UNCHANGED vars
  PROVE  AsyncInv'
<1> USE DEF AsyncInv
<1>1. UNCHANGED <<queue, future, window, staged, prev_futs, dropped>>
  BY DEF Dispatch, FlushBegins, LeftRunReturns, vars
<1>2. EngineTypeOK' /\ PlacesInv'
  BY <1>1 DEF EngineTypeOK, PlacesInv
<1>3. LoopInv'
  BY <1>1 DEF LoopInv, Dispatch, FlushBegins, LeftRunReturns, vars, Awaits
<1>4. \A x : InHand(x)' <=> InHand(x)
  BY <1>1 DEF InHand
<1> QED BY <1>1, <1>2, <1>3, <1>4, MoveKeeps DEF Next, Loop

(* What the core answers to request r.                                     *)
Reply(r, mixed) == IF r \in mixed THEN Mixed ELSE Answer(r)

(* Answers by position reach the callers of the requests.                  *)
LEMMA SetAnswers ==
  ASSUME NEW futs \in Seq(Requests), NEW mixed
  PROVE  Set(futs, futs, mixed) =
           [r \in Requests |-> IF future[r] = Pending /\ Queued(futs, r)
                               THEN Reply(r, mixed) ELSE future[r]]
<1> DEFINE v == [n \in DOMAIN futs \cap DOMAIN futs |->
                   IF futs[n] \in mixed THEN Mixed ELSE Answer(futs[n])]
<1>1. DOMAIN v = 1..Len(futs) /\ \A n \in 1..Len(futs) : v[n] = Reply(futs[n], mixed)
  BY LenProperties DEF Reply
<1> HIDE DEF v
<1>2. ASSUME NEW r \in Requests, Queued(futs, r)
      PROVE  /\ \E n \in DOMAIN v : futs[n] = r
             /\ v[CHOOSE n \in DOMAIN v : futs[n] = r] = Reply(r, mixed)
  BY <1>1, <1>2 DEF Queued
<1>3. \A r : (\E n \in DOMAIN v : futs[n] = r) => Queued(futs, r)
  BY <1>1 DEF Queued
<1> QED BY <1>2, <1>3 DEF Set, Resolved, v

(* An exception reaches the callers of the requests.                       *)
LEMMA FailAnswers ==
  ASSUME NEW futs \in Seq(Requests)
  PROVE  Fail(futs) = [r \in Requests |-> IF future[r] = Pending /\ Queued(futs, r)
                                          THEN Failed ELSE future[r]]
<1> DEFINE v == [n \in DOMAIN futs |-> Failed]
<1>1. DOMAIN v = 1..Len(futs) /\ \A n \in 1..Len(futs) : v[n] = Failed
  BY LenProperties
<1> HIDE DEF v
<1>2. ASSUME NEW r \in Requests, Queued(futs, r)
      PROVE  /\ \E n \in DOMAIN v : futs[n] = r
             /\ v[CHOOSE n \in DOMAIN v : futs[n] = r] = Failed
  BY <1>1, <1>2 DEF Queued
<1>3. \A r : (\E n \in DOMAIN v : futs[n] = r) => Queued(futs, r)
  BY <1>1 DEF Queued
<1> QED BY <1>2, <1>3 DEF Fail, Resolved, v

(* Some requests are answered and leave their places; all others stay.     *)
LEMMA AnswerKeeps ==
  ASSUME AsyncInv, [Next]_vars, NEW A,
         EngineTypeOK', PlacesInv', LoopInv', dropped' = dropped,
         \A r \in Requests : r \in A => InHand(r),
         \A r \in Requests : InHand(r)' <=> InHand(r) /\ r \notin A,
         \A r \in Requests : IF future[r] = Pending /\ r \in A
                             THEN \/ future'[r] \in {Answer(r), Failed}
                                  \/ future'[r] = Mixed /\ r \in raced
                             ELSE future'[r] = future[r]
  PROVE  AsyncInv'
<1> USE DEF AsyncInv
<1>1. OwedInv'
  <2>1. \A r \in dropped : r \in Requests /\ r \notin A
    BY DEF EngineTypeOK, OwedInv
  <2> QED BY <2>1, FuturesDiffer DEF OwedInv
<1>2. RacedInv' /\ raced \subseteq raced'
  BY RacedKeeps
<1>3. OwnAnswer'
  BY <1>2, FuturesDiffer DEF OwnAnswer, RacedInv
<1> QED BY <1>1, <1>2, <1>3

(* A whole window is answered.                                             *)
LEMMA RunWholeKeeps ==
  ASSUME AsyncInv, RunWhole
  PROVE  AsyncInv'
<1> USE DEF AsyncInv
<1> DEFINE A == {r \in Requests : Queued(window, r)}
<1>1. /\ (\E mixed \in SUBSET raced : future' = Set(window, window, mixed)) \/ future' = Fail(window)
      /\ window' = <<>> /\ UNCHANGED <<queue, staged, prev_futs, dropped>>
  BY DEF RunWhole
<1>2. /\ future' \in [Requests -> Futures]
      /\ \A r \in Requests : IF future[r] = Pending /\ r \in A
                             THEN \/ future'[r] \in {Answer(r), Failed}
                                  \/ future'[r] = Mixed /\ r \in raced
                             ELSE future'[r] = future[r]
  BY <1>1, SetAnswers, FailAnswers DEF EngineTypeOK, Futures, Reply
<1>3. EngineTypeOK'
  BY <1>1, <1>2, EmptySeq DEF EngineTypeOK
<1>4. PlacesInv'
  BY <1>1, NobodyQueued DEF PlacesInv
<1>5. LoopInv'
  BY <1>1 DEF LoopInv
<1>6. \A r \in Requests : r \in A => InHand(r)
  BY DEF InHand
<1>7. \A r \in Requests : InHand(r)' <=> InHand(r) /\ r \notin A
  BY <1>1, NobodyQueued DEF InHand, PlacesInv
<1> HIDE DEF A
<1> QED BY <1>1, <1>2, <1>3, <1>4, <1>5, <1>6, <1>7, AnswerKeeps DEF Next, Loop

(* The staged window is answered alone.                                    *)
LEMMA FlushKeeps ==
  ASSUME AsyncInv, Flush
  PROVE  AsyncInv'
<1> USE DEF AsyncInv
<1> DEFINE A == {r \in Requests : Queued(prev_futs, r)}
<1>1. /\ \/ \E mixed \in SUBSET raced : future' = Set(prev_futs, prev_futs, mixed)
         \/ future' = Fail(prev_futs)
      /\ staged' = <<>> /\ prev_futs' = <<>> /\ UNCHANGED <<queue, window, dropped, task>>
      /\ task = "running" /\ at = "flush"
  BY DEF Flush, LoopInv, Awaits
<1>2. /\ future' \in [Requests -> Futures]
      /\ \A r \in Requests : IF future[r] = Pending /\ r \in A
                             THEN \/ future'[r] \in {Answer(r), Failed}
                                  \/ future'[r] = Mixed /\ r \in raced
                             ELSE future'[r] = future[r]
  BY <1>1, SetAnswers, FailAnswers DEF EngineTypeOK, Futures, Reply
<1>3. EngineTypeOK'
  BY <1>1, <1>2, EmptySeq DEF EngineTypeOK
<1>4. PlacesInv'
  BY <1>1, NobodyQueued DEF PlacesInv
<1>5. LoopInv'
  BY <1>1 DEF LoopInv
<1>6. \A r \in Requests : r \in A => InHand(r)
  BY DEF InHand
<1>7. \A r \in Requests : InHand(r)' <=> InHand(r) /\ r \notin A
  BY <1>1, NobodyQueued DEF InHand, PlacesInv
<1> HIDE DEF A
<1> QED BY <1>1, <1>2, <1>3, <1>4, <1>5, <1>6, <1>7, AnswerKeeps DEF Next, Loop

(* The staged window is answered, the new one takes its place; or an       *)
(* exception answers both.                                                 *)
LEMMA RunStagedKeeps ==
  ASSUME AsyncInv, RunStaged
  PROVE  AsyncInv'
<1> USE DEF AsyncInv
<1>1. window' = <<>> /\ UNCHANGED <<queue, dropped, task>>
  BY DEF RunStaged
<1>2. CASE /\ \E mixed \in SUBSET raced : future' = Set(prev_futs, prev_futs, mixed)
           /\ staged' = window /\ prev_futs' = window
  <2> DEFINE A == {r \in Requests : Queued(prev_futs, r)}
  <2>1. /\ future' \in [Requests -> Futures]
        /\ \A r \in Requests : IF future[r] = Pending /\ r \in A
                               THEN \/ future'[r] \in {Answer(r), Failed}
                                    \/ future'[r] = Mixed /\ r \in raced
                               ELSE future'[r] = future[r]
    <3>1. PICK mixed \in SUBSET raced : future' = Set(prev_futs, prev_futs, mixed)
      BY <1>2
    <3>2. future' = [r \in Requests |-> IF future[r] = Pending /\ Queued(prev_futs, r)
                                        THEN Reply(r, mixed) ELSE future[r]]
      BY <3>1, SetAnswers DEF EngineTypeOK
    <3> QED BY <3>2 DEF EngineTypeOK, Futures, Reply
  <2>2. EngineTypeOK'
    BY <1>1, <1>2, <2>1, EmptySeq DEF EngineTypeOK
  <2>3. PlacesInv'
    BY <1>1, <1>2, NobodyQueued DEF PlacesInv
  <2>4. LoopInv'
    BY <1>1, <1>2 DEF LoopInv
  <2>5. \A r \in Requests : r \in A => InHand(r)
    BY DEF InHand
  <2>6. \A r \in Requests : InHand(r)' <=> InHand(r) /\ r \notin A
    BY <1>1, <1>2, NobodyQueued DEF InHand, PlacesInv
  <2> HIDE DEF A
  <2> QED BY <1>1, <2>1, <2>2, <2>3, <2>4, <2>5, <2>6, AnswerKeeps DEF Next, Loop
<1>3. CASE future' = Fail(window \o prev_futs) /\ staged' = <<>> /\ prev_futs' = <<>>
  <2> DEFINE A == {r \in Requests : Queued(window, r) \/ Queued(prev_futs, r)}
  <2>1. /\ window \o prev_futs \in Seq(Requests)
        /\ \A r : Queued(window \o prev_futs, r) <=> Queued(window, r) \/ Queued(prev_futs, r)
    BY ConcatQueues DEF EngineTypeOK
  <2>2. /\ future' \in [Requests -> Futures]
        /\ \A r \in Requests : IF future[r] = Pending /\ r \in A
                               THEN \/ future'[r] \in {Answer(r), Failed}
                                    \/ future'[r] = Mixed /\ r \in raced
                               ELSE future'[r] = future[r]
    <3>1. \A r \in Requests : future'[r] = IF future[r] = Pending /\ r \in A THEN Failed ELSE future[r]
      BY <1>3, <2>1, FailAnswers
    <3>2. future' \in [Requests -> Futures]
      <4>1. future' = [r \in Requests |-> IF future[r] = Pending /\ Queued(window \o prev_futs, r)
                                          THEN Failed ELSE future[r]]
        BY <1>3, <2>1, FailAnswers
      <4> QED BY <4>1 DEF EngineTypeOK, Futures
    <3> QED BY <3>1, <3>2
  <2>3. EngineTypeOK'
    BY <1>1, <1>3, <2>2, EmptySeq DEF EngineTypeOK
  <2>4. PlacesInv'
    BY <1>1, <1>3, NobodyQueued DEF PlacesInv
  <2>5. LoopInv'
    BY <1>1, <1>3 DEF LoopInv
  <2>6. \A r \in Requests : r \in A => InHand(r)
    BY DEF InHand
  <2>7. \A r \in Requests : InHand(r)' <=> InHand(r) /\ r \notin A
    BY <1>1, <1>3, NobodyQueued DEF InHand, PlacesInv
  <2> HIDE DEF A
  <2> QED BY <1>1, <2>2, <2>3, <2>4, <2>5, <2>6, <2>7, AnswerKeeps DEF Next, Loop
<1> QED BY <1>2, <1>3 DEF RunStaged, LoopInv

(* The engine keeps its books whatever is stopped, cancelled or fails.     *)
THEOREM AsyncInvariant == Spec => []AsyncInv
<1>1. AsyncInv /\ [Next]_vars => AsyncInv'
  <2> SUFFICES ASSUME AsyncInv, [Next]_vars PROVE AsyncInv'
    OBVIOUS
  <2>1. ASSUME NEW r \in Requests, Generate(r) \/ GiveUp(r) PROVE AsyncInv'
    BY <2>1, GenerateKeeps, GiveUpKeeps
  <2>2. CASE Start \/ Stop \/ LeftRunReturns
    BY <2>2, StartKeeps, StopKeeps, DispatchKeeps
  <2>3. CASE Loop
    BY <2>3, FirstKeeps, CollectKeeps, DispatchKeeps, RunWholeKeeps, RunStagedKeeps, FlushKeeps
       DEF Loop
  <2>4. CASE UNCHANGED vars
    BY <2>4, DispatchKeeps
  <2> QED BY <2>1, <2>2, <2>3, <2>4 DEF Next
<1> QED BY <1>1, InitAsync, PTL DEF Spec

(* Each awaited request is in exactly one place, in either mode and for    *)
(* any number of windows.                                                  *)
THEOREM EachIsOwedOnce == Spec => []OwedOnce
<1>1. AsyncInv => OwedOnce
  <2> SUFFICES ASSUME AsyncInv PROVE OwedOnce
    OBVIOUS
  <2> DEFINE front == queue \o window
             owed == front \o prev_futs
  <2>1. /\ front \in Seq(Requests) /\ NoRepeat(front)
        /\ \A r : Queued(front, r) <=> Queued(queue, r) \/ Queued(window, r)
    BY ConcatQueues DEF AsyncInv, EngineTypeOK, PlacesInv
  <2> HIDE DEF front
  <2>2. owed \in Seq(Requests) /\ NoRepeat(owed) /\ \A r : Queued(owed, r) <=> InHand(r)
    BY <2>1, ConcatQueues DEF AsyncInv, EngineTypeOK, PlacesInv, InHand
  <2>3. owed = queue \o window \o prev_futs
    BY DEF front
  <2> HIDE DEF owed
  <2>4. DOMAIN owed = 1..Len(owed) /\ Range(owed) \subseteq Requests
    BY <2>2, LenProperties, ElementOfSeq DEF Range
  <2>5. \A r : r \in Range(owed) <=> InHand(r)
    BY <2>2, <2>4 DEF Range, Queued
  <2>6. IsInjective(owed)
    BY <2>2, <2>4 DEF IsInjective, NoRepeat
  <2> QED BY <2>3, <2>4, <2>5, <2>6 DEF OwedOnce, AsyncInv, OwedInv
<1> QED BY <1>1, AsyncInvariant, PTL

(* Nobody gets the actions of another observation, of an engine that is    *)
(* never stopped or whose core is eager under any circumstances; with      *)
(* graphs, unless their run was beside one that a stop had left.           *)
THEOREM AnswersAreOwn == Spec => []OwnAnswer
<1>1. AsyncInv => OwnAnswer
  BY DEF AsyncInv
<1> QED BY <1>1, AsyncInvariant, PTL

(***************************************************************************)
(* What is owed can be done.                                               *)
(***************************************************************************)

(* The guards of Start and of the steps of the loop.                       *)
LoopCanGo ==
  \/ task = "none"
  \/ task = "running" /\ (at = "first" => queue # <<>> \/ staged # <<>>)

LoopIsNotStuck ==
  \A r \in Requests :
    future[r] = Pending /\ r \notin dropped => LoopCanGo \/ (CollateFails /\ task = "dead")

(* Only a rejected window ends the loop task.                              *)
DeathInv == task \in {"none", "running"} \/ (CollateFails /\ task = "dead")

(* Whatever is stopped, cancelled or fails: while a caller awaits an answer *)
(* that no stop has taken away, the loop task can be started or has a next  *)
(* step, a staged window that nothing follows included, unless collate has  *)
(* raised in the task itself.                                               *)
THEOREM LoopGoesOn == Spec => []LoopIsNotStuck
<1>1. Init => DeathInv
  BY DEF Init, DeathInv
<1>2. DeathInv /\ [Next]_vars => DeathInv'
  BY DEF DeathInv, Next, vars, Generate, GiveUp, Start, Stop, LeftRunReturns, Loop, First, Collect, Dispatch,
         RunWhole, RunStaged, FlushBegins, Flush
<1>3. ASSUME AsyncInv, DeathInv PROVE LoopIsNotStuck
  <2> SUFFICES ASSUME NEW r \in Requests, future[r] = Pending, r \notin dropped,
                      task = "running", at = "first"
               PROVE  queue # <<>> \/ staged # <<>>
    BY <1>3 DEF LoopIsNotStuck, LoopCanGo, DeathInv
  <2>1. InHand(r) /\ window = <<>> /\ prev_futs = staged
    BY <1>3 DEF AsyncInv, OwedInv, LoopInv
  <2> QED BY <2>1, NobodyQueued DEF InHand
<1> QED BY <1>1, <1>2, <1>3, AsyncInvariant, PTL DEF Spec
=============================================================================
