-------------------------- MODULE StreamBatch_proofs --------------------------
(***************************************************************************)
(* Proofs about StreamHistory and StreamBatch, for every window profile,   *)
(* batch size, workspace, tree width and length of answers.                *)
(***************************************************************************)
EXTENDS StreamBatch, WellFoundedInduction, TLAPS

(***************************************************************************)
(* Arithmetic of the window profile.                                       *)
(***************************************************************************)

(* What quotient and remainder are, for the selection of slow frames. *)
LEMMA DivMod ==
  ASSUME NEW n \in Nat, NEW c \in Nat, c > 0
  PROVE  /\ n = (c * (n \div c)) + (n % c)
         /\ n % c \in 0..c - 1
         /\ n \div c \in Nat
  BY Z3

(* A multiple divided by its factor gives the other factor. *)
LEMMA MultipleDiv ==
  ASSUME NEW a \in Nat, NEW c \in Nat, c > 0
  PROVE  (a * c) \div c = a
  BY Z3

(* A multiple leaves no remainder. *)
LEMMA MultipleMod ==
  ASSUME NEW a \in Nat, NEW c \in Nat, c > 0
  PROVE  (a * c) % c = 0
  BY Z3

(* Products of naturals are naturals. *)
LEMMA ProductNat ==
  ASSUME NEW a \in Nat, NEW b \in Nat
  PROVE  a * b \in Nat
  BY Z3

(* A factor times the quotient restores the number. *)
LEMMA Divides ==
  ASSUME NEW w \in Nat, NEW h \in Nat, h > 0, w % h = 0
  PROVE  w = (w \div h) * h /\ w \div h \in Nat
<1>1. w = (h * (w \div h)) + (w % h) /\ w \div h \in Nat
  BY DivMod
<1> QED BY <1>1, Z3

(* Every frame a window boundary selects lies before the boundary and is a *)
(* frame whose features are retained (slow_frame_indices against           *)
(* retains_history_feature), also for a profile that does not divide.      *)
LEMMA SelectedIsRetained ==
  ASSUME NEW q \in Nat, q > 0, NEW k \in 1..num_history
  PROVE  LET b == q * window_size
             index == (k - 1) * (b \div num_history)
         IN  index \in 0..b - 1 /\ retains_history_feature(index)
<1> DEFINE W == window_size
           H == num_history
           s == (q * W) \div H
<1>1. W \in Nat /\ H \in Nat /\ W > 0 /\ H > 0 /\ H <= W
  BY ProfileAssumption
<1>2. q * W \in Nat
  BY <1>1, ProductNat
<1>3. s \in Nat /\ q * W = (H * s) + ((q * W) % H) /\ (q * W) % H \in 0..H-1
  BY <1>1, <1>2, DivMod
<1>4. q * W >= W
  BY <1>1, Z3
<1>5. s > 0
  <2>1. CASE s = 0
    BY <2>1, <1>1, <1>3, <1>4, Z3
  <2> QED BY <2>1, <1>3
<1>6. (k - 1) * s \in Nat /\ (k - 1) * s < q * W
  <2>1. k - 1 \in Nat /\ k - 1 <= H - 1
    BY <1>1
  <2>2. (k - 1) * s \in Nat
    BY <2>1, <1>3, ProductNat
  <2>3. (k - 1) * s <= (H - 1) * s
    BY <2>1, <1>1, <1>3, Z3
  <2>4. (H - 1) * s = (H * s) - s
    BY <1>1, <1>3, Z3
  <2>5. H * s \in Nat
    BY <1>1, <1>3, ProductNat
  <2> QED BY <2>2, <2>3, <2>4, <2>5, <1>2, <1>3, <1>5
<1>7. CASE W % H # 0
  BY <1>6, <1>7, <1>2 DEF retains_history_feature
<1>8. CASE W % H = 0
  <2> DEFINE c == W \div H
  <2>1. W = c * H /\ c \in Nat
    BY <1>1, <1>8, Divides
  <2>2. c > 0
    BY <2>1, <1>1, Z3
  <2>3. q * W = (q * c) * H /\ q * c \in Nat
    BY <2>1, <1>1, Z3, ProductNat
  <2>4. s = q * c
    BY <2>3, <1>1, MultipleDiv
  <2>5. (k - 1) * s = ((k - 1) * q) * c
    BY <2>4, <2>1, <1>1, Z3
  <2>6. (k - 1) * q \in Nat
    BY <1>1, ProductNat
  <2>7. ((k - 1) * s) % c = 0
    BY <2>5, <2>6, <2>1, <2>2, MultipleMod
  <2> QED BY <2>7, <1>6, <1>2 DEF retains_history_feature
<1> QED BY <1>7, <1>8, <1>1

(***************************************************************************)
(* The history of one request.                                             *)
(***************************************************************************)

(* A history is well kept: one entry per committed frame, and the entry    *)
(* says whether that frame is retained.                                    *)
WellKept(step_id, features) ==
  /\ step_id \in Nat
  /\ features \in Seq(BOOLEAN)
  /\ Len(features) = step_id
  /\ \A k \in 1..step_id : features[k] = retains_history_feature(k - 1)

(* The selection of a boundary at or before step_id is complete. *)
Complete(slow, step_id, features) ==
  \A k \in DOMAIN slow :
    /\ slow[k] + 1 \in DOMAIN features
    /\ features[slow[k] + 1]

(* One sequence behind another.                                            *)
LEMMA Concatenation ==
  ASSUME NEW S, NEW s \in Seq(S), NEW t \in Seq(S)
  PROVE  /\ s \o t \in Seq(S) /\ Len(s) \in Nat /\ Len(t) \in Nat
         /\ Len(s \o t) = Len(s) + Len(t)
         /\ \A k \in 1..Len(s) : (s \o t)[k] = s[k]
         /\ \A k \in 1..Len(t) : (s \o t)[Len(s) + k] = t[k]
<1>1. s \o t \in Seq(S) /\ Len(s) \in Nat /\ Len(t) \in Nat
  OBVIOUS
<1>2. Len(s \o t) = Len(s) + Len(t)
  OBVIOUS
<1>3. \A k \in 1..Len(s) : (s \o t)[k] = s[k]
  OBVIOUS
<1>4. ASSUME NEW k \in 1..Len(t) PROVE (s \o t)[Len(s) + k] = t[k]
  <2>1. Len(s) + k \in 1..Len(s) + Len(t) /\ Len(s) + k > Len(s) /\ (Len(s) + k) - Len(s) = k
    BY <1>1
  <2> QED BY <1>1, <2>1
<1> QED BY <1>1, <1>2, <1>3, <1>4

(* What prepare_prefix makes of a well kept history is well kept, and its  *)
(* selection finds every frame it names.                                   *)
LEMMA PrepareKeeps ==
  ASSUME NEW committed, NEW frames \in Nat \ {0},
         WellKept(committed.step_id, committed.features)
  PROVE  LET p == Prepare(committed, frames)
         IN  /\ WellKept(p.step_id, p.features)
             /\ Selectable(p)
             /\ p.window_start /\ p.step_id >= window_size => Len(p.slow) = num_history
             /\ p.window_start \in BOOLEAN
<1> DEFINE p == Prepare(committed, frames)
           n == committed.step_id
           added == [k \in 1..frames - 1 |-> retains_history_feature(n + k - 1)]
           stream == n + frames - 1
           q == stream \div window_size
<1>1. /\ p.step_id = stream
      /\ p.features = committed.features \o added
      /\ p.slow = SlowSelection(committed, stream)
      /\ p.window_start = StartsWindow(committed, stream)
  BY DEF Prepare
<1>2. stream \in Nat /\ n \in Nat /\ stream = n + (frames - 1) /\ frames - 1 \in Nat
  BY DEF WellKept
<1>3. \A j : retains_history_feature(j) \in BOOLEAN
  BY DEF retains_history_feature
<1>4. added \in Seq(BOOLEAN) /\ Len(added) = frames - 1
  BY <1>2, <1>3
<1>5. /\ p.features \in Seq(BOOLEAN) /\ Len(p.features) = stream
      /\ \A k \in 1..n : p.features[k] = committed.features[k]
      /\ \A k \in n + 1..stream : p.features[k] = added[k - n]
  <2>1. committed.features \in Seq(BOOLEAN) /\ Len(committed.features) = n
    BY DEF WellKept
  <2>2. p.features = committed.features \o added
    BY <1>1
  <2> HIDE DEF added, p, n
  <2>3. /\ committed.features \o added \in Seq(BOOLEAN)
        /\ Len(committed.features \o added) = n + (frames - 1)
        /\ \A k \in 1..n : (committed.features \o added)[k] = committed.features[k]
        /\ \A k \in n + 1..n + (frames - 1) :
              (committed.features \o added)[k] = added[k - n]
    <3>1. /\ committed.features \o added \in Seq(BOOLEAN)
          /\ Len(committed.features \o added) = n + (frames - 1)
          /\ \A k \in 1..n : (committed.features \o added)[k] = committed.features[k]
          /\ \A k \in 1..frames - 1 : (committed.features \o added)[n + k] = added[k]
      <4> DEFINE old  == committed.features
                 Flag == BOOLEAN
                 Joins(S, s, t) == /\ s \o t \in Seq(S) /\ Len(s \o t) = Len(s) + Len(t)
                                   /\ \A k \in 1..Len(s) : (s \o t)[k] = s[k]
                                   /\ \A k \in 1..Len(t) : (s \o t)[Len(s) + k] = t[k]
      <4>1. old \in Seq(Flag) /\ added \in Seq(Flag) /\ Len(old) = n /\ Len(added) = frames - 1
        BY <2>1, <1>4
      <4>2. ASSUME NEW S, NEW s \in Seq(S), NEW t \in Seq(S)
            PROVE  Joins(S, s, t)
        BY Concatenation
      <4> HIDE DEF old, Flag, Joins
      <4>3. Joins(Flag, old, added)
        BY <4>1, <4>2, Zenon
      <4> QED BY <4>1, <4>3, Zenon DEF old, Flag, Joins
    <3>2. ASSUME NEW k \in n + 1..n + (frames - 1)
          PROVE  k - n \in 1..frames - 1 /\ n + (k - n) = k
      BY <1>2
    <3> QED BY <3>1, <3>2
  <2>4. stream = n + (frames - 1)
    BY <1>2
  <2> HIDE DEF stream
  <2> QED BY <2>2, <2>3, <2>4
<1>6. \A k \in 1..stream : p.features[k] = retains_history_feature(k - 1)
  <2> SUFFICES ASSUME NEW k \in 1..stream
               PROVE  p.features[k] = retains_history_feature(k - 1)
    OBVIOUS
  <2>1. CASE k \in 1..n
    BY <2>1, <1>5 DEF WellKept
  <2>2. CASE k \in n + 1..stream
    <3>1. k - n \in 1..frames - 1
      BY <2>2, <1>2
    <3>2. added[k - n] = retains_history_feature(n + (k - n) - 1)
      BY <3>1
    <3>3. n + (k - n) - 1 = k - 1
      BY <1>2
    <3> QED BY <3>2, <3>3, <2>2, <1>5
  <2> QED BY <2>1, <2>2, <1>2
<1>7. WellKept(p.step_id, p.features)
  <2> HIDE DEF p, stream, n, added
  <2> QED BY <1>1, <1>2, <1>5, <1>6 DEF WellKept
<1>8. window_size \in Nat /\ window_size > 0 /\ num_history \in Nat
  BY ProfileAssumption
<1>9. q \in Nat /\ stream = (window_size * q) + (stream % window_size)
        /\ stream % window_size \in 0..window_size - 1
  BY <1>2, <1>8, DivMod
<1>10. q * window_size \in Nat /\ q * window_size <= stream
         /\ (q = 0 <=> stream < window_size) /\ (q = 0 => q * window_size = 0)
  <2>1. q * window_size = window_size * q /\ q * window_size \in Nat
    BY <1>8, <1>9, ProductNat, Z3
  <2>2. q * window_size <= stream
    BY <2>1, <1>9, <1>8, <1>2
  <2>3. q > 0 => q * window_size >= window_size
    BY <1>8, <1>9, Z3
  <2>4. q = 0 => q * window_size = 0
    BY <1>8, Z3
  <2> HIDE DEF q
  <2> QED BY <2>1, <2>2, <2>3, <2>4, <1>9, <1>8, <1>2
<1>11. q > 0 => q * window_size > 0 /\ (q * window_size) % window_size = 0
  <2>1. (q * window_size) % window_size = 0
    BY <1>8, <1>9, MultipleMod
  <2>2. q > 0 => q * window_size > 0
    <3> HIDE DEF q
    <3> QED BY <1>8, <1>9, Z3
  <2> QED BY <2>1, <2>2
<1>12. StartsWindow(committed, stream) /\ q > 0 =>
         p.slow = [k \in 1..num_history |-> (k - 1) * ((q * window_size) \div num_history)]
  BY <1>1, <1>10, <1>11 DEF SlowSelection, slow_frame_indices
<1>13. ~(StartsWindow(committed, stream) /\ q > 0) => p.slow = <<>>
  BY <1>1, <1>9, <1>10 DEF SlowSelection, slow_frame_indices
<1>14. Selectable(p)
  <2>1. CASE StartsWindow(committed, stream) /\ q > 0
    <3> SUFFICES ASSUME NEW k \in 1..num_history
                 PROVE  LET f == (k - 1) * ((q * window_size) \div num_history)
                        IN  f + 1 \in DOMAIN p.features /\ p.features[f + 1]
      BY <2>1, <1>12 DEF Selectable
    <3> DEFINE f == (k - 1) * ((q * window_size) \div num_history)
    <3>1. f \in 0..(q * window_size) - 1 /\ retains_history_feature(f)
      BY SelectedIsRetained, <2>1, <1>9
    <3>2. f + 1 \in 1..stream /\ (f + 1) - 1 = f
      <4> HIDE DEF f, q
      <4> QED BY <3>1, <1>10, <1>2
    <3>3. f + 1 \in DOMAIN p.features
      BY <3>2, <1>5
    <3>4. p.features[f + 1] = retains_history_feature(f)
      <4> HIDE DEF f, p, stream
      <4> QED BY <3>2, <1>6
    <3> QED BY <3>1, <3>3, <3>4
  <2>2. CASE ~(StartsWindow(committed, stream) /\ q > 0)
    BY <2>2, <1>13 DEF Selectable
  <2> QED BY <2>1, <2>2
<1>15. p.window_start /\ p.step_id >= window_size => Len(p.slow) = num_history
  <2> SUFFICES ASSUME p.window_start, p.step_id >= window_size
               PROVE  Len(p.slow) = num_history
    OBVIOUS
  <2>1. StartsWindow(committed, stream) /\ stream >= window_size
    BY <1>1
  <2>2. q > 0
    <3> HIDE DEF q, stream
    <3> QED BY <2>1, <1>2, <1>8, <1>9, <1>10
  <2> QED BY <2>1, <2>2, <1>12, <1>8
<1>16. p.window_start \in BOOLEAN
  BY <1>1 DEF StartsWindow
<1> QED BY <1>7, <1>14, <1>15, <1>16

(***************************************************************************)
(* Sequences whose elements have no common type.                           *)
(***************************************************************************)

SeqLike(s) == \E S : s \in Seq(S)

(* A function on 1..n is a sequence. *)
LEMMA FcnIsSeq ==
  ASSUME NEW n \in Nat, NEW s, s = [i \in 1..n |-> s[i]]
  PROVE  SeqLike(s) /\ Len(s) = n
<1> DEFINE S == {s[i] : i \in 1..n}
<1>1. s \in [1..n -> S]
  BY Zenon
<1>2. s \in Seq(S) /\ Len(s) = n
  <2> HIDE DEF S
  <2> QED BY <1>1
<1> QED BY <1>2, Zenon DEF SeqLike

(* A sequence is the function of its elements. *)
LEMMA SeqIsFcn ==
  ASSUME NEW s, SeqLike(s)
  PROVE  Len(s) \in Nat /\ s = [i \in 1..Len(s) |-> s[i]] /\ DOMAIN s = 1..Len(s)
<1>1. PICK S : s \in Seq(S)
  BY Zenon DEF SeqLike
<1> QED BY <1>1

(* Appending one element. *)
LEMMA AppendIsSeq ==
  ASSUME NEW s, SeqLike(s), NEW e
  PROVE  /\ SeqLike(Append(s, e)) /\ Len(Append(s, e)) = Len(s) + 1
         /\ Len(s) \in Nat
         /\ \A i \in 1..Len(s) : Append(s, e)[i] = s[i]
         /\ Append(s, e)[Len(s) + 1] = e
<1>1. PICK S : s \in Seq(S)
  BY Zenon DEF SeqLike
<1> DEFINE T == S \cup {e}
<1>2. s \in Seq(T) /\ e \in T
  BY <1>1
<1> HIDE DEF T
<1>3. Append(s, e) \in Seq(T)
  BY <1>2
<1>4. SeqLike(Append(s, e))
  BY <1>3, Zenon DEF SeqLike
<1> QED BY <1>2, <1>4

(* Two sequences have elements of a common set. *)
LEMMA CommonSet ==
  ASSUME NEW s, SeqLike(s), NEW t, SeqLike(t)
  PROVE  \E T : s \in Seq(T) /\ t \in Seq(T)
<1>1. PICK S : s \in Seq(S)
  BY Zenon DEF SeqLike
<1>2. PICK R : t \in Seq(R)
  BY Zenon DEF SeqLike
<1>3. s \in Seq(S \cup R) /\ t \in Seq(S \cup R)
  BY <1>1, <1>2
<1> QED BY <1>3, Zenon

(* A function with the domain of a sequence is a sequence of its length. *)
LEMMA SameDomain ==
  ASSUME NEW s, SeqLike(s), NEW u, u = [i \in DOMAIN s |-> u[i]]
  PROVE  SeqLike(u) /\ Len(u) = Len(s)
<1>1. Len(s) \in Nat /\ DOMAIN s = 1..Len(s)
  BY SeqIsFcn
<1>2. u = [i \in 1..Len(s) |-> u[i]]
  BY <1>1
<1> QED BY <1>1, <1>2, FcnIsSeq

(***************************************************************************)
(* Induction, and the sums that lay out the rows.                          *)
(***************************************************************************)

(* Induction, as a fact about sets of numbers.                             *)
LEMMA LeastNumber ==
  ASSUME NEW T, T \subseteq Nat, T # {}
  PROVE  \E x \in T : \A y \in T : x <= y
<1> DEFINE less == {ss \in Nat \X Nat : ss[1] < ss[2]}
<1>1. IsWellFoundedOn(less, Nat)
  BY NatLessThanWellFounded DEF OpToRel
<1> HIDE DEF less
<1>2. PICK x \in T : \A y \in T : ~(<<y, x>> \in less)
  BY <1>1, WFMin
<1>3. ASSUME NEW y \in T PROVE x <= y
  <2>1. x \in Nat /\ y \in Nat /\ <<y, x>> \notin less
    BY <1>2
  <2>2. ~(y < x)
    BY <2>1 DEF less
  <2> QED BY <2>1, <2>2
<1> QED BY <1>3

LEMMA Induction ==
  ASSUME NEW S, 0 \in S, \A n \in Nat : n \in S => n + 1 \in S
  PROVE  Nat \subseteq S
<1>1. SUFFICES ASSUME Nat \ S # {} PROVE FALSE
  OBVIOUS
<1>2. PICK x \in Nat \ S : \A y \in Nat \ S : x <= y
  BY <1>1, LeastNumber
<1>3. x - 1 \in Nat /\ x - 1 \in S
  BY <1>2
<1> QED BY <1>2, <1>3

(* A function of natural numbers that never falls from one number to the   *)
(* next rises; one that never stays rises strictly.                        *)
LEMMA Rises ==
  ASSUME NEW a \in Nat, NEW b \in Nat, NEW g, \A k \in a..b : g[k] \in Int,
         \A k \in a + 1..b : g[k - 1] <= g[k]
  PROVE  \A i, j \in a..b : i <= j => g[i] <= g[j]
<1> DEFINE S == {n \in Nat : \A i, j \in a..b : j = i + n => g[i] <= g[j]}
<1>1. 0 \in S
  OBVIOUS
<1>2. ASSUME NEW n \in Nat, n \in S PROVE n + 1 \in S
  <2> SUFFICES ASSUME NEW i \in a..b, NEW j \in a..b, j = i + (n + 1) PROVE g[i] <= g[j]
    OBVIOUS
  <2>1. j - 1 \in a..b /\ j - 1 = i + n /\ j \in a + 1..b
    OBVIOUS
  <2>2. g[i] <= g[j - 1] /\ g[j - 1] <= g[j]
    BY <1>2, <2>1
  <2>3. g[i] \in Int /\ g[j - 1] \in Int /\ g[j] \in Int
    BY <2>1
  <2> QED BY <2>2, <2>3
<1>3. Nat \subseteq S
  <2> HIDE DEF S
  <2> QED BY <1>1, <1>2, Induction
<1>4. ASSUME NEW i \in a..b, NEW j \in a..b, i <= j PROVE g[i] <= g[j]
  <2>1. j - i \in Nat /\ j = i + (j - i)
    BY <1>4
  <2> QED BY <1>3, <2>1
<1> QED BY <1>4

LEMMA RisesStrictly ==
  ASSUME NEW a \in Nat, NEW b \in Nat, NEW g, \A k \in a..b : g[k] \in Int,
         \A k \in a + 1..b : g[k - 1] < g[k]
  PROVE  \A i, j \in a..b : g[i] = g[j] => i = j
<1>1. \A i, j \in a..b : i <= j => g[i] <= g[j]
  <2>1. \A k \in a + 1..b : g[k - 1] <= g[k]
    <3>1. \A k \in a + 1..b : k - 1 \in a..b /\ k \in a..b
      OBVIOUS
    <3> QED BY <3>1
  <2> QED BY <2>1, Rises
<1>2. ASSUME NEW i \in a..b, NEW j \in a..b, i < j PROVE g[i] < g[j]
  <2>1. j - 1 \in a..b /\ i <= j - 1 /\ j \in a + 1..b
    BY <1>2
  <2>2. g[i] <= g[j - 1] /\ g[j - 1] < g[j] /\ g[i] \in Int /\ g[j - 1] \in Int /\ g[j] \in Int
    BY <1>1, <2>1
  <2> QED BY <2>2
<1>3. \A i, j \in a..b : i < j \/ i = j \/ j < i
  OBVIOUS
<1>4. \A i \in a..b : g[i] \in Int
  OBVIOUS
<1> QED BY <1>2, <1>3, <1>4

(* The function that SumOf computes its sum with.                          *)
IsSum(g, f, n) == g = [k \in 0..n |-> IF k = 0 THEN 0 ELSE g[k - 1] + f[k]]

LEMMA SumExists ==
  ASSUME NEW f, NEW n \in Nat, \A i \in 1..n : f[i] \in Nat
  PROVE  \E g \in [0..n -> Nat] : IsSum(g, f, n)
<1> DEFINE S == {m \in Nat : m <= n => \E g \in [0..m -> Nat] : IsSum(g, f, m)}
<1>1. 0 \in S
  <2>1. [k \in 0..0 |-> 0] \in [0..0 -> Nat] /\ IsSum([k \in 0..0 |-> 0], f, 0)
    BY DEF IsSum
  <2> QED BY <2>1
<1>2. ASSUME NEW m \in Nat, m \in S PROVE m + 1 \in S
  <2> SUFFICES ASSUME m + 1 <= n PROVE \E g \in [0..m + 1 -> Nat] : IsSum(g, f, m + 1)
    OBVIOUS
  <2>1. PICK g \in [0..m -> Nat] : IsSum(g, f, m)
    BY <1>2
  <2> DEFINE h == [k \in 0..m + 1 |-> IF k = m + 1 THEN g[m] + f[m + 1] ELSE g[k]]
  <2>2. f[m + 1] \in Nat /\ g[m] \in Nat
    OBVIOUS
  <2>3. h \in [0..m + 1 -> Nat]
    BY <2>2
  <2>4. ASSUME NEW k \in 0..m + 1 PROVE h[k] = IF k = 0 THEN 0 ELSE h[k - 1] + f[k]
    BY <2>1, <2>2 DEF IsSum
  <2> HIDE DEF h
  <2>5. IsSum(h, f, m + 1)
    BY <2>3, <2>4 DEF IsSum
  <2> QED BY <2>3, <2>5
<1> HIDE DEF S
<1>3. n \in S
  BY <1>1, <1>2, Induction
<1> QED BY <1>3 DEF S

LEMMA SumsAgree ==
  ASSUME NEW f, NEW n \in Nat, NEW m \in Nat, n <= m, NEW g, NEW h, IsSum(g, f, n), IsSum(h, f, m)
  PROVE  \A k \in 0..n : g[k] = h[k]
<1> DEFINE S == {k \in Nat : k <= n => g[k] = h[k]}
<1>1. 0 \in S
  BY DEF IsSum
<1>2. ASSUME NEW k \in Nat, k \in S PROVE k + 1 \in S
  BY <1>2 DEF IsSum
<1>3. Nat \subseteq S
  <2> HIDE DEF S
  <2> QED BY <1>1, <1>2, Induction
<1> QED BY <1>3

(* SumOf adds one element after the other.                                 *)
LEMMA SumIs ==
  ASSUME NEW f, NEW n \in Nat, NEW m \in Nat, n <= m, \A i \in 1..m : f[i] \in Nat,
         NEW g, IsSum(g, f, m)
  PROVE  SumOf(f, n) = g[n]
<1> DEFINE sum == CHOOSE h : IsSum(h, f, n)
<1>1. \E h : IsSum(h, f, n)
  <2>1. \A i \in 1..n : f[i] \in Nat
    OBVIOUS
  <2> QED BY <2>1, SumExists
<1>2. IsSum(sum, f, n)
  BY <1>1
<1>3. SumOf(f, n) = sum[n]
  BY DEF SumOf, IsSum
<1> HIDE DEF sum
<1> QED BY <1>2, <1>3, SumsAgree

LEMMA PrefixSums ==
  ASSUME NEW n \in Nat, NEW f, \A i \in 1..n : f[i] \in Nat
  PROVE  /\ \A i \in 0..n : SumOf(f, i) \in Nat
         /\ \A i \in 1..n : SumOf(f, i) = SumOf(f, i - 1) + f[i]
         /\ \A i, j \in 0..n : i <= j => SumOf(f, i) <= SumOf(f, j)
<1>1. PICK g \in [0..n -> Nat] : IsSum(g, f, n)
  BY SumExists
<1>2. \A i \in 0..n : SumOf(f, i) = g[i]
  BY <1>1, SumIs
<1>3. ASSUME NEW i \in 1..n PROVE g[i] = g[i - 1] + f[i] /\ i - 1 \in 0..n /\ i \in 0..n
  BY <1>1 DEF IsSum
<1>4. \A i, j \in 0..n : i <= j => g[i] <= g[j]
  <2>1. \A i \in 0 + 1..n : g[i - 1] <= g[i]
    <3> SUFFICES ASSUME NEW i \in 1..n PROVE g[i - 1] <= g[i]
      OBVIOUS
    <3>1. g[i - 1] \in Nat /\ f[i] \in Nat
      BY <1>1, <1>3
    <3> QED BY <1>3, <3>1
  <2>2. \A i \in 0..n : g[i] \in Int
    BY <1>1
  <2> QED BY <2>1, <2>2, Rises
<1> QED BY <1>1, <1>2, <1>3, <1>4

(***************************************************************************)
(* The inductive invariant.                                                *)
(***************************************************************************)

(* Every memory has a storage and a well kept history. *)
MemoriesOK ==
  \A m \in 1..Len(memories) :
    /\ memories[m].storage \in 1..Len(storages)
    /\ memories[m].seq_len \in Nat
    /\ memories[m].seq_len <= Len(storages[memories[m].storage])
    /\ WellKept(memories[m].step_id, memories[m].features)

(* The fields of a turn that its call changes. *)
Fields == {"prefilled", "ids", "answer", "done", "storage"}

(* A turn continues a memory, or starts over, with a complete selection.   *)
TurnsOK ==
  \A i \in 1..Count :
    LET t == turns[i]
    IN  /\ Fields \subseteq DOMAIN t
        /\ t.memory \in 0..Len(memories)
        /\ t.base \in {0, t.memory}
        /\ WellKept(t.step_id, t.features)
        /\ Selectable(t)
        /\ t.window_start /\ t.step_id >= window_size => Len(t.slow) = num_history
        /\ t.size \in Nat /\ t.prefilled \in Nat /\ t.ids \in Nat /\ t.answer \in Nat
        /\ t.ids <= t.answer /\ t.ids <= max_new_tokens
        /\ t.done \in BOOLEAN
        /\ t.storage \in 0..Len(storages)

(* The rows of a call that runs have the room their turns require.         *)
RoomOK ==
  /\ capacities \in [Rows -> Nat]
  /\ ~dynamic_pool => capacities = [i \in Rows |-> capacity]
  /\ pc \in {"prepared", "encoded", "planned", "loaded"} =>
       \A i \in 1..Count : turns[i].ids = 0 /\ turns[i].prefilled = 0
                           /\ ~turns[i].done /\ turns[i].storage = 0
  /\ pc \in {"encoded", "planned", "loaded", "decoding"} =>
       \A i \in 1..Count : Required(turns[i]) <= capacity
  /\ pc \in {"planned", "loaded", "decoding"} =>
       \A i \in 1..Count : Required(turns[i]) <= capacities[i]
  /\ pc = "decoding" =>
       \A i \in 1..Count : turns[i].prefilled = turns[i].size
                           /\ (~turns[i].done => turns[i].ids < max_new_tokens)

(* The memories in a table of residents are the longest users of their     *)
(* storages, and no two rows share one.                                    *)
Latest(r) ==
  /\ r \in [Rows -> 0..Len(memories)]
  /\ \A i \in Rows : r[i] # 0 =>
       /\ \A m \in 1..Len(memories) :
            memories[m].storage = memories[r[i]].storage =>
              memories[m].seq_len <= memories[r[i]].seq_len
       /\ \A j \in Rows : j # i /\ r[j] # 0 =>
            memories[r[j]].storage # memories[r[i]].storage

(* A committed turn took the storage its row's latest memory lent, or one   *)
(* no memory uses; no two turns of a call took the same.                   *)
LentTo(i) ==
  /\ turns[i].base # 0 /\ previous[i] = turns[i].base
  /\ turns[i].storage = memories[turns[i].base].storage
NewTo(i) == \A m \in 1..Len(memories) : memories[m].storage # turns[i].storage

StoragesOK ==
  /\ Latest(resident) /\ Latest(previous)
  /\ \A s \in 1..Len(storages) : SeqLike(storages[s])
  /\ \A i \in 1..Count : turns[i].storage # 0 =>
       /\ pc = "decoding" /\ Live = {}
       /\ LentTo(i) \/ NewTo(i)
       /\ Position(turns[i]) <= Len(storages[turns[i].storage])
       /\ \A j \in 1..Count : j # i => turns[j].storage # turns[i].storage

Shape ==
  /\ SeqLike(memories) /\ SeqLike(storages) /\ SeqLike(turns)
  /\ Count <= batch_size
  /\ pc \in {"idle", "prepared", "encoded", "planned", "loaded", "decoding"}
  /\ pc = "idle" => turns = <<>>

Inv == Shape /\ MemoriesOK /\ TurnsOK /\ RoomOK /\ StoragesOK

(* No step writes into the prefix of a memory a caller may still use. *)
PrefixStep ==
  \A m \in 1..Len(memories) :
    /\ m \in 1..Len(memories') /\ memories'[m] = memories[m]
    /\ Held(memories[m])' = Held(memories[m])

(* The initial state. *)
LEMMA InitInv == Init => Inv
<1> SUFFICES ASSUME Init PROVE Inv
  OBVIOUS
<1>1. Len(memories) = 0 /\ Len(storages) = 0 /\ Len(turns) = 0
  BY DEF Init
<1>2. SeqLike(<<>>)
  <2>1. <<>> \in Seq({})
    OBVIOUS
  <2> QED BY <2>1, Zenon DEF SeqLike
<1>3. Shape
  BY <1>1, <1>2, BatchAssumption DEF Shape, Init, Count
<1>4. MemoriesOK /\ TurnsOK
  BY <1>1 DEF MemoriesOK, TurnsOK, Count
<1>5. RoomOK
  BY <1>1, BatchAssumption DEF RoomOK, Init, Rows, Count
<1>6. StoragesOK
  BY <1>1 DEF StoragesOK, Latest, Init, Nothing, Count
<1> QED BY <1>3, <1>4, <1>5, <1>6 DEF Inv

(* Steps that leave the storages and the memories alone keep every prefix. *)
LEMMA UntouchedPrefixes ==
  ASSUME Inv, UNCHANGED <<memories, storages>>
  PROVE  PrefixStep
  BY DEF PrefixStep, Held

(* The conjuncts about memories and residents depend on few variables. *)
LEMMA UntouchedMemories ==
  ASSUME MemoriesOK, UNCHANGED <<memories, storages>>
  PROVE  MemoriesOK'
  BY DEF MemoriesOK

(* A table with no residents is fine. *)
LEMMA NothingIsLatest ==
  ASSUME Inv, memories' = memories
  PROVE  /\ \A r : r = Nothing => Latest(r)'
         /\ \A r : Latest(r) => Latest(r)'
<1>1. Len(memories) \in Nat
  BY SeqIsFcn DEF Inv, Shape
<1>2. \A r : r = Nothing => Latest(r)'
  BY <1>1 DEF Latest, Nothing
<1>3. \A r : Latest(r) => Latest(r)'
  BY DEF Latest
<1> QED BY <1>2, <1>3

(* Begin: the turns are prepared from the memories of the callers. *)
LEMMA BeginStep == Inv /\ Begin => Inv' /\ PrefixStep
<1> SUFFICES ASSUME Inv, Begin PROVE Inv' /\ PrefixStep
  OBVIOUS
<1> USE DEF Inv
<1>1. PICK n \in Rows : \E ms \in [1..n -> 0..Len(memories)], frames \in [1..n -> Frames],
                           sizes \in [1..n -> StartSizes] :
        turns' = [i \in 1..n |-> Turn(ms[i], frames[i], sizes[i])]
  BY DEF Begin
<1>2. PICK ms \in [1..n -> 0..Len(memories)], frames \in [1..n -> Frames],
           sizes \in [1..n -> StartSizes] :
        turns' = [i \in 1..n |-> Turn(ms[i], frames[i], sizes[i])]
  BY <1>1
<1>3. n \in Nat /\ n <= batch_size /\ Len(memories) \in Nat /\ Len(storages) \in Nat
  BY BatchAssumption, SeqIsFcn DEF Rows, Shape
<1>4. turns' = [i \in 1..n |-> turns'[i]] /\ \A i \in 1..n : turns'[i] = Turn(ms[i], frames[i], sizes[i])
  BY <1>2
<1>5. SeqLike(turns') /\ Len(turns') = n
  BY <1>3, <1>4, FcnIsSeq
<1>6. UNCHANGED <<memories, storages, capacities, resident, previous>> /\ pc' = "prepared"
  BY DEF Begin
<1>7. Shape'
  BY <1>5, <1>6, <1>3 DEF Shape, Count
<1>8. ASSUME NEW i \in 1..n
      PROVE  LET t == turns'[i]
             IN  /\ Fields \subseteq DOMAIN t
                 /\ t.memory \in 0..Len(memories)
                 /\ t.base \in {0, t.memory}
                 /\ WellKept(t.step_id, t.features)
                 /\ Selectable(t)
                 /\ t.window_start /\ t.step_id >= window_size => Len(t.slow) = num_history
                 /\ t.size \in Nat
                 /\ t.prefilled = 0 /\ t.ids = 0 /\ t.answer = 0
                 /\ t.done = FALSE /\ t.storage = 0
  <2> DEFINE m == ms[i]
             committed == IF m = 0 THEN NoHistory ELSE memories[m]
             p == Prepare(committed, frames[i])
             t == turns'[i]
  <2>1. m \in 0..Len(memories) /\ frames[i] \in Nat \ {0} /\ sizes[i] \in Nat
    BY BatchAssumption
  <2>2. WellKept(committed.step_id, committed.features)
    <3>1. CASE m = 0
      BY <3>1 DEF WellKept, NoHistory
    <3>2. CASE m # 0
      <4>1. m \in 1..Len(memories)
        BY <2>1, <3>2, <1>3
      <4> QED BY <4>1, <3>2 DEF MemoriesOK
    <3> QED BY <3>1, <3>2
  <2>3. /\ WellKept(p.step_id, p.features)
        /\ Selectable(p)
        /\ p.window_start /\ p.step_id >= window_size => Len(p.slow) = num_history
        /\ p.window_start \in BOOLEAN
    <3> HIDE DEF committed
    <3> QED BY <2>1, <2>2, PrepareKeeps
  <2>4. /\ t.memory = m /\ t.step_id = p.step_id /\ t.features = p.features
        /\ t.slow = p.slow /\ t.window_start = p.window_start
        /\ t.base = (IF p.window_start THEN 0 ELSE m)
        /\ t.size = (IF p.window_start THEN sizes[i] ELSE turn_size)
        /\ t.prefilled = 0 /\ t.ids = 0 /\ t.answer = 0
        /\ t.done = FALSE /\ t.storage = 0
        /\ Fields \subseteq DOMAIN t
    <3>1. t = Turn(ms[i], frames[i], sizes[i])
      BY <1>4
    <3> HIDE DEF t
    <3>2. Fields \subseteq DOMAIN t
      BY <3>1 DEF Turn, Fields
    <3> QED BY <3>1, <3>2, Zenon DEF Turn
  <2>5. turn_size \in Nat
    BY BatchAssumption
  <2> HIDE DEF p, t, m
  <2>6. Selectable(t)
    BY <2>3, <2>4, Zenon DEF Selectable
  <2>7. t.base \in {0, t.memory} /\ t.size \in Nat
    BY <2>4, <2>5, <2>1, <2>3
  <2>8. t.window_start /\ t.step_id >= window_size => Len(t.slow) = num_history
    BY <2>3, <2>4
  <2>9. WellKept(t.step_id, t.features)
    BY <2>3, <2>4
  <2> QED BY <2>1, <2>4, <2>6, <2>7, <2>8, <2>9 DEF t
<1>9. Count' = n
  BY <1>5 DEF Count
<1>10. 0 <= max_new_tokens /\ 0 \in 0..Len(storages)
  BY BatchAssumption, <1>3
<1>11. TurnsOK'
  <2> SUFFICES ASSUME NEW i \in 1..n
               PROVE  LET t == turns'[i]
                      IN  /\ Fields \subseteq DOMAIN t
                          /\ t.memory \in 0..Len(memories)
                          /\ t.base \in {0, t.memory}
                          /\ WellKept(t.step_id, t.features)
                          /\ Selectable(t)
                          /\ t.window_start /\ t.step_id >= window_size => Len(t.slow) = num_history
                          /\ t.size \in Nat /\ t.prefilled \in Nat /\ t.ids \in Nat /\ t.answer \in Nat
                          /\ t.ids <= t.answer /\ t.ids <= max_new_tokens
                          /\ t.done \in BOOLEAN
                          /\ t.storage \in 0..Len(storages)
    BY <1>9, <1>6 DEF TurnsOK
  <2> DEFINE t == turns'[i]
  <2>1. /\ Fields \subseteq DOMAIN t
        /\ t.memory \in 0..Len(memories) /\ t.base \in {0, t.memory}
        /\ WellKept(t.step_id, t.features) /\ Selectable(t)
        /\ t.window_start /\ t.step_id >= window_size => Len(t.slow) = num_history
        /\ t.size \in Nat
    BY <1>8
  <2>2. t.prefilled = 0 /\ t.ids = 0 /\ t.answer = 0 /\ t.done = FALSE /\ t.storage = 0
    BY <1>8
  <2> HIDE DEF t
  <2>3. /\ t.prefilled \in Nat /\ t.ids \in Nat /\ t.answer \in Nat
        /\ t.ids <= t.answer /\ t.ids <= max_new_tokens
        /\ t.storage \in 0..Len(storages)
    BY <2>2, <1>10
  <2>4. t.done \in BOOLEAN
    BY <2>2
  <2> QED BY <2>1, <2>3, <2>4 DEF t
<1>12. RoomOK'
  BY <1>8, <1>9, <1>6 DEF RoomOK
<1>13. StoragesOK'
  BY <1>8, <1>9, <1>6 DEF StoragesOK, Latest
<1>14. MemoriesOK'
  BY <1>6, UntouchedMemories
<1>15. PrefixStep
  BY <1>6, UntouchedPrefixes
<1> QED BY <1>7, <1>11, <1>12, <1>13, <1>14, <1>15

(* The end of a call that failed. *)
LEMMA FailStep == Inv /\ Fail => Inv' /\ PrefixStep
<1> SUFFICES ASSUME Inv, Fail PROVE Inv' /\ PrefixStep
  OBVIOUS
<1> USE DEF Inv
<1>1. UNCHANGED <<memories, storages, capacities>> /\ turns' = <<>> /\ pc' = "idle"
        /\ resident' = Nothing /\ previous' = Nothing
  BY DEF Fail
<1>2. Len(turns') = 0 /\ SeqLike(turns')
  <2>1. <<>> \in Seq({})
    OBVIOUS
  <2> QED BY <1>1, <2>1, Zenon DEF SeqLike
<1>3. Count' = 0 /\ 1..Count' = {}
  BY <1>1 DEF Count
<1>4. Shape'
  BY <1>1, <1>2, <1>3, BatchAssumption DEF Shape
<1>5. TurnsOK' /\ RoomOK'
  BY <1>1, <1>3 DEF TurnsOK, RoomOK
<1>6. StoragesOK'
  BY <1>1, <1>3, NothingIsLatest DEF StoragesOK
<1> QED BY <1>1, <1>4, <1>5, <1>6, UntouchedMemories, UntouchedPrefixes

(* Encode: every turn is within the workspace. *)
LEMMA EncodeStep == Inv /\ Encode => Inv' /\ PrefixStep
<1> SUFFICES ASSUME Inv, Encode PROVE Inv' /\ PrefixStep
  OBVIOUS
<1> USE DEF Inv
<1>1. UNCHANGED <<memories, storages, capacities, resident, previous, turns>>
        /\ pc = "prepared" /\ pc' = "encoded" /\ Count' = Count
        /\ \A i \in 1..Count : Required(turns[i]) <= capacity
  BY DEF Encode, Count
<1>2. Shape'
  BY <1>1 DEF Shape, Count
<1>3. TurnsOK'
  BY <1>1 DEF TurnsOK
<1>4. RoomOK'
  BY <1>1 DEF RoomOK, Required, Start
<1>5. StoragesOK'
  BY <1>1 DEF StoragesOK, Latest
<1> QED BY <1>1, <1>2, <1>3, <1>4, <1>5, UntouchedMemories, UntouchedPrefixes

(* Load: only the arena changes. *)
LEMMA LoadStep == Inv /\ Load => Inv' /\ PrefixStep
<1> SUFFICES ASSUME Inv, Load PROVE Inv' /\ PrefixStep
  OBVIOUS
<1> USE DEF Inv
<1>1. UNCHANGED <<memories, storages, capacities, resident, previous, turns>>
        /\ pc = "planned" /\ pc' = "loaded" /\ Count' = Count
  BY DEF Load, Count
<1>2. Shape'
  BY <1>1 DEF Shape, Count
<1>3. TurnsOK'
  BY <1>1 DEF TurnsOK
<1>4. RoomOK'
  BY <1>1 DEF RoomOK, Required, Start
<1>5. StoragesOK'
  BY <1>1 DEF StoragesOK, Latest
<1> QED BY <1>1, <1>2, <1>3, <1>4, <1>5, UntouchedMemories, UntouchedPrefixes

(* Plan: each row of the call gets the room its turn requires. *)
LEMMA PlanStep == Inv /\ Plan => Inv' /\ PrefixStep
<1> SUFFICES ASSUME Inv, Plan PROVE Inv' /\ PrefixStep
  OBVIOUS
<1> USE DEF Inv
<1>1. UNCHANGED <<memories, storages, turns>> /\ resident' = Nothing
        /\ pc = "encoded" /\ pc' = "planned" /\ Count' = Count
  BY DEF Plan, Count
<1>2. /\ page \in Nat /\ page > 0 /\ capacity \in Nat /\ max_new_tokens \in Nat
      /\ Count \in Nat /\ 1..Count \subseteq Rows
  BY BatchAssumption, SeqIsFcn DEF Shape, Count, Rows
<1>3. ASSUME NEW i \in 1..Count
      PROVE  Required(turns[i]) \in Nat /\ Required(turns[i]) <= capacity
                /\ Needed(i) = Required(turns[i])
  <2>1. Start(turns[i]) \in Nat
    BY SeqIsFcn DEF Start, TurnsOK, MemoriesOK, Shape
  <2>2. turns[i].size \in Nat
    BY DEF TurnsOK
  <2>3. Required(turns[i]) \in Nat
    BY <2>1, <2>2, <1>2 DEF Required
  <2> QED BY <2>3, <1>1 DEF RoomOK, Needed
<1>4. \A i \in Rows : Needed(i) \in Nat
  BY <1>2, <1>3 DEF Needed, Rows
<1>5. /\ capacities' \in [Rows -> Nat]
      /\ ~dynamic_pool => capacities' = [i \in Rows |-> capacity]
      /\ \A i \in 1..Count : Needed(i) <= capacities'[i]
      /\ previous' = resident \/ previous' = Nothing
  <2>1. CASE ~dynamic_pool /\ Keep
    BY <2>1, <1>2, <1>3 DEF RoomOK, Keep
  <2>2. CASE Roomy /\ Keep
    BY <2>2, <1>2, <1>3 DEF RoomOK, Keep, Roomy
  <2>3. CASE dynamic_pool /\ ~Roomy /\ Relocate
    <3>1. capacities' = Paged \/ capacities' = Tight
      BY <2>3 DEF Relocate, Layout
    <3>2. CASE capacities' = Tight
      BY <3>2, <1>2, <1>4, <2>3 DEF Tight, Relocate
    <3>3. CASE capacities' = Paged
      <4> DEFINE up(x) == ((x + page - 1) \div page) * page
      <4>1. ASSUME NEW x \in Nat
            PROVE  up(x) \in Nat /\ x <= up(x)
        <5>1. x + page - 1 \in Nat
          BY <1>2
        <5> DEFINE y == x + page - 1
                   d == y \div page
        <5>2. y = (page * d) + (y % page) /\ y % page \in 0..page - 1 /\ d \in Nat
          BY <5>1, <1>2, DivMod
        <5>3. up(x) = page * d /\ up(x) \in Nat
          BY <5>2, <1>2, ProductNat, Z3
        <5>4. y = x + page - 1 /\ up(x) = up(x)
          OBVIOUS
        <5> HIDE DEF d, y, up
        <5> QED BY <5>2, <5>3, <5>4, <1>2
      <4>2. Paged = [i \in Rows |-> IF up(Needed(i)) < capacity THEN up(Needed(i)) ELSE capacity]
        BY Zenon DEF Paged
      <4>3. \A i \in Rows : up(Needed(i)) \in Nat /\ Needed(i) <= up(Needed(i))
        BY <4>1, <1>4
      <4> HIDE DEF up
      <4>4. Paged \in [Rows -> Nat]
        BY <4>2, <4>3, <1>2
      <4>5. \A i \in 1..Count : Needed(i) <= Paged[i]
        BY <4>2, <4>3, <1>2, <1>3
      <4> QED BY <3>3, <4>4, <4>5, <2>3 DEF Relocate
    <3> QED BY <3>1, <3>2, <3>3
  <2> QED BY <2>1, <2>2, <2>3 DEF Plan
<1>6. Shape'
  BY <1>1 DEF Shape, Count
<1>7. TurnsOK'
  BY <1>1 DEF TurnsOK
<1>8. RoomOK'
  <2>1. \A i \in 1..Count : Required(turns[i])' = Required(turns[i])
    BY <1>1 DEF Required, Start
  <2>2. \A i \in 1..Count : Required(turns[i])' <= capacities'[i]
    BY <2>1, <1>3, <1>5
  <2>3. \A i \in 1..Count : Required(turns[i])' <= capacity
    BY <2>1, <1>3
  <2> QED BY <1>1, <1>5, <2>2, <2>3 DEF RoomOK
<1>9. StoragesOK'
  <2>1. Latest(resident)' /\ Latest(previous)'
    <3>1. Latest(resident) /\ Latest(previous)
      BY DEF StoragesOK
    <3>2. Latest(resident)'
      BY <1>1, NothingIsLatest
    <3>3. CASE previous' = Nothing
      BY <3>3, <3>2, <1>1, NothingIsLatest
    <3>4. CASE previous' = resident
      BY <3>4, <3>1, <3>2, <1>1 DEF Latest
    <3> QED BY <3>3, <3>4, <1>5
  <2>2. \A i \in 1..Count : turns'[i].storage = 0
    BY <1>1 DEF RoomOK
  <2> QED BY <1>1, <2>1, <2>2 DEF StoragesOK
<1> QED BY <1>1, <1>6, <1>7, <1>8, <1>9, UntouchedMemories, UntouchedPrefixes

(* Prefill: the prompt is computed and the answer is fixed. *)
LEMMA PrefillStep == Inv /\ Prefill => Inv' /\ PrefixStep
<1> SUFFICES ASSUME Inv, Prefill PROVE Inv' /\ PrefixStep
  OBVIOUS
<1> USE DEF Inv
<1>1. UNCHANGED <<memories, storages, capacities, resident, previous>>
        /\ pc = "loaded" /\ pc' = "decoding"
  BY DEF Prefill
<1>2. PICK answers \in [1..Count -> Answers] :
        turns' = [i \in 1..Count |-> [turns[i] EXCEPT !.prefilled = turns[i].size,
                                                     !.answer = answers[i]]]
  BY DEF Prefill
<1>3. Count \in Nat /\ Count <= batch_size
  BY SeqIsFcn DEF Shape, Count
<1>4. turns' = [i \in 1..Count |-> turns'[i]]
  BY <1>2
<1>5. SeqLike(turns') /\ Count' = Count
  BY <1>3, <1>4, FcnIsSeq DEF Count
<1>6. Shape'
  BY <1>1, <1>3, <1>5 DEF Shape
<1>7. \A i \in 1..Count :
        /\ turns[i].ids = 0 /\ turns[i].prefilled = 0 /\ ~turns[i].done /\ turns[i].storage = 0
        /\ turns[i].size \in Nat /\ turns[i].answer \in Nat
  BY <1>1 DEF RoomOK, TurnsOK
<1>8. max_new_tokens \in Nat /\ max_new_tokens > 0 /\ Answers \subseteq Nat
  BY BatchAssumption
<1>9. ASSUME NEW i \in 1..Count
      PROVE  LET u == turns[i]
                 t == turns'[i]
             IN  /\ t.memory = u.memory /\ t.base = u.base /\ t.step_id = u.step_id
                 /\ t.features = u.features /\ t.slow = u.slow /\ t.size = u.size
                 /\ t.window_start = u.window_start /\ t.ids = 0 /\ t.done = u.done
                 /\ t.storage = 0 /\ t.prefilled = u.size /\ t.answer \in Nat
                 /\ DOMAIN t = DOMAIN u
  <2> DEFINE u == turns[i]
  <2>1. turns'[i] = [u EXCEPT !.prefilled = u.size, !.answer = answers[i]]
    BY <1>2
  <2>2. answers[i] \in Nat
    BY <1>8
  <2>3. "prefilled" \in DOMAIN u /\ "answer" \in DOMAIN u
    BY DEF TurnsOK, Fields
  <2> QED BY <2>1, <2>2, <2>3, <1>7
<1>10. TurnsOK'
  <2> SUFFICES ASSUME NEW i \in 1..Count
               PROVE  LET t == turns'[i]
                      IN  /\ Fields \subseteq DOMAIN t
                          /\ t.memory \in 0..Len(memories)
                          /\ t.base \in {0, t.memory}
                          /\ WellKept(t.step_id, t.features)
                          /\ Selectable(t)
                          /\ t.window_start /\ t.step_id >= window_size => Len(t.slow) = num_history
                          /\ t.size \in Nat /\ t.prefilled \in Nat /\ t.ids \in Nat /\ t.answer \in Nat
                          /\ t.ids <= t.answer /\ t.ids <= max_new_tokens
                          /\ t.done \in BOOLEAN
                          /\ t.storage \in 0..Len(storages)
    BY <1>1, <1>5 DEF TurnsOK
  <2> QED BY <1>9, <1>7, <1>8 DEF TurnsOK, Selectable
<1>11. RoomOK'
  <2>1. \A i \in 1..Count : Required(turns[i])' = Required(turns[i])
    BY <1>1, <1>9 DEF Required, Start
  <2> QED BY <2>1, <1>1, <1>5, <1>8, <1>9 DEF RoomOK
<1>12. StoragesOK'
  BY <1>1, <1>5, <1>9 DEF StoragesOK, Latest
<1> QED BY <1>1, <1>6, <1>10, <1>11, <1>12, UntouchedMemories, UntouchedPrefixes

(* Block: every answer grows, within its end and the limit. *)
LEMMA BlockStep == Inv /\ Block => Inv' /\ PrefixStep
<1> SUFFICES ASSUME Inv, Block PROVE Inv' /\ PrefixStep
  OBVIOUS
<1> USE DEF Inv
<1>1. UNCHANGED <<memories, storages, capacities, resident, previous, pc>>
        /\ pc = "decoding" /\ Live # {}
  BY DEF Block
<1>2. PICK width \in 1..tree_width :
        \E branch \in [Live -> Branches[width]] :
          turns' = [i \in 1..Count |-> IF i \in Live THEN Grown(turns[i], branch[i])
                                                     ELSE turns[i]]
  BY DEF Block
<1>3. PICK branch \in [Live -> Branches[width]] :
          turns' = [i \in 1..Count |-> IF i \in Live THEN Grown(turns[i], branch[i])
                                                     ELSE turns[i]]
  BY <1>2
<1>4. Count \in Nat /\ Count <= batch_size
  BY SeqIsFcn DEF Shape, Count
<1>5. turns' = [i \in 1..Count |-> turns'[i]]
  BY <1>3
<1>6. SeqLike(turns') /\ Count' = Count
  BY <1>4, <1>5, FcnIsSeq DEF Count
<1>7. Shape'
  BY <1>1, <1>4, <1>6 DEF Shape
<1>8. \A i \in 1..Count : turns[i].storage = 0
  BY <1>1 DEF StoragesOK
<1>9. max_new_tokens \in Nat /\ max_new_tokens > 0 /\ tree_width \in Nat
  BY BatchAssumption
<1>10. ASSUME NEW i \in Live
       PROVE  Len(branch[i]) \in Nat
  <2>1. branch[i] \in Branches[width]
    BY <1>3
  <2>2. branch[i] \in UNION {[1..n -> 0..width - 1] : n \in 1..width}
    BY <2>1 DEF Branches
  <2>3. PICK n \in 1..width : branch[i] \in [1..n -> 0..width - 1]
    BY <2>2
  <2>4. branch[i] \in Seq(0..width - 1)
    BY <2>3, <1>9
  <2> QED BY <2>4
<1>11. ASSUME NEW i \in 1..Count
       PROVE  LET u == turns[i]
                  t == turns'[i]
              IN  /\ t.memory = u.memory /\ t.base = u.base /\ t.step_id = u.step_id
                  /\ t.features = u.features /\ t.slow = u.slow /\ t.size = u.size
                  /\ t.window_start = u.window_start /\ t.prefilled = u.prefilled
                  /\ t.storage = u.storage /\ t.answer = u.answer
                  /\ t.ids \in Nat /\ t.ids <= t.answer /\ t.ids <= max_new_tokens
                  /\ t.done \in BOOLEAN /\ (~t.done => t.ids < max_new_tokens)
                  /\ DOMAIN t = DOMAIN u
  <2> DEFINE u == turns[i]
             t == turns'[i]
  <2>1. /\ Fields \subseteq DOMAIN u /\ u.ids \in Nat /\ u.answer \in Nat
        /\ u.ids <= u.answer /\ u.ids <= max_new_tokens /\ u.done \in BOOLEAN
        /\ (~u.done => u.ids < max_new_tokens)
    BY <1>1 DEF TurnsOK, RoomOK
  <2>2. CASE i \in Live
    <3> DEFINE a == Accepted(u, branch[i])
               ids == u.ids + a
    <3>1. t = [u EXCEPT !.ids = ids, !.done = (ids = u.answer \/ ids = max_new_tokens)]
      BY <1>3, <2>2 DEF Grown
    <3>2. a \in Nat /\ u.ids + a <= u.answer /\ u.ids + a <= max_new_tokens
      <4>1. Len(branch[i]) \in Nat
        BY <2>2, <1>10
      <4> HIDE DEF u
      <4> QED BY <4>1, <2>1, <1>9 DEF Accepted, Smaller
    <3>3. "ids" \in DOMAIN u /\ "done" \in DOMAIN u
      BY <2>1 DEF Fields
    <3> HIDE DEF a
    <3>4. /\ t.ids = ids /\ t.done = (ids = u.answer \/ ids = max_new_tokens)
          /\ DOMAIN t = DOMAIN u
          /\ t.memory = u.memory /\ t.base = u.base /\ t.step_id = u.step_id
          /\ t.features = u.features /\ t.slow = u.slow /\ t.size = u.size
          /\ t.window_start = u.window_start /\ t.prefilled = u.prefilled
          /\ t.storage = u.storage /\ t.answer = u.answer
      BY <3>1, <3>3
    <3>5. t.ids \in Nat /\ t.ids <= u.answer /\ t.ids <= max_new_tokens
      BY <3>2, <3>4, <2>1
    <3>6. t.done \in BOOLEAN
      BY <3>4
    <3>7. ~t.done => t.ids < max_new_tokens
      <4>1. ~t.done => ids # max_new_tokens
        BY <3>4
      <4> QED BY <4>1, <3>2, <3>4, <2>1, <1>9
    <3> QED BY <3>4, <3>5, <3>6, <3>7
  <2>3. CASE i \notin Live
    <3>1. t = u
      BY <1>3, <2>3
    <3> QED BY <3>1, <2>1
  <2> QED BY <2>2, <2>3
<1>12. TurnsOK'
  <2> SUFFICES ASSUME NEW i \in 1..Count
               PROVE  LET t == turns'[i]
                      IN  /\ Fields \subseteq DOMAIN t
                          /\ t.memory \in 0..Len(memories)
                          /\ t.base \in {0, t.memory}
                          /\ WellKept(t.step_id, t.features)
                          /\ Selectable(t)
                          /\ t.window_start /\ t.step_id >= window_size => Len(t.slow) = num_history
                          /\ t.size \in Nat /\ t.prefilled \in Nat /\ t.ids \in Nat /\ t.answer \in Nat
                          /\ t.ids <= t.answer /\ t.ids <= max_new_tokens
                          /\ t.done \in BOOLEAN
                          /\ t.storage \in 0..Len(storages)
    BY <1>1, <1>6 DEF TurnsOK
  <2> QED BY <1>11 DEF TurnsOK, Selectable
<1>13. RoomOK'
  <2>1. \A i \in 1..Count : Required(turns[i])' = Required(turns[i])
    BY <1>1, <1>11 DEF Required, Start
  <2> QED BY <2>1, <1>1, <1>6, <1>11 DEF RoomOK
<1>14. StoragesOK'
  <2>1. Latest(resident)' /\ Latest(previous)'
    BY <1>1 DEF StoragesOK, Latest
  <2>2. \A i \in 1..Count : turns'[i].storage = 0
    BY <1>8, <1>11
  <2>3. \A s \in 1..Len(storages) : SeqLike(storages[s])
    BY DEF StoragesOK
  <2> QED BY <2>1, <2>2, <2>3, <1>1, <1>6 DEF StoragesOK
<1> QED BY <1>1, <1>7, <1>12, <1>13, <1>14, UntouchedMemories, UntouchedPrefixes

(* _commit of row i takes the n cells of the row to a storage: behind the   *)
(* prefix of the memory that lends it, or to one that is new.              *)
CommitsTo(i, taken, lent, n) ==
  /\ turns' = [turns EXCEPT ![i].storage = taken]
  /\ Len(storages') \in Nat /\ Len(storages) <= Len(storages') /\ SeqLike(storages')
  /\ taken \in 1..Len(storages')
  /\ \A s \in 1..Len(storages') : SeqLike(storages'[s])
  /\ n <= Len(storages'[taken])
  /\ \/ /\ turns[i].base # 0 /\ previous[i] = turns[i].base /\ taken = lent
        /\ \A s \in 1..Len(storages) : s # taken => storages'[s] = storages[s]
        /\ Len(storages'[taken]) = Len(storages[taken])
        /\ \A p \in 1..Start(turns[i]) : storages'[taken][p] = storages[taken][p]
        /\ \A p \in Start(turns[i]) + 1..n : storages'[taken][p] = arena[starts[i] + p]
     \/ /\ taken = Len(storages) + 1
        /\ \A s \in 1..Len(storages) : storages'[s] = storages[s]
        /\ \A p \in 1..n : storages'[taken][p] = arena[starts[i] + p]

(* A row appends to the storage its latest memory lends, or takes a new one. *)
LEMMA CommitTakes ==
  ASSUME NEW i \in Rows, i <= Count, Inv, Commit(i)
  PROVE  \E taken : CommitsTo(i, taken, memories[turns[i].base].storage, Position(turns[i]))
<1> USE DEF Inv
<1> DEFINE lent == memories[turns[i].base].storage
           n == Position(turns[i])
<1>1. /\ UNCHANGED <<memories, capacities, resident, previous, pc>>
      /\ pc = "decoding" /\ Live = {} /\ turns[i].storage = 0
  BY DEF Commit
<1>2. /\ Count \in Nat /\ Len(memories) \in Nat /\ Len(storages) \in Nat
      /\ i \in 1..Count /\ Count <= batch_size /\ 1..Count \subseteq Rows
  BY SeqIsFcn, BatchAssumption DEF Shape, Count, Rows
<1>3. /\ SeqLike(storages) /\ SeqLike(turns)
      /\ \A s \in 1..Len(storages) : SeqLike(storages[s])
  BY DEF Shape, StoragesOK
<1>4. /\ Start(turns[i]) \in Nat /\ n \in Nat /\ n <= capacity
      /\ Start(turns[i]) <= n
  <2> DEFINE t == turns[i]
  <2>1. Start(t) \in Nat
    <3>1. CASE t.base = 0
      BY <3>1 DEF Start
    <3>2. CASE t.base # 0
      <4>1. t.base \in 1..Len(memories)
        BY <3>2, <1>2 DEF TurnsOK
      <4> QED BY <4>1, <3>2 DEF Start, MemoriesOK
    <3> QED BY <3>1, <3>2
  <2>2. /\ t.prefilled \in Nat /\ t.ids \in Nat /\ t.size \in Nat /\ t.ids <= max_new_tokens
        /\ t.prefilled = t.size /\ Start(t) + t.size + max_new_tokens <= capacity
        /\ t.done \in BOOLEAN
    BY <1>1, <1>2 DEF TurnsOK, RoomOK, Required
  <2>3. max_new_tokens \in Nat /\ capacity \in Nat
    BY BatchAssumption
  <2> HIDE DEF t
  <2>4. Position(t) = Start(t) + t.prefilled + t.ids
    BY DEF Position
  <2>5. Position(t) \in Nat /\ Position(t) <= capacity /\ Start(t) <= Position(t)
    BY <2>1, <2>2, <2>3, <2>4
  <2> QED BY <2>1, <2>5 DEF t
<1>5. QED
  <2>1. CASE Lends(i) /\ storages' = [storages EXCEPT ![lent] =
                 [p \in DOMAIN @ |-> IF p \in Start(turns[i]) + 1..n
                                     THEN arena[starts[i] + p] ELSE @[p]]]
             /\ turns' = [turns EXCEPT ![i].storage = lent]
    <3>1. turns[i].base # 0 /\ previous[i] = turns[i].memory /\ turns[i].base \in 1..Len(memories)
            /\ turns[i].base = turns[i].memory /\ n <= Len(storages[lent])
      BY <2>1, <1>2 DEF Lends, Reusable, TurnsOK
    <3>2. /\ lent \in 1..Len(storages)
          /\ Start(turns[i]) <= Len(storages[lent])
      BY <3>1 DEF MemoriesOK, Start
    <3> DEFINE old == storages[lent]
               new == [p \in DOMAIN old |-> IF p \in Start(turns[i]) + 1..n
                                            THEN arena[starts[i] + p] ELSE old[p]]
    <3>3. storages' = [storages EXCEPT ![lent] = new]
      BY <2>1
    <3>4. Len(old) \in Nat /\ DOMAIN old = 1..Len(old)
      BY <1>3, <3>2, SeqIsFcn
    <3>5. \A p \in 1..Start(turns[i]) : new[p] = old[p]
      <4> HIDE DEF old
      <4> QED BY <3>2, <3>4, <1>4 DEF old
    <3>12. \A p \in Start(turns[i]) + 1..n : new[p] = arena[starts[i] + p]
      <4>1. \A p \in Start(turns[i]) + 1..n : p \in 1..Len(old)
        <5> HIDE DEF old, n
        <5> QED BY <3>1, <3>2, <3>4, <1>4 DEF old
      <4> HIDE DEF old, n
      <4> QED BY <4>1, <3>4
    <3>6. SeqLike(new) /\ Len(new) = Len(old)
      <4>1. new = [p \in 1..Len(old) |-> new[p]]
        BY <3>4
      <4> HIDE DEF new
      <4> QED BY <4>1, <3>4, FcnIsSeq
    <3> HIDE DEF new
    <3>7. /\ SeqLike(storages') /\ Len(storages') = Len(storages)
          /\ storages'[lent] = new
          /\ \A s \in 1..Len(storages) : s # lent => storages'[s] = storages[s]
      <4> HIDE DEF lent
      <4>1. DOMAIN storages = 1..Len(storages)
        BY <1>3, SeqIsFcn
      <4>2. storages' = [s \in DOMAIN storages |-> storages'[s]]
        BY <3>3
      <4> QED BY <4>1, <4>2, <3>2, <3>3, <1>3, SameDomain
    <3>8. \A s \in 1..Len(storages') : SeqLike(storages'[s])
      BY <3>7, <3>6, <1>3
    <3>9. /\ Len(storages') \in Nat /\ Len(storages) <= Len(storages')
          /\ lent \in 1..Len(storages') /\ n <= Len(storages'[lent])
      BY <3>1, <3>2, <3>6, <3>7, <1>2
    <3>10. \A p \in 1..Start(turns[i]) : storages'[lent][p] = storages[lent][p]
      BY <3>5, <3>7
    <3>11. Len(storages'[lent]) = Len(storages[lent])
      BY <3>6, <3>7
    <3>13. \A p \in Start(turns[i]) + 1..n : storages'[lent][p] = arena[starts[i] + p]
      BY <3>7, <3>12
    <3> HIDE DEF lent, n, old
    <3>14. CommitsTo(i, lent, lent, n)
      BY <2>1, <3>1, <3>7, <3>8, <3>9, <3>10, <3>11, <3>13 DEF CommitsTo
    <3> QED BY <3>14 DEF lent, n
  <2>2. CASE ~Lends(i) /\ storages' = Append(storages,
                 [p \in 1..StorageCapacity(n) |->
                    IF p <= n THEN arena[starts[i] + p] ELSE Junk])
             /\ turns' = [turns EXCEPT ![i].storage = Len(storages) + 1]
    <3> DEFINE new == [p \in 1..StorageCapacity(n) |->
                         IF p <= n THEN arena[starts[i] + p] ELSE Junk]
    <3>1. StorageCapacity(n) \in Nat /\ n <= StorageCapacity(n)
      <4>0. capacity \in Nat
        BY BatchAssumption
      <4> DEFINE roomy == {c \in n..capacity : c < 2 * n /\ \E k \in 0..capacity : c = 2 ^ k}
      <4>1. StorageCapacity(n) = IF roomy = {} THEN capacity ELSE CHOOSE c \in roomy : TRUE
        BY DEF StorageCapacity
      <4>2. \A c \in roomy : c \in Nat /\ n <= c
        BY <1>4
      <4> HIDE DEF roomy
      <4> QED BY <4>0, <4>1, <4>2, <1>4
    <3>2. SeqLike(new) /\ Len(new) = StorageCapacity(n)
      <4>1. new = [p \in 1..StorageCapacity(n) |-> new[p]]
        OBVIOUS
      <4> HIDE DEF new
      <4> QED BY <4>1, <3>1, FcnIsSeq
    <3>8. \A p \in 1..n : new[p] = arena[starts[i] + p]
      <4> HIDE DEF n
      <4>1. \A p \in 1..n : p \in 1..StorageCapacity(n) /\ p <= n
        BY <3>1, <1>4
      <4> QED BY <4>1
    <3> HIDE DEF new
    <3>3. /\ SeqLike(storages') /\ Len(storages') = Len(storages) + 1
          /\ \A s \in 1..Len(storages) : storages'[s] = storages[s]
          /\ storages'[Len(storages) + 1] = new
      BY <1>3, <2>2, AppendIsSeq DEF new
    <3>4. \A s \in 1..Len(storages') : SeqLike(storages'[s])
      BY <3>3, <3>2, <1>3, <1>2
    <3> DEFINE taken == Len(storages) + 1
    <3>5. /\ Len(storages') \in Nat /\ Len(storages) <= Len(storages')
          /\ taken \in 1..Len(storages') /\ n <= Len(storages'[taken])
      BY <3>1, <3>2, <3>3, <1>2
    <3>6. turns' = [turns EXCEPT ![i].storage = taken]
      BY <2>2
    <3>7. taken = Len(storages) + 1
      OBVIOUS
    <3>9. \A p \in 1..n : storages'[taken][p] = arena[starts[i] + p]
      BY <3>3, <3>8
    <3> HIDE DEF lent, n, taken
    <3>10. CommitsTo(i, taken, lent, n)
      BY <3>3, <3>4, <3>5, <3>6, <3>7, <3>9 DEF CommitsTo
    <3> QED BY <3>10 DEF lent, n
  <2> QED BY <2>1, <2>2 DEF Commit
(* Behind every prefix that lives in the storage, so that no memory loses   *)
(* its own.                                                                *)
LEMMA CommitStep == ASSUME NEW i \in Rows, i <= Count, Inv, Commit(i)
                    PROVE  Inv' /\ PrefixStep
<1> USE DEF Inv
<1> DEFINE lent == memories[turns[i].base].storage
           n == Position(turns[i])
<1>1. /\ UNCHANGED <<memories, capacities, resident, previous, pc>>
      /\ pc = "decoding" /\ Live = {} /\ turns[i].storage = 0
  BY DEF Commit
<1>2. /\ Count \in Nat /\ Len(memories) \in Nat /\ Len(storages) \in Nat
      /\ i \in 1..Count /\ Count <= batch_size /\ 1..Count \subseteq Rows
  BY SeqIsFcn, BatchAssumption DEF Shape, Count, Rows
<1>3. /\ SeqLike(storages) /\ SeqLike(turns)
      /\ \A s \in 1..Len(storages) : SeqLike(storages[s])
  BY DEF Shape, StoragesOK
<1>4. /\ Start(turns[i]) \in Nat /\ n \in Nat /\ n <= capacity
      /\ Start(turns[i]) <= n
  <2> DEFINE t == turns[i]
  <2>1. Start(t) \in Nat
    <3>1. CASE t.base = 0
      BY <3>1 DEF Start
    <3>2. CASE t.base # 0
      <4>1. t.base \in 1..Len(memories)
        BY <3>2, <1>2 DEF TurnsOK
      <4> QED BY <4>1, <3>2 DEF Start, MemoriesOK
    <3> QED BY <3>1, <3>2
  <2>2. /\ t.prefilled \in Nat /\ t.ids \in Nat /\ t.size \in Nat /\ t.ids <= max_new_tokens
        /\ t.prefilled = t.size /\ Start(t) + t.size + max_new_tokens <= capacity
        /\ t.done \in BOOLEAN
    BY <1>1, <1>2 DEF TurnsOK, RoomOK, Required
  <2>3. max_new_tokens \in Nat /\ capacity \in Nat
    BY BatchAssumption
  <2> HIDE DEF t
  <2>4. Position(t) = Start(t) + t.prefilled + t.ids
    BY DEF Position
  <2>5. Position(t) \in Nat /\ Position(t) <= capacity /\ Start(t) <= Position(t)
    BY <2>1, <2>2, <2>3, <2>4
  <2> QED BY <2>1, <2>5 DEF t
<1>5. PICK taken : CommitsTo(i, taken, lent, n)
  BY CommitTakes
<1>6. /\ SeqLike(turns') /\ Count' = Count
      /\ turns'[i] = [turns[i] EXCEPT !.storage = taken]
      /\ \A j \in 1..Count : j # i => turns'[j] = turns[j]
  <2> DEFINE e == [turns[i] EXCEPT !.storage = taken]
  <2>1. turns' = [turns EXCEPT ![i] = e]
    BY <1>5 DEF CommitsTo
  <2>2. i \in 1..Len(turns)
    BY <1>2 DEF Count
  <2> HIDE DEF e
  <2>3. /\ SeqLike(turns') /\ Len(turns') = Len(turns) /\ turns'[i] = e
        /\ \A j \in 1..Len(turns) : j # i => turns'[j] = turns[j]
    <3>1. DOMAIN turns = 1..Len(turns)
      BY <1>3, SeqIsFcn
    <3>2. turns' = [j \in DOMAIN turns |-> turns'[j]]
      BY <2>1
    <3> QED BY <3>1, <3>2, <2>1, <2>2, <1>3, SameDomain
  <2> QED BY <2>3 DEF Count, e
<1>7. ASSUME NEW j \in 1..Count
      PROVE  LET u == turns[j]
                 t == turns'[j]
             IN  /\ t.memory = u.memory /\ t.base = u.base /\ t.step_id = u.step_id
                 /\ t.features = u.features /\ t.slow = u.slow /\ t.size = u.size
                 /\ t.window_start = u.window_start /\ t.prefilled = u.prefilled
                 /\ t.ids = u.ids /\ t.answer = u.answer /\ t.done = u.done
                 /\ DOMAIN t = DOMAIN u
                 /\ t.storage = (IF j = i THEN taken ELSE u.storage)
  <2>1. CASE j = i
    <3>1. "storage" \in DOMAIN turns[i]
      BY <1>2 DEF TurnsOK, Fields
    <3> QED BY <3>1, <2>1, <1>6
  <2>2. CASE j # i
    BY <2>2, <1>6
  <2> QED BY <2>1, <2>2
<1>8. Shape'
  BY <1>1, <1>2, <1>5, <1>6 DEF Shape, CommitsTo
<1>9. ASSUME NEW s \in 1..Len(storages)
      PROVE  Len(storages'[s]) = Len(storages[s]) /\ s \in 1..Len(storages')
  BY <1>5, <1>2 DEF CommitsTo
<1>10. MemoriesOK'
  BY <1>1, <1>9 DEF MemoriesOK
<1>11. TurnsOK'
  <2> SUFFICES ASSUME NEW j \in 1..Count
               PROVE  LET t == turns'[j]
                      IN  /\ Fields \subseteq DOMAIN t
                          /\ t.memory \in 0..Len(memories)
                          /\ t.base \in {0, t.memory}
                          /\ WellKept(t.step_id, t.features)
                          /\ Selectable(t)
                          /\ t.window_start /\ t.step_id >= window_size => Len(t.slow) = num_history
                          /\ t.size \in Nat /\ t.prefilled \in Nat /\ t.ids \in Nat /\ t.answer \in Nat
                          /\ t.ids <= t.answer /\ t.ids <= max_new_tokens
                          /\ t.done \in BOOLEAN
                          /\ t.storage \in 0..Len(storages')
    BY <1>1, <1>6 DEF TurnsOK
  <2>1. turns'[j].storage \in 0..Len(storages')
    BY <1>7, <1>5, <1>2 DEF TurnsOK, CommitsTo
  <2> QED BY <2>1, <1>7 DEF TurnsOK, Selectable
<1>12. \A j \in 1..Count : /\ Required(turns[j])' = Required(turns[j])
                           /\ Position(turns[j])' = Position(turns[j])
  BY <1>1, <1>7 DEF Required, Start, Position
<1>13. RoomOK'
  BY <1>12, <1>1, <1>6, <1>7 DEF RoomOK
<1>14. Live' = {}
  BY <1>1, <1>6, <1>7 DEF Live
<1>15. turns[i].base # 0 /\ previous[i] = turns[i].base =>
         \A j \in 1..Count : j # i => turns[j].storage # lent
  <2> SUFFICES ASSUME turns[i].base # 0, previous[i] = turns[i].base,
                      NEW j \in 1..Count, j # i, turns[j].storage = lent
               PROVE  FALSE
    OBVIOUS
  <2>1. turns[i].base \in 1..Len(memories) /\ lent \in 1..Len(storages)
    BY <1>2 DEF TurnsOK, MemoriesOK
  <2>2. turns[j].storage # 0 /\ i \in Rows /\ j \in Rows
    BY <2>1, <1>2
  <2>3. ~NewTo(j)
    BY <2>1 DEF NewTo
  <2>4. LentTo(j)
    BY <2>2, <2>3 DEF StoragesOK
  <2>5. previous[j] # 0 /\ memories[previous[j]].storage = memories[previous[i]].storage
    BY <2>4 DEF LentTo
  <2> QED BY <2>2, <2>5 DEF StoragesOK, Latest
<1>16. \A j \in 1..Count : j # i => turns[j].storage # taken
  <2>1. CASE turns[i].base # 0 /\ previous[i] = turns[i].base /\ taken = lent
    BY <2>1, <1>15
  <2>2. CASE taken = Len(storages) + 1
    BY <2>2, <1>2 DEF TurnsOK
  <2> QED BY <2>1, <2>2, <1>5 DEF CommitsTo
<1>17. StoragesOK'
  <2>1. Latest(resident)' /\ Latest(previous)'
    BY <1>1, NothingIsLatest DEF StoragesOK, Latest
  <2>2. ASSUME NEW j \in 1..Count, turns'[j].storage # 0
        PROVE  /\ LentTo(j)' \/ NewTo(j)'
               /\ Position(turns[j])' <= Len(storages'[turns'[j].storage])
               /\ \A k \in 1..Count : k # j => turns'[k].storage # turns'[j].storage
    <3>1. CASE j = i
      <4>1. turns'[j].storage = taken
        BY <3>1, <1>7
      <4>2. LentTo(j)' \/ NewTo(j)'
        <5>1. CASE turns[i].base # 0 /\ previous[i] = turns[i].base /\ taken = lent
          BY <5>1, <4>1, <3>1, <1>7, <1>1 DEF LentTo
        <5>2. CASE taken = Len(storages) + 1
          BY <5>2, <4>1, <3>1, <1>1, <1>2 DEF NewTo, MemoriesOK
        <5> QED BY <5>1, <5>2, <1>5 DEF CommitsTo
      <4>3. Position(turns[j])' <= Len(storages'[turns'[j].storage])
        BY <4>1, <3>1, <1>12, <1>5 DEF CommitsTo
      <4> QED BY <4>1, <4>2, <4>3, <3>1, <1>7, <1>16
    <3>2. CASE j # i
      <4>1. turns'[j].storage = turns[j].storage /\ turns[j].storage # 0
        BY <3>2, <1>7, <2>2
      <4>2. LentTo(j) \/ NewTo(j)
        BY <4>1 DEF StoragesOK
      <4>3. LentTo(j)' \/ NewTo(j)'
        BY <4>1, <4>2, <1>7, <1>1 DEF LentTo, NewTo
      <4>4. turns[j].storage \in 1..Len(storages)
        BY <4>1, <1>2 DEF TurnsOK
      <4>5. Position(turns[j])' <= Len(storages'[turns'[j].storage])
        BY <4>1, <4>4, <1>12, <1>9 DEF StoragesOK
      <4>6. \A k \in 1..Count : k # j => turns'[k].storage # turns'[j].storage
        BY <4>1, <3>2, <1>7, <1>16 DEF StoragesOK
      <4> QED BY <4>3, <4>5, <4>6
    <3> QED BY <3>1, <3>2
  <2> QED BY <2>1, <2>2, <1>1, <1>5, <1>6, <1>14 DEF StoragesOK, CommitsTo
<1>18. PrefixStep
  <2> SUFFICES ASSUME NEW m \in 1..Len(memories)
               PROVE  Held(memories[m])' = Held(memories[m])
    BY <1>1 DEF PrefixStep
  <2> DEFINE s == memories[m].storage
             len == memories[m].seq_len
  <2>1. s \in 1..Len(storages) /\ len \in Nat
    BY DEF MemoriesOK
  <2>2. \A p \in 1..len : storages'[s][p] = storages[s][p]
    <3>1. CASE turns[i].base # 0 /\ previous[i] = turns[i].base /\ s = lent
                 /\ \A p \in 1..Start(turns[i]) : storages'[s][p] = storages[s][p]
      <4>1. i \in Rows /\ previous[i] # 0
              /\ memories[m].storage = memories[previous[i]].storage
        BY <3>1
      <4>2. len <= memories[previous[i]].seq_len
        BY <4>1 DEF StoragesOK, Latest
      <4>3. Start(turns[i]) = memories[previous[i]].seq_len
        BY <3>1 DEF Start
      <4>4. Start(turns[i]) \in Nat /\ len \in Nat
        BY <2>1, <1>4
      <4>5. \A p \in 1..len : p \in 1..Start(turns[i])
        <5> HIDE DEF len
        <5> QED BY <4>2, <4>3, <4>4
      <4> QED BY <4>5, <3>1
    <3>2. CASE storages'[s] = storages[s]
      BY <3>2
    <3> QED BY <3>1, <3>2, <2>1, <1>5, <1>2 DEF CommitsTo
  <2>3. Held(memories[m])' = [p \in 1..len |-> storages'[s][p]]
    BY <1>1 DEF Held
  <2> QED BY <2>2, <2>3 DEF Held
<1> QED BY <1>8, <1>10, <1>11, <1>13, <1>17, <1>18

(* The history after a request is well kept when the one before it is. *)
LEMMA AdvanceKeeps ==
  ASSUME NEW prepared, NEW committed, WellKept(prepared.step_id, prepared.features)
  PROVE  LET h == Advance(prepared, committed) IN WellKept(h.step_id, h.features)
<1> DEFINE n == prepared.step_id
           old == prepared.features
           new == Append(old, retains_history_feature(n))
<1>1. n \in Nat /\ old \in Seq(BOOLEAN) /\ Len(old) = n
        /\ \A k \in 1..n : old[k] = retains_history_feature(k - 1)
  BY DEF WellKept
<1>2. retains_history_feature(n) \in BOOLEAN
  BY DEF retains_history_feature
<1> HIDE DEF n, old
<1>3. /\ new \in Seq(BOOLEAN) /\ Len(new) = n + 1
      /\ \A k \in 1..n : new[k] = old[k]
      /\ new[n + 1] = retains_history_feature(n)
  BY <1>1, <1>2
<1>4. \A k \in 1..n + 1 : new[k] = retains_history_feature(k - 1)
  <2> SUFFICES ASSUME NEW k \in 1..n + 1 PROVE new[k] = retains_history_feature(k - 1)
    OBVIOUS
  <2> HIDE DEF new
  <2>1. CASE k \in 1..n
    BY <2>1, <1>1, <1>3
  <2>2. CASE k = n + 1
    <3>1. k - 1 = n
      BY <2>2, <1>1
    <3> QED BY <3>1, <2>2, <1>3
  <2> QED BY <2>1, <2>2, <1>1
<1> HIDE DEF new
<1>5. WellKept(n + 1, new)
  BY <1>1, <1>3, <1>4 DEF WellKept
<1> QED BY <1>5 DEF Advance, n, old, new

(* Return: each row hands out a memory, the longest user of its storage. *)
LEMMA ReturnStep == Inv /\ Return => Inv' /\ PrefixStep
<1> SUFFICES ASSUME Inv, Return PROVE Inv' /\ PrefixStep
  OBVIOUS
<1> USE DEF Inv
<1> DEFINE L == Len(memories)
           new == [i \in 1..Count |-> MemoryOf(i)]
<1>1. /\ storages' = storages /\ capacities' = capacities
      /\ turns' = <<>> /\ pc' = "idle" /\ previous' = Nothing
      /\ pc = "decoding" /\ \A i \in 1..Count : turns[i].storage # 0
      /\ resident' = [i \in Rows |-> IF i <= Count THEN L + i ELSE 0]
      /\ memories' = memories \o new
  BY DEF Return
<1>2. /\ Count \in Nat /\ Count <= batch_size /\ L \in Nat /\ Len(storages) \in Nat
      /\ batch_size \in Nat /\ SeqLike(memories)
  BY SeqIsFcn, BatchAssumption DEF Shape, Count
<1>3. SeqLike(new) /\ Len(new) = Count
  <2>1. new = [i \in 1..Count |-> new[i]]
    OBVIOUS
  <2> HIDE DEF new
  <2> QED BY <2>1, <1>2, FcnIsSeq
<1>4. /\ SeqLike(memories') /\ Len(memories') = L + Count
      /\ \A m \in 1..L : memories'[m] = memories[m]
      /\ \A i \in 1..Count : memories'[L + i] = MemoryOf(i)
  <2>1. \A i \in 1..Count : new[i] = MemoryOf(i)
    OBVIOUS
  <2> HIDE DEF new
  <2>2. PICK T : memories \in Seq(T) /\ new \in Seq(T)
    BY <1>2, <1>3, CommonSet, Zenon
  <2>3. memories' \in Seq(T)
    BY <2>2, <1>1
  <2>4. SeqLike(memories')
    BY <2>3, Zenon DEF SeqLike
  <2>5. Len(memories) \in Nat /\ Len(new) = Count /\ memories' = memories \o new
    BY <1>1, <1>2, <1>3
  <2>6. Len(memories') = Len(memories) + Count
    <3>1. SeqLike(memories) /\ Len(memories \o new) = Len(memories) + Len(new)
      BY <2>2, <1>2
    <3> QED BY <3>1, <2>5
  <2>7. \A m \in 1..Len(memories) : memories'[m] = memories[m]
    BY <2>2, <2>5
  <2>8. ASSUME NEW i \in 1..Count
        PROVE  memories'[Len(memories) + i] = MemoryOf(i)
    <3>1. memories'[Len(memories) + i] = new[i]
      BY <2>2, <2>5, <1>2
    <3> QED BY <3>1, <2>1
  <2> QED BY <2>4, <2>6, <2>7, <2>8
<1> HIDE DEF new
<1>5. ASSUME NEW i \in 1..Count
      PROVE  /\ MemoryOf(i).storage = turns[i].storage
             /\ MemoryOf(i).seq_len = Position(turns[i])
             /\ turns[i].storage \in 1..Len(storages)
             /\ Position(turns[i]) \in Nat
             /\ Position(turns[i]) <= Len(storages[turns[i].storage])
             /\ Start(turns[i]) <= Position(turns[i])
             /\ WellKept(MemoryOf(i).step_id, MemoryOf(i).features)
  <2>1. /\ MemoryOf(i).storage = turns[i].storage
        /\ MemoryOf(i).seq_len = Position(turns[i])
    BY DEF MemoryOf
  <2>2. turns[i].storage \in 1..Len(storages)
    BY <1>1, <1>2 DEF TurnsOK
  <2>3. Position(turns[i]) <= Len(storages[turns[i].storage])
    BY <1>1 DEF StoragesOK
  <2>4. Start(turns[i]) \in Nat
    <3>1. CASE turns[i].base = 0
      BY <3>1 DEF Start
    <3>2. CASE turns[i].base # 0
      <4>1. turns[i].base \in 1..L
        BY <3>2, <1>2 DEF TurnsOK
      <4> QED BY <4>1, <3>2 DEF Start, MemoriesOK
    <3> QED BY <3>1, <3>2
  <2>5. turns[i].prefilled \in Nat /\ turns[i].ids \in Nat
    BY DEF TurnsOK
  <2>6. Position(turns[i]) \in Nat /\ Start(turns[i]) <= Position(turns[i])
    BY <2>4, <2>5 DEF Position
  <2>7. WellKept(turns[i].step_id, turns[i].features)
    BY DEF TurnsOK
  <2>8. WellKept(MemoryOf(i).step_id, MemoryOf(i).features)
    <3> DEFINE c == IF turns[i].memory = 0 THEN NoHistory ELSE memories[turns[i].memory]
               h == Advance(turns[i], c)
    <3>1. MemoryOf(i).step_id = h.step_id /\ MemoryOf(i).features = h.features
      BY DEF MemoryOf
    <3> HIDE DEF c
    <3>2. WellKept(h.step_id, h.features)
      BY <2>7, AdvanceKeeps
    <3> QED BY <3>1, <3>2
  <2> QED BY <2>1, <2>2, <2>3, <2>6, <2>8
<1>6. ASSUME NEW m \in 1..L + Count
      PROVE  m \in 1..L \/ \E i \in 1..Count : m = L + i
  <2>1. CASE m <= L
    BY <2>1, <1>2
  <2>2. CASE m > L
    <3>1. m - L \in 1..Count /\ m = L + (m - L)
      BY <2>2, <1>2
    <3> QED BY <3>1
  <2> QED BY <2>1, <2>2, <1>2
<1>7. Count' = 0 /\ 1..Count' = {}
  BY <1>1 DEF Count
<1>8. Shape'
  <2>1. SeqLike(turns')
    <3>1. <<>> \in Seq({})
      OBVIOUS
    <3> QED BY <1>1, <3>1, Zenon DEF SeqLike
  <2> QED BY <2>1, <1>1, <1>2, <1>4, <1>7 DEF Shape
<1>9. MemoriesOK'
  <2> SUFFICES ASSUME NEW m \in 1..L + Count
               PROVE  /\ memories'[m].storage \in 1..Len(storages)
                      /\ memories'[m].seq_len \in Nat
                      /\ memories'[m].seq_len <= Len(storages[memories'[m].storage])
                      /\ WellKept(memories'[m].step_id, memories'[m].features)
    BY <1>1, <1>4 DEF MemoriesOK
  <2>1. CASE m \in 1..L
    BY <2>1, <1>4 DEF MemoriesOK
  <2>2. CASE \E i \in 1..Count : m = L + i
    BY <2>2, <1>4, <1>5
  <2> QED BY <2>1, <2>2, <1>6
<1>10. TurnsOK' /\ RoomOK'
  BY <1>1, <1>7 DEF TurnsOK, RoomOK
<1>11. ASSUME NEW i \in 1..Count, NEW m \in 1..L + Count,
              memories'[m].storage = turns[i].storage
       PROVE  memories'[m].seq_len <= Position(turns[i])
  <2>1. CASE m \in 1..L
    <3>1. memories[m].storage = turns[i].storage
      BY <2>1, <1>4, <1>11
    <3>2. LentTo(i)
      BY <3>1, <2>1, <1>1 DEF StoragesOK, NewTo
    <3>3. /\ previous[i] # 0 /\ previous[i] = turns[i].base /\ i \in Rows
          /\ memories[m].storage = memories[previous[i]].storage
      BY <3>1, <3>2, <1>2 DEF LentTo, Rows
    <3>4. memories[m].seq_len <= memories[previous[i]].seq_len
      BY <3>3, <2>1 DEF StoragesOK, Latest
    <3>5. Start(turns[i]) = memories[previous[i]].seq_len
      BY <3>3 DEF Start
    <3>6. memories[m].seq_len \in Nat /\ memories[previous[i]].seq_len \in Nat
      <4>1. previous[i] \in 1..L
        BY <3>3, <1>2 DEF TurnsOK
      <4> QED BY <4>1, <2>1 DEF MemoriesOK
    <3> QED BY <3>4, <3>5, <3>6, <1>4, <1>5, <2>1
  <2>2. CASE \E k \in 1..Count : m = L + k
    <3>1. PICK k \in 1..Count : m = L + k
      BY <2>2
    <3>2. turns[k].storage = turns[i].storage
      BY <3>1, <1>4, <1>5, <1>11
    <3>3. k = i
      BY <3>2, <1>1 DEF StoragesOK
    <3>4. memories'[m].seq_len = Position(turns[i])
      BY <3>1, <3>3, <1>4, <1>5
    <3> QED BY <3>4, <1>5
  <2> QED BY <2>1, <2>2, <1>6
<1>12. Latest(resident)'
  <2>1. resident' \in [Rows -> 0..L + Count]
    BY <1>1, <1>2 DEF Rows
  <2>2. ASSUME NEW i \in Rows, resident'[i] # 0
        PROVE  i \in 1..Count /\ resident'[i] = L + i
                 /\ memories'[resident'[i]].storage = turns[i].storage
                 /\ memories'[resident'[i]].seq_len = Position(turns[i])
    <3>1. i \in 1..Count /\ resident'[i] = L + i
      BY <2>2, <1>1, <1>2 DEF Rows
    <3> QED BY <3>1, <1>4, <1>5
  <2>3. \A i \in Rows : resident'[i] # 0 =>
          \A m \in 1..L + Count :
            memories'[m].storage = memories'[resident'[i]].storage =>
              memories'[m].seq_len <= memories'[resident'[i]].seq_len
    BY <2>2, <1>11
  <2>4. \A i, j \in Rows : j # i /\ resident'[i] # 0 /\ resident'[j] # 0 =>
          memories'[resident'[j]].storage # memories'[resident'[i]].storage
    <3> SUFFICES ASSUME NEW i \in Rows, NEW j \in Rows, j # i,
                        resident'[i] # 0, resident'[j] # 0
                 PROVE  memories'[resident'[j]].storage # memories'[resident'[i]].storage
      OBVIOUS
    <3>1. i \in 1..Count /\ j \in 1..Count
      BY <2>2
    <3>2. turns[i].storage # turns[j].storage
      BY <3>1, <1>1 DEF StoragesOK
    <3> QED BY <3>2, <2>2
  <2> QED BY <2>1, <2>3, <2>4, <1>4 DEF Latest
<1>13. Latest(previous)'
  <2>1. previous' = [i \in Rows |-> 0] /\ Len(memories') \in Nat
    BY <1>1, <1>2, <1>4 DEF Nothing
  <2> QED BY <2>1 DEF Latest
<1>14. StoragesOK'
  BY <1>12, <1>13, <1>1, <1>7 DEF StoragesOK
<1>15. PrefixStep
  BY <1>1, <1>2, <1>4 DEF PrefixStep, Held
<1> QED BY <1>8, <1>9, <1>10, <1>14, <1>15

(* Every step keeps the invariant and every prefix. *)
LEMMA NextStep == Inv /\ [Next]_vars => Inv' /\ PrefixStep
<1> SUFFICES ASSUME Inv, [Next]_vars PROVE Inv' /\ PrefixStep
  OBVIOUS
<1>1. CASE Begin
  BY <1>1, BeginStep
<1>2. CASE Fail
  BY <1>2, FailStep
<1>3. CASE Encode
  BY <1>3, EncodeStep
<1>4. CASE Plan
  BY <1>4, PlanStep
<1>5. CASE Load
  BY <1>5, LoadStep
<1>6. CASE Prefill
  BY <1>6, PrefillStep
<1>7. CASE Block
  BY <1>7, BlockStep
<1>8. ASSUME NEW i \in Rows, i <= Count, Commit(i)
      PROVE  Inv' /\ PrefixStep
  BY <1>8, CommitStep
<1>9. CASE Return
  BY <1>9, ReturnStep
<1>10. CASE UNCHANGED vars
  <2>1. UNCHANGED <<memories, storages, capacities, resident, previous, pc, turns>>
    BY <1>10 DEF vars
  <2>2. Count' = Count
    BY <2>1 DEF Count
  <2>3. Shape' /\ MemoriesOK' /\ TurnsOK'
    BY <2>1, <2>2 DEF Inv, Shape, MemoriesOK, TurnsOK
  <2>4. RoomOK'
    BY <2>1, <2>2 DEF Inv, RoomOK, Required, Start
  <2>5. StoragesOK'
    BY <2>1, <2>2 DEF Inv, StoragesOK, Latest, LentTo, NewTo, Live, Position, Start
  <2> QED BY <2>1, <2>3, <2>4, <2>5, UntouchedPrefixes DEF Inv
<1> QED BY <1>1, <1>2, <1>3, <1>4, <1>5, <1>6, <1>7, <1>8, <1>9, <1>10 DEF Next, Step

(***************************************************************************)
(* What the cells of the arena and of the storages hold.                   *)
(***************************************************************************)

(* The rows lie in the pool one behind another.                            *)
LayoutOK ==
  /\ \A i \in Rows : starts[i] \in Nat /\ capacities[i] \in Nat
  /\ \A i \in Rows : capacities[i] = 0 \/ starts[i] + capacities[i] <= pool_tokens
  /\ \A i, j \in Rows : i < j => starts[i] + capacities[i] <= starts[j]

(* The storage of a memory holds the text of the memory.                   *)
TextOK ==
  \A m \in 1..Len(memories) :
    /\ SeqLike(memories[m].text) /\ Len(memories[m].text) = memories[m].seq_len
    /\ \A p \in 1..memories[m].seq_len :
         storages[memories[m].storage][p] = memories[m].text[p]

(* A row begins with n cells of a text, and a table of residents names     *)
(* memories that are in their rows.                                        *)
Holds(i, n, text) == n <= capacities[i] /\ \A p \in 1..n : arena[starts[i] + p] = text[p]
Kept(r) == \A i \in Rows : r[i] # 0 => Holds(i, memories[r[i]].seq_len, memories[r[i]].text)

RowsOK ==
  /\ Kept(resident)
  /\ pc \in {"planned", "loaded", "decoding"} => resident = Nothing
  /\ pc = "planned" => Kept(previous)
  /\ pc \in {"loaded", "decoding"} =>
       \A i \in 1..Count : Holds(i, Position(turns[i]), TextOf(i))

(* A turn that is committed left its text in its storage.                  *)
CommittedOK ==
  \A i \in 1..Count : turns[i].storage # 0 =>
    \A p \in 1..Position(turns[i]) : storages[turns[i].storage][p] = TextOf(i)[p]

TextInv == LayoutOK /\ TextOK /\ RowsOK /\ CommittedOK

(* Two rows share no cell.                                                 *)
LEMMA RowsApart ==
  ASSUME LayoutOK, NEW i \in Rows, NEW j \in Rows, NEW p \in 1..capacities[i],
         NEW q \in 1..capacities[j], starts[i] + p = starts[j] + q
  PROVE  i = j /\ p = q
<1>1. starts[i] \in Nat /\ starts[j] \in Nat /\ capacities[i] \in Nat /\ capacities[j] \in Nat
  BY DEF LayoutOK
<1>2. ~(i < j)
  BY <1>1 DEF LayoutOK
<1>3. ~(j < i)
  BY <1>1 DEF LayoutOK
<1>4. i = j
  BY <1>2, <1>3, BatchAssumption DEF Rows
<1> QED BY <1>1, <1>4

(* Cells that fit their rows, and an arena they were written to: they are  *)
(* in their places and what was before them is as it was.                  *)
Fit(rows, from, cells) ==
  /\ rows \subseteq Rows
  /\ \A i \in rows : /\ from[i] \in Nat /\ SeqLike(cells[i])
                     /\ from[i] + Len(cells[i]) <= capacities[i]

Wrote(rows, from, cells, new) ==
  /\ \A i \in rows : \A k \in 1..Len(cells[i]) :
       new[starts[i] + (from[i] + k)] = cells[i][k]
  /\ \A i \in Rows : \A p \in 1..capacities[i] :
       i \notin rows \/ p <= from[i] => new[starts[i] + p] = arena[starts[i] + p]

LEMMA WrittenIs ==
  ASSUME LayoutOK, NEW rows, NEW from, NEW cells, Fit(rows, from, cells)
  PROVE  Wrote(rows, from, cells, Written(rows, from, cells))
<1>0. /\ rows \subseteq Rows
      /\ \A i \in rows : /\ from[i] \in Nat /\ SeqLike(cells[i])
                         /\ from[i] + Len(cells[i]) <= capacities[i]
  BY DEF Fit
<1> DEFINE at == [i \in rows |-> starts[i] + from[i]]
           Hit(p, i) == p - at[i] \in DOMAIN cells[i]
<1>1. ASSUME NEW i \in rows
      PROVE  /\ starts[i] \in Nat /\ from[i] \in Nat /\ Len(cells[i]) \in Nat
             /\ capacities[i] \in Nat /\ from[i] + Len(cells[i]) <= capacities[i]
             /\ DOMAIN cells[i] = 1..Len(cells[i]) /\ at[i] = starts[i] + from[i]
  BY <1>0, SeqIsFcn DEF LayoutOK
<1>2. ASSUME NEW i \in Rows, NEW p \in 1..capacities[i]
      PROVE  starts[i] + p \in 1..pool_tokens
  <2>1. starts[i] \in Nat /\ capacities[i] \in Nat /\ starts[i] + capacities[i] <= pool_tokens
    BY DEF LayoutOK
  <2>2. pool_tokens \in Nat
    BY BatchAssumption
  <2> QED BY <2>1, <2>2
<1>3. ASSUME NEW i \in Rows, NEW p \in 1..capacities[i], NEW j \in rows, Hit(starts[i] + p, j)
      PROVE  j = i /\ p > from[i] /\ p - from[i] \in 1..Len(cells[i])
                   /\ (starts[i] + p) - at[i] = p - from[i]
  <2>0. p \in Nat /\ starts[i] \in Nat
    BY DEF LayoutOK
  <2>1. (starts[i] + p) - at[j] \in 1..Len(cells[j])
    BY <1>1, <1>3
  <2> DEFINE q == (starts[i] + p) - starts[j]
  <2>2. q \in 1..capacities[j] /\ starts[i] + p = starts[j] + q
    <3>1. /\ starts[j] \in Nat /\ from[j] \in Nat /\ Len(cells[j]) \in Nat
          /\ capacities[j] \in Nat /\ from[j] + Len(cells[j]) <= capacities[j]
          /\ at[j] = starts[j] + from[j]
      BY <1>1
    <3> DEFINE x == (starts[i] + p) - at[j]
    <3>2. x \in Int /\ x = (starts[i] + p) - (starts[j] + from[j]) /\ x \in 1..Len(cells[j])
      BY <2>0, <2>1, <3>1
    <3>3. q = from[j] + x
      BY <2>0, <3>1, <3>2
    <3>4. starts[i] + p = starts[j] + q
      BY <2>0, <3>1
    <3> HIDE DEF x, q, at
    <3> QED BY <3>1, <3>2, <3>3, <3>4
  <2>3. i = j
    BY <1>0, <2>2, RowsApart
  <2>4. p - from[i] = (starts[i] + p) - at[i] /\ i \in rows
    BY <1>1, <2>0, <2>3
  <2> QED BY <1>1, <2>0, <2>1, <2>3, <2>4
<1>4. ASSUME NEW p \in 1..pool_tokens
      PROVE  Written(rows, from, cells)[p] =
               IF \E i \in rows : Hit(p, i)
               THEN LET i == CHOOSE i \in rows : Hit(p, i) IN cells[i][p - at[i]]
               ELSE arena[p]
  BY DEF Written
<1> HIDE DEF at
<1>5. ASSUME NEW i \in rows, NEW k \in 1..Len(cells[i])
      PROVE  Written(rows, from, cells)[starts[i] + (from[i] + k)] = cells[i][k]
  <2> DEFINE p == from[i] + k
             c == CHOOSE j \in rows : Hit(starts[i] + p, j)
  <2>1. p \in 1..capacities[i] /\ i \in Rows
    BY <1>0, <1>1
  <2>2. (starts[i] + p) - at[i] = k
    BY <1>1
  <2>3. Hit(starts[i] + p, i)
    BY <1>1, <2>2
  <2>4. c \in rows /\ Hit(starts[i] + p, c)
    BY <2>3
  <2> HIDE DEF c, p, Hit
  <2>5. c = i
    BY <1>3, <2>1, <2>4
  <2>6. starts[i] + p \in 1..pool_tokens
    BY <1>2, <2>1
  <2>7. Written(rows, from, cells)[starts[i] + p] = cells[c][(starts[i] + p) - at[c]]
    BY <1>4, <2>3, <2>6 DEF c
  <2> QED BY <2>2, <2>5, <2>7 DEF p
<1>6. ASSUME NEW i \in Rows, NEW p \in 1..capacities[i], i \notin rows \/ p <= from[i]
      PROVE  Written(rows, from, cells)[starts[i] + p] = arena[starts[i] + p]
  <2>1. ~ \E j \in rows : Hit(starts[i] + p, j)
    <3> SUFFICES ASSUME NEW j \in rows, Hit(starts[i] + p, j) PROVE FALSE
      OBVIOUS
    <3> HIDE DEF Hit
    <3>1. j = i /\ p > from[i] /\ i \in rows
      BY <1>3
    <3>2. p \in Int /\ from[i] \in Nat
      BY <1>0, <3>1
    <3> QED BY <1>6, <3>1, <3>2
  <2> HIDE DEF Hit
  <2> QED BY <1>2, <1>4, <2>1
<1> QED BY <1>5, <1>6 DEF Wrote

(* The text of a turn: that of its memory, then its own cells.             *)
LEMMA TextShape ==
  ASSUME Inv, TextOK, NEW i \in 1..Count
  PROVE  LET t == turns[i]
         IN  /\ Start(t) \in Nat /\ t.prefilled \in Nat /\ t.ids \in Nat
             /\ Position(t) = Start(t) + (t.prefilled + t.ids)
             /\ SeqLike(TextOf(i)) /\ Len(TextOf(i)) = Position(t)
             /\ \A p \in 1..Start(t) : TextOf(i)[p] = memories[t.base].text[p]
             /\ \A k \in 1..t.prefilled + t.ids : TextOf(i)[Start(t) + k] = Cell(i, k)
             /\ t.base # 0 => t.base \in 1..Len(memories) /\ Start(t) = memories[t.base].seq_len
<1> DEFINE t == turns[i]
           a == t.prefilled + t.ids
           own == [k \in 1..a |-> Cell(i, k)]
           base == BaseOf(t)
<1>1. t.prefilled \in Nat /\ t.ids \in Nat /\ a \in Nat
  BY DEF Inv, TurnsOK
<1>2. /\ SeqLike(base) /\ Len(base) = Start(t) /\ Start(t) \in Nat
      /\ \A p \in 1..Start(t) : base[p] = memories[t.base].text[p]
      /\ t.base # 0 => t.base \in 1..Len(memories) /\ Start(t) = memories[t.base].seq_len
  <2>1. CASE t.base = 0
    <3>1. <<>> \in Seq({}) /\ Len(<<>>) = 0
      OBVIOUS
    <3>2. base = <<>> /\ Start(t) = 0
      BY <2>1 DEF BaseOf, Start
    <3>3. SeqLike(base)
      BY <3>1, <3>2, Zenon DEF SeqLike
    <3> QED BY <2>1, <3>1, <3>2, <3>3
  <2>2. CASE t.base # 0
    <3>1. t.base \in 1..Len(memories)
      BY <2>2, SeqIsFcn DEF Inv, TurnsOK, Shape
    <3> QED BY <2>2, <3>1 DEF BaseOf, Start, TextOK, Inv, MemoriesOK
  <2> QED BY <2>1, <2>2
<1>3. SeqLike(own) /\ Len(own) = a /\ \A k \in 1..a : own[k] = Cell(i, k)
  <2>1. own = [k \in 1..a |-> own[k]] /\ \A k \in 1..a : own[k] = Cell(i, k)
    OBVIOUS
  <2> HIDE DEF own, a
  <2> QED BY <1>1, <2>1, FcnIsSeq
<1>4. TextOf(i) = base \o own
  BY DEF TextOf
<1>5. Position(t) = Start(t) + a
  BY <1>1, <1>2 DEF Position
<1> HIDE DEF own, base, a, t
<1>6. PICK T : base \in Seq(T) /\ own \in Seq(T)
  BY <1>2, <1>3, CommonSet, Zenon
<1>7. /\ base \o own \in Seq(T) /\ Len(base \o own) = Start(t) + a
      /\ \A p \in 1..Start(t) : (base \o own)[p] = base[p]
      /\ \A k \in 1..a : (base \o own)[Start(t) + k] = own[k]
  BY <1>2, <1>3, <1>6, Concatenation
<1>8. SeqLike(base \o own)
  BY <1>7, Zenon DEF SeqLike
<1> QED BY <1>1, <1>2, <1>3, <1>4, <1>5, <1>7, <1>8 DEF a, t

(* A turn whose memory and whose progress stay has the same text.          *)
LEMMA SameText ==
  ASSUME UNCHANGED <<memories, calls>>, NEW i, turns'[i].base = turns[i].base,
         turns'[i].prefilled = turns[i].prefilled, turns'[i].ids = turns[i].ids
  PROVE  /\ TextOf(i)' = TextOf(i) /\ Start(turns[i])' = Start(turns[i])
         /\ Position(turns[i])' = Position(turns[i])
<1>1. Start(turns[i])' = Start(turns[i]) /\ BaseOf(turns[i])' = BaseOf(turns[i])
  BY DEF Start, BaseOf
<1>2. \A k : Cell(i, k)' = Cell(i, k)
  BY DEF Cell
<1>3. turns'[i].prefilled + turns'[i].ids = turns[i].prefilled + turns[i].ids
  OBVIOUS
<1>4. [k \in 1..turns[i].prefilled + turns[i].ids |-> Cell(i, k)]'
        = [k \in 1..turns[i].prefilled + turns[i].ids |-> Cell(i, k)]
  BY <1>2, <1>3
<1>5. TextOf(i)' = TextOf(i)
  BY <1>1, <1>4, Zenon DEF TextOf
<1> QED BY <1>1, <1>5 DEF Position

LEMMA InitText == Init => TextInv
<1> SUFFICES ASSUME Init PROVE TextInv
  OBVIOUS
<1>1. Len(memories) = 0 /\ Count = 0
  BY DEF Init, Count
<1>2. batch_size \in Nat /\ capacity \in Nat /\ pool_tokens \in Nat
  BY BatchAssumption
<1>3. ASSUME NEW i \in Nat, NEW j \in Nat, i < j
      PROVE  i * capacity \in Nat /\ i * capacity + capacity <= j * capacity
  BY <1>2, <1>3, Z3
<1>4. LayoutOK
  <2>1. ASSUME NEW i \in Rows
        PROVE  /\ starts[i] = (i - 1) * capacity /\ starts[i] \in Nat
               /\ capacities[i] \in Nat /\ capacities[i] <= capacity
               /\ i - 1 \in Nat
    <3>1. i - 1 \in Nat /\ i \in Nat /\ i - 1 < i
      BY DEF Rows
    <3>2. (i - 1) * capacity \in Nat
      BY <1>3, <3>1
    <3> QED BY <1>2, <3>1, <3>2 DEF Init
  <2>2. ASSUME NEW i \in Rows, capacities[i] # 0
        PROVE  starts[i] + capacities[i] <= pool_tokens
    <3>1. pool_tokens = batch_size * capacity
      BY <2>2, BatchAssumption DEF Init
    <3>2. (i - 1) * capacity + capacity <= batch_size * capacity
      <4>1. i - 1 \in Nat /\ i - 1 < batch_size
        BY <1>2 DEF Rows
      <4> QED BY <1>2, <1>3, <4>1
    <3>3. (i - 1) * capacity \in Nat
      BY <2>1
    <3> QED BY <1>2, <2>1, <3>1, <3>2, <3>3
  <2>3. ASSUME NEW i \in Rows, NEW j \in Rows, i < j
        PROVE  starts[i] + capacities[i] <= starts[j]
    <3>1. i - 1 \in Nat /\ j - 1 \in Nat /\ i - 1 < j - 1
      BY <2>3 DEF Rows
    <3>2. starts[i] + capacity <= starts[j]
      BY <1>3, <2>1, <3>1
    <3> QED BY <1>2, <2>1, <3>2
  <2> QED BY <2>1, <2>2, <2>3 DEF LayoutOK
<1>5. TextOK /\ RowsOK /\ CommittedOK
  BY <1>1 DEF Init, Nothing, TextOK, RowsOK, Kept, CommittedOK
<1> QED BY <1>4, <1>5 DEF TextInv

(* A step that writes nothing and lays nothing out.                        *)
LEMMA QuietText ==
  ASSUME TextInv, UNCHANGED <<memories, storages, arena, starts, capacities>>
  PROVE  LayoutOK' /\ TextOK' /\ \A r : Kept(r) => Kept(r)'
<1>1. LayoutOK'
  BY DEF TextInv, LayoutOK
<1>2. TextOK'
  BY DEF TextInv, TextOK
<1>3. ASSUME NEW r, Kept(r) PROVE Kept(r)'
  BY <1>3 DEF Kept, Holds
<1> QED BY <1>1, <1>2, <1>3

LEMMA NothingIsKept == Kept(Nothing) /\ Kept(Nothing)'
BY DEF Kept, Nothing

LEMMA QuietStepsText ==
  ASSUME Inv, Inv', TextInv, Begin \/ Fail \/ Encode \/ UNCHANGED vars
  PROVE  TextInv'
<1>1. CASE UNCHANGED vars
  <2>1. UNCHANGED <<memories, storages, arena, starts, capacities, resident, previous, pc, turns, calls>>
    BY <1>1 DEF vars
  <2>2. LayoutOK' /\ TextOK' /\ (Kept(resident) => Kept(resident)')
        /\ (Kept(previous) => Kept(previous)')
    <3>1. LayoutOK' /\ TextOK'
      BY <2>1, QuietText
    <3> QED BY <2>1, <3>1 DEF Kept, Holds
  <2>3. \A i : /\ TextOf(i)' = TextOf(i) /\ Position(turns[i])' = Position(turns[i])
              /\ turns'[i] = turns[i]
    BY <2>1, SameText
  <2>4. Count' = Count
    BY <2>1 DEF Count
  <2>5. RowsOK'
    <3>1. \A i : Holds(i, Position(turns[i]), TextOf(i)) => Holds(i, Position(turns[i]), TextOf(i))'
      BY <2>1, <2>3 DEF Holds
    <3> QED BY <2>1, <2>2, <2>4, <3>1 DEF TextInv, RowsOK
  <2>6. CommittedOK'
    BY <2>1, <2>3, <2>4 DEF TextInv, CommittedOK
  <2> QED BY <2>2, <2>5, <2>6 DEF TextInv
<1>2. CASE Begin \/ Fail \/ Encode
  <2>1. /\ UNCHANGED <<memories, storages, arena, starts, capacities>>
        /\ pc' \in {"idle", "prepared", "encoded"} /\ (resident' = resident \/ resident' = Nothing)
    BY <1>2 DEF Begin, Fail, Encode
  <2>2. LayoutOK' /\ TextOK' /\ Kept(resident)'
    <3>1. Kept(resident)
      BY DEF TextInv, RowsOK
    <3>2. LayoutOK' /\ TextOK'
      BY <2>1, QuietText
    <3>3. Kept(resident)'
      BY <2>1, <3>1 DEF Kept, Holds, Nothing
    <3> QED BY <3>2, <3>3
  <2>3. CommittedOK'
    <3>1. \A i \in 1..Count' : turns'[i].storage # 0 => pc' = "decoding"
      BY DEF Inv, StoragesOK
    <3> QED BY <2>1, <3>1 DEF CommittedOK
  <2> QED BY <2>1, <2>2, <2>3 DEF TextInv, RowsOK
<1> QED BY <1>1, <1>2

(* Rows that are laid out anew fit the pool, and hold nothing yet.         *)
LEMMA PlanText ==
  ASSUME Inv, Inv', TextInv, Plan
  PROVE  TextInv'
<1>1. /\ UNCHANGED <<memories, storages, arena, turns>>
      /\ resident' = Nothing /\ pc' = "planned"
  BY DEF Plan
<1>2. TextOK'
  BY <1>1 DEF TextInv, TextOK
<1>3. CommittedOK'
  BY <1>1 DEF CommittedOK, Inv, StoragesOK
<1>4. CASE Keep
  <2>1. UNCHANGED <<starts, capacities>> /\ previous' = resident
    BY <1>4 DEF Keep
  <2>2. LayoutOK'
    BY <2>1 DEF TextInv, LayoutOK
  <2>3. Kept(previous)' /\ Kept(resident)'
    BY <1>1, <2>1, NothingIsKept DEF TextInv, RowsOK, Kept, Holds
  <2> QED BY <1>1, <1>2, <1>3, <2>2, <2>3 DEF TextInv, RowsOK
<1>5. CASE Relocate
  <2> DEFINE layout == Layout
  <2>1. /\ SumOf(layout, batch_size) <= pool_tokens /\ capacities' = layout
        /\ starts' = [i \in Rows |-> SumOf(layout, i - 1)] /\ previous' = Nothing
    BY <1>5 DEF Relocate
  <2>2. \A i \in 1..batch_size : layout[i] \in Nat
    BY <2>1 DEF Inv, RoomOK, Rows
  <2> HIDE DEF layout
  <2>3. batch_size \in Nat /\ pool_tokens \in Nat
    BY BatchAssumption
  <2>4. /\ \A i \in 0..batch_size : SumOf(layout, i) \in Nat
        /\ \A i \in 1..batch_size : SumOf(layout, i) = SumOf(layout, i - 1) + layout[i]
        /\ \A i, j \in 0..batch_size : i <= j => SumOf(layout, i) <= SumOf(layout, j)
    BY <2>2, <2>3, PrefixSums
  <2>5. ASSUME NEW i \in Rows
        PROVE  /\ starts'[i] = SumOf(layout, i - 1) /\ starts'[i] \in Nat
               /\ capacities'[i] \in Nat /\ starts'[i] + capacities'[i] = SumOf(layout, i)
               /\ SumOf(layout, i) \in Nat
               /\ i \in 1..batch_size /\ i \in 0..batch_size /\ i - 1 \in 0..batch_size
    <3>1. i \in 1..batch_size /\ i - 1 \in 0..batch_size /\ i \in 0..batch_size
      BY <2>3 DEF Rows
    <3> QED BY <2>1, <2>2, <2>4, <3>1
  <2>6. ASSUME NEW i \in Rows PROVE starts'[i] + capacities'[i] <= pool_tokens
    <3>1. SumOf(layout, i) <= SumOf(layout, batch_size) /\ SumOf(layout, batch_size) \in Nat
      <4>1. batch_size \in 0..batch_size /\ i <= batch_size
        BY <2>3, <2>5
      <4> QED BY <2>4, <2>5, <4>1
    <3> QED BY <2>1, <2>3, <2>5, <3>1
  <2>7. ASSUME NEW i \in Rows, NEW j \in Rows, i < j
        PROVE  starts'[i] + capacities'[i] <= starts'[j]
    <3>1. i <= j - 1
      BY <2>5, <2>7
    <3>2. SumOf(layout, i) <= SumOf(layout, j - 1)
      BY <2>4, <2>5, <3>1
    <3> QED BY <2>5, <3>2
  <2>8. LayoutOK'
    BY <2>5, <2>6, <2>7 DEF LayoutOK
  <2>9. Kept(previous)' /\ Kept(resident)'
    BY <1>1, <2>1, NothingIsKept
  <2> QED BY <1>1, <1>2, <1>3, <2>8, <2>9 DEF TextInv, RowsOK
<1> QED BY <1>4, <1>5 DEF Plan

(* The room of a row of the call, and its turn before anything is computed. *)
LEMMA RoomOfRow ==
  ASSUME Inv, TextInv, NEW i \in 1..Count, pc \in {"planned", "loaded", "decoding"}
  PROVE  LET t == turns[i]
         IN  /\ i \in Rows /\ Start(t) \in Nat /\ t.size \in Nat /\ capacities[i] \in Nat
             /\ Start(t) + t.size <= capacities[i]
             /\ pc \in {"planned", "loaded"} =>
                  t.prefilled = 0 /\ t.ids = 0 /\ Position(t) = Start(t)
<1> DEFINE t == turns[i]
<1>1. i \in Rows
  BY SeqIsFcn, BatchAssumption DEF Inv, Shape, Count, Rows
<1>2. Start(t) \in Nat /\ t.size \in Nat /\ capacities[i] \in Nat /\ max_new_tokens \in Nat
  BY <1>1, TextShape, BatchAssumption DEF TextInv, Inv, TurnsOK, LayoutOK
<1>3. Start(t) + t.size + max_new_tokens <= capacities[i]
  BY DEF Inv, RoomOK, Required
<1>4. pc \in {"planned", "loaded"} => t.prefilled = 0 /\ t.ids = 0
  BY DEF Inv, RoomOK
<1>5. pc \in {"planned", "loaded"} => Position(t) = Start(t)
  BY <1>2, <1>4 DEF Position
<1> HIDE DEF t
<1>6. Start(t) + t.size <= capacities[i]
  BY <1>2, <1>3
<1> QED BY <1>1, <1>2, <1>4, <1>5, <1>6 DEF t

(* A row is loaded, or it still holds the memory its turn continues.       *)
LEMMA LoadText ==
  ASSUME Inv, Inv', TextInv, Load
  PROVE  TextInv'
<1> DEFINE rows == {i \in 1..Count : Imports(i)}
           from == [i \in rows |-> 0]
           cells == [i \in rows |-> Held(memories[turns[i].base])]
<1>1. /\ UNCHANGED <<memories, storages, starts, capacities, resident, previous, turns, calls>>
      /\ pc = "planned" /\ pc' = "loaded" /\ arena' = Written(rows, from, cells)
      /\ Count' = Count
  BY DEF Load, Count
<1>2. LayoutOK' /\ TextOK' /\ LayoutOK /\ TextOK
  BY <1>1 DEF TextInv, LayoutOK, TextOK
<1>3. CommittedOK'
  BY <1>1 DEF CommittedOK, Inv, StoragesOK
<1>4. resident' = Nothing
  BY <1>1 DEF TextInv, RowsOK
<1>5. ASSUME NEW i \in 1..Count
      PROVE  /\ i \in Rows /\ Start(turns[i]) \in Nat /\ capacities[i] \in Nat
             /\ Start(turns[i]) <= capacities[i] /\ Position(turns[i]) = Start(turns[i])
  <2>1. /\ i \in Rows /\ Start(turns[i]) \in Nat /\ capacities[i] \in Nat /\ turns[i].size \in Nat
        /\ Start(turns[i]) + turns[i].size <= capacities[i] /\ Position(turns[i]) = Start(turns[i])
    BY <1>1, RoomOfRow
  <2> QED BY <2>1
<1>6. ASSUME NEW i \in rows
      PROVE  /\ SeqLike(cells[i]) /\ Len(cells[i]) = Start(turns[i]) /\ i \in 1..Count
             /\ \A p \in 1..Start(turns[i]) : cells[i][p] = TextOf(i)[p]
  <2> DEFINE m == memories[turns[i].base]
  <2>1. turns[i].base # 0 /\ i \in 1..Count
    BY DEF Imports
  <2>2. turns[i].base \in 1..Len(memories) /\ Start(turns[i]) = m.seq_len /\ m.seq_len \in Nat
    BY <1>2, <2>1, TextShape
  <2>3. /\ cells[i] = [p \in 1..m.seq_len |-> storages[m.storage][p]]
    BY DEF Held
  <2>4. cells[i] = [p \in 1..m.seq_len |-> cells[i][p]]
        /\ \A p \in 1..m.seq_len : cells[i][p] = storages[m.storage][p]
    BY <2>3
  <2>5. \A p \in 1..m.seq_len : storages[m.storage][p] = m.text[p] /\ TextOf(i)[p] = m.text[p]
    BY <1>2, <2>1, <2>2, TextShape DEF TextOK
  <2> HIDE DEF m, cells
  <2>6. SeqLike(cells[i]) /\ Len(cells[i]) = m.seq_len
    BY <2>2, <2>4, FcnIsSeq
  <2> QED BY <2>1, <2>2, <2>4, <2>5, <2>6
<1>7. /\ \A i \in rows : \A k \in 1..Len(cells[i]) : arena'[starts[i] + (from[i] + k)] = cells[i][k]
      /\ \A i \in Rows : \A p \in 1..capacities[i] :
           i \notin rows \/ p <= from[i] => arena'[starts[i] + p] = arena[starts[i] + p]
  <2>1. \A i \in rows : /\ from[i] \in Nat /\ SeqLike(cells[i])
                        /\ from[i] + Len(cells[i]) <= capacities[i]
    <3> SUFFICES ASSUME NEW i \in rows
                 PROVE  /\ from[i] \in Nat /\ SeqLike(cells[i])
                        /\ from[i] + Len(cells[i]) <= capacities[i]
      OBVIOUS
    <3>1. from[i] = 0 /\ SeqLike(cells[i]) /\ Len(cells[i]) = Start(turns[i]) /\ i \in 1..Count
      BY <1>6
    <3> HIDE DEF from, cells, rows
    <3> QED BY <1>5, <3>1
  <2>2. rows \subseteq Rows
    BY <1>5
  <2>3. LayoutOK
    BY <1>2
  <2>4. arena' = Written(rows, from, cells)
    BY <1>1
  <2> HIDE DEF rows, from, cells
  <2>5. Fit(rows, from, cells)
    BY <2>1, <2>2 DEF Fit
  <2>6. Wrote(rows, from, cells, arena')
    BY <2>3, <2>4, <2>5, WrittenIs
  <2> QED BY <2>6 DEF Wrote
<1>8. ASSUME NEW i \in 1..Count PROVE Holds(i, Position(turns[i]), TextOf(i))'
  <2>1. TextOf(i)' = TextOf(i) /\ Position(turns[i])' = Position(turns[i])
    BY <1>1, SameText
  <2>2. ASSUME NEW p \in 1..Start(turns[i]) PROVE arena'[starts[i] + p] = TextOf(i)[p]
    <3>1. turns[i].base # 0
      BY <2>2 DEF Start
    <3>2. CASE i \in rows
      <4>1. from[i] + p = p /\ p \in 1..Len(cells[i]) /\ cells[i][p] = TextOf(i)[p]
        BY <1>6, <2>2, <3>2
      <4> HIDE DEF rows, cells, from
      <4> QED BY <1>7, <3>2, <4>1
    <3>3. CASE i \notin rows
      <4>1. previous[i] = turns[i].memory /\ turns[i].memory = turns[i].base
        BY <3>1, <3>3 DEF Imports, Inv, TurnsOK
      <4>2. Holds(i, memories[turns[i].base].seq_len, memories[turns[i].base].text)
        BY <1>1, <1>5, <3>1, <4>1 DEF TextInv, RowsOK, Kept
      <4>3. arena[starts[i] + p] = memories[turns[i].base].text[p]
        BY <3>1, <4>2 DEF Holds, Start
      <4>4. TextOf(i)[p] = memories[turns[i].base].text[p]
        BY <1>2, TextShape
      <4>5. p \in 1..capacities[i]
        BY <1>5
      <4> HIDE DEF rows, cells, from
      <4> QED BY <1>5, <1>7, <3>3, <4>3, <4>4, <4>5
    <3> QED BY <3>2, <3>3
  <2> QED BY <1>1, <1>5, <2>1, <2>2 DEF Holds
<1>9. RowsOK'
  BY <1>1, <1>4, <1>8, NothingIsKept DEF RowsOK
<1> QED BY <1>2, <1>3, <1>9 DEF TextInv

(* The same in the next state.                                             *)
TurnText(i) ==
  LET t == turns[i]
  IN  /\ Start(t) \in Nat
      /\ \A p \in 1..Start(t) : TextOf(i)[p] = memories[t.base].text[p]
      /\ \A k \in 1..t.prefilled + t.ids : TextOf(i)[Start(t) + k] = Cell(i, k)

LEMMA TurnTexts == Inv /\ TextOK => \A i \in 1..Count : TurnText(i)
BY TextShape DEF TurnText

LEMMA NextTurnTexts == (Inv /\ TextOK => \A i \in 1..Count : TurnText(i))'
BY TurnTexts, PTL

(* Rows that compute the next cells of their turns: each row still holds   *)
(* its text up to where its turn has come.                                 *)
Computed(t) == t.prefilled + t.ids

LEMMA GrowText ==
  ASSUME Inv, Inv', TextInv, NEW rows \in SUBSET (1..Count), NEW from, NEW cells,
         UNCHANGED <<memories, storages, starts, capacities, resident, calls>>, Count' = Count,
         pc \in {"loaded", "decoding"}, pc' = "decoding",
         \A i \in 1..Count : Holds(i, Position(turns[i]), TextOf(i)),
         \A i \in 1..Count : turns'[i].base = turns[i].base /\ turns'[i].storage = 0,
         \A i \in (1..Count) \ rows :
           turns'[i].prefilled = turns[i].prefilled /\ turns'[i].ids = turns[i].ids,
         \A i \in rows :
           /\ SeqLike(cells[i]) /\ from[i] = Position(turns[i])
           /\ Position(turns[i]) + Len(cells[i]) <= capacities[i]
           /\ Computed(turns[i]) <= Computed(turns'[i])
           /\ Computed(turns'[i]) - Computed(turns[i]) <= Len(cells[i])
           /\ \A k \in 1..Computed(turns'[i]) - Computed(turns[i]) :
                cells[i][k] = Cell(i, Computed(turns[i]) + k),
         arena' = Written(rows, from, cells)
  PROVE  TextInv'
<1>1. LayoutOK' /\ TextOK' /\ LayoutOK /\ TextOK
  BY DEF TextInv, LayoutOK, TextOK
<1>2. CommittedOK' /\ resident' = Nothing
  BY DEF CommittedOK, TextInv, RowsOK
<1>3. ASSUME NEW i \in 1..Count
      PROVE  /\ i \in Rows /\ capacities[i] \in Nat /\ starts[i] \in Nat
             /\ Start(turns[i]) \in Nat /\ Computed(turns[i]) \in Nat
             /\ Position(turns[i]) = Start(turns[i]) + Computed(turns[i])
             /\ Start(turns[i])' = Start(turns[i]) /\ Computed(turns'[i]) \in Nat
             /\ Position(turns[i])' = Start(turns[i]) + Computed(turns'[i])
  <2>1. i \in Rows /\ capacities[i] \in Nat /\ starts[i] \in Nat
    BY <1>1, RoomOfRow DEF LayoutOK
  <2>2. /\ Start(turns[i]) \in Nat /\ Computed(turns[i]) \in Nat
        /\ Position(turns[i]) = Start(turns[i]) + Computed(turns[i])
    BY <1>1, TextShape DEF Computed
  <2>3. Start(turns[i])' = Start(turns[i])
    BY DEF Start
  <2>4. turns'[i].prefilled \in Nat /\ turns'[i].ids \in Nat
    BY DEF Inv, TurnsOK
  <2>5. Position(turns[i])' = Start(turns[i])' + turns'[i].prefilled + turns'[i].ids
    BY DEF Position
  <2>6. Computed(turns'[i]) \in Nat /\ Position(turns[i])' = Start(turns[i]) + Computed(turns'[i])
    BY <2>2, <2>3, <2>4, <2>5 DEF Computed
  <2> QED BY <2>1, <2>2, <2>3, <2>6
<1>4. ASSUME NEW i \in 1..Count
      PROVE  /\ \A p \in 1..Start(turns[i]) : TextOf(i)'[p] = TextOf(i)[p]
             /\ \A k \in 1..Computed(turns[i]) : TextOf(i)[Start(turns[i]) + k] = Cell(i, k)
             /\ \A k \in 1..Computed(turns'[i]) : TextOf(i)'[Start(turns[i]) + k] = Cell(i, k)
  <2>1. /\ \A p \in 1..Start(turns[i]) : TextOf(i)[p] = memories[turns[i].base].text[p]
        /\ \A k \in 1..Computed(turns[i]) : TextOf(i)[Start(turns[i]) + k] = Cell(i, k)
    BY <1>1, TextShape DEF Computed
  <2>2. /\ \A p \in 1..Start(turns[i])' : TextOf(i)'[p] = memories'[turns'[i].base].text[p]
        /\ \A k \in 1..turns'[i].prefilled + turns'[i].ids :
             TextOf(i)'[Start(turns[i])' + k] = Cell(i, k)'
    BY <1>1, NextTurnTexts DEF TurnText
  <2>3. \A k : Cell(i, k)' = Cell(i, k)
    BY DEF Cell
  <2> QED BY <1>3, <2>1, <2>2, <2>3 DEF Computed
<1>5. /\ \A i \in rows : \A k \in 1..Len(cells[i]) :
           arena'[starts[i] + (from[i] + k)] = cells[i][k]
      /\ \A i \in Rows : \A p \in 1..capacities[i] :
           i \notin rows \/ p <= from[i] => arena'[starts[i] + p] = arena[starts[i] + p]
  <2>1. \A i \in rows : /\ from[i] \in Nat /\ SeqLike(cells[i])
                        /\ from[i] + Len(cells[i]) <= capacities[i]
    <3> SUFFICES ASSUME NEW i \in rows
                 PROVE  /\ from[i] \in Nat /\ SeqLike(cells[i])
                        /\ from[i] + Len(cells[i]) <= capacities[i]
      OBVIOUS
    <3>1. i \in 1..Count /\ from[i] = Position(turns[i]) /\ SeqLike(cells[i])
          /\ Position(turns[i]) + Len(cells[i]) <= capacities[i]
      OBVIOUS
    <3>2. Position(turns[i]) \in Nat
      BY <1>3, <3>1
    <3> QED BY <3>1, <3>2
  <2>2. rows \subseteq Rows
    BY <1>3
  <2>3. Fit(rows, from, cells)
    BY <2>1, <2>2 DEF Fit
  <2>4. Wrote(rows, from, cells, arena')
    BY <1>1, <2>3, WrittenIs
  <2> QED BY <2>4 DEF Wrote
<1>6. ASSUME NEW i \in 1..Count PROVE Holds(i, Position(turns[i]), TextOf(i))'
  <2>1. Holds(i, Position(turns[i]), TextOf(i))
    OBVIOUS
  <2>2. CASE i \notin rows
    <3>1. TextOf(i)' = TextOf(i) /\ Position(turns[i])' = Position(turns[i])
      BY <2>2, SameText
    <3>2. \A p \in 1..Position(turns[i]) : p \in 1..capacities[i]
      BY <1>3, <2>1 DEF Holds
    <3> QED BY <1>3, <1>5, <2>1, <2>2, <3>1, <3>2 DEF Holds
  <2>3. CASE i \in rows
    <3> DEFINE n == Position(turns[i])
               g == Computed(turns'[i]) - Computed(turns[i])
    <3>1. /\ n \in Nat /\ g \in Nat /\ Position(turns[i])' = n + g /\ from[i] = n
          /\ Len(cells[i]) \in Nat /\ g <= Len(cells[i]) /\ n + Len(cells[i]) <= capacities[i]
          /\ capacities[i] \in Nat /\ i \in Rows
      BY <1>3, <2>3, SeqIsFcn
    <3>2. ASSUME NEW p \in 1..n PROVE arena'[starts[i] + p] = TextOf(i)'[p]
      <4>1. p \in 1..capacities[i] /\ p <= from[i]
        BY <3>1
      <4>2. arena'[starts[i] + p] = TextOf(i)[p]
        BY <1>5, <2>1, <3>1, <4>1 DEF Holds
      <4>3. CASE p <= Start(turns[i])
        BY <1>3, <1>4, <4>2, <4>3
      <4>4. CASE p > Start(turns[i])
        <5> DEFINE k == p - Start(turns[i])
        <5>1. k \in 1..Computed(turns[i]) /\ k \in 1..Computed(turns'[i]) /\ p = Start(turns[i]) + k
          BY <1>3, <2>3, <4>4
        <5> HIDE DEF k
        <5> QED BY <1>4, <4>2, <5>1
      <4> QED BY <1>3, <4>3, <4>4
    <3>3. ASSUME NEW k \in 1..g PROVE arena'[starts[i] + (n + k)] = TextOf(i)'[n + k]
      <4>1. k \in 1..Len(cells[i])
        BY <3>1
      <4>2. cells[i][k] = Cell(i, Computed(turns[i]) + k)
        BY <2>3
      <4>3. Computed(turns[i]) + k \in 1..Computed(turns'[i])
              /\ n + k = Start(turns[i]) + (Computed(turns[i]) + k)
        BY <1>3
      <4> HIDE DEF n, g
      <4>4. arena'[starts[i] + (n + k)] = cells[i][k]
        BY <1>5, <2>3, <3>1, <4>1
      <4> QED BY <1>4, <4>2, <4>3, <4>4
    <3>4. \A p \in 1..n + g : p \in 1..n \/ (p - n \in 1..g /\ p = n + (p - n))
      <4> HIDE DEF n, g
      <4> QED BY <3>1
    <3> HIDE DEF n, g
    <3>5. \A p \in 1..n + g : arena'[starts[i] + p] = TextOf(i)'[p]
      <4> SUFFICES ASSUME NEW p \in 1..n + g PROVE arena'[starts[i] + p] = TextOf(i)'[p]
        OBVIOUS
      <4>1. CASE p \in 1..n
        BY <3>2, <4>1
      <4>2. CASE p - n \in 1..g /\ p = n + (p - n)
        BY <3>3, <4>2
      <4> QED BY <3>4, <4>1, <4>2
    <3>6. n + g <= capacities[i]
      BY <3>1
    <3> QED BY <3>1, <3>5, <3>6 DEF Holds
  <2> QED BY <2>2, <2>3
<1>7. RowsOK'
  BY <1>2, <1>6, NothingIsKept DEF RowsOK
<1> QED BY <1>1, <1>2, <1>7 DEF TextInv

(* The prompt of each turn is computed behind its memory.                  *)
LEMMA PrefillText ==
  ASSUME Inv, Inv', TextInv, Prefill
  PROVE  TextInv'
<1> DEFINE from == [i \in 1..Count |-> Start(turns[i])]
           cells == [i \in 1..Count |-> [k \in 1..turns[i].size |-> Cell(i, k)]]
<1>1. /\ UNCHANGED <<memories, storages, starts, capacities, resident, calls>>
      /\ pc = "loaded" /\ pc' = "decoding" /\ arena' = Written(1..Count, from, cells)
  BY DEF Prefill
<1>2. PICK answers \in [1..Count -> Answers] :
        turns' = [i \in 1..Count |-> [turns[i] EXCEPT !.prefilled = turns[i].size,
                                                     !.answer = answers[i]]]
  BY DEF Prefill
<1>3. Count \in Nat /\ Count' = Count
  <2>1. Count \in Nat
    BY SeqIsFcn DEF Inv, Shape, Count
  <2>2. turns' = [i \in 1..Count |-> turns'[i]]
    BY <1>2
  <2> QED BY <2>1, <2>2, FcnIsSeq DEF Count
<1>4. ASSUME NEW i \in 1..Count
      PROVE  /\ turns'[i].base = turns[i].base /\ turns'[i].storage = 0
             /\ turns'[i].prefilled = turns[i].size /\ turns'[i].ids = 0
             /\ turns[i].prefilled = 0 /\ turns[i].ids = 0
             /\ Start(turns[i]) = Position(turns[i]) /\ turns[i].size \in Nat
             /\ Position(turns[i]) + turns[i].size <= capacities[i]
  <2>1. turns'[i] = [turns[i] EXCEPT !.prefilled = turns[i].size, !.answer = answers[i]]
    BY <1>2
  <2>2. "prefilled" \in DOMAIN turns[i] /\ "answer" \in DOMAIN turns[i]
    BY DEF Inv, TurnsOK, Fields
  <2>3. turns[i].storage = 0
    BY <1>1 DEF Inv, RoomOK
  <2>4. /\ Start(turns[i]) + turns[i].size <= capacities[i] /\ turns[i].size \in Nat
        /\ turns[i].prefilled = 0 /\ turns[i].ids = 0 /\ Start(turns[i]) = Position(turns[i])
    BY <1>1, RoomOfRow
  <2> QED BY <2>1, <2>2, <2>3, <2>4
<1>5. ASSUME NEW i \in 1..Count
      PROVE  /\ SeqLike(cells[i]) /\ from[i] = Position(turns[i])
             /\ Len(cells[i]) = turns[i].size
             /\ \A k \in 1..turns[i].size : cells[i][k] = Cell(i, k)
  <2>1. /\ cells[i] = [k \in 1..turns[i].size |-> cells[i][k]]
        /\ \A k \in 1..turns[i].size : cells[i][k] = Cell(i, k)
    OBVIOUS
  <2>2. from[i] = Position(turns[i]) /\ turns[i].size \in Nat
    BY <1>4
  <2> HIDE DEF cells, from
  <2> QED BY <2>1, <2>2, FcnIsSeq
<1> HIDE DEF from, cells
<1>6. \A i \in 1..Count :
        /\ SeqLike(cells[i]) /\ from[i] = Position(turns[i])
        /\ Position(turns[i]) + Len(cells[i]) <= capacities[i]
        /\ Computed(turns[i]) <= Computed(turns'[i])
        /\ Computed(turns'[i]) - Computed(turns[i]) <= Len(cells[i])
        /\ \A k \in 1..Computed(turns'[i]) - Computed(turns[i]) :
             cells[i][k] = Cell(i, Computed(turns[i]) + k)
  <2> SUFFICES ASSUME NEW i \in 1..Count
               PROVE  /\ SeqLike(cells[i]) /\ from[i] = Position(turns[i])
                      /\ Position(turns[i]) + Len(cells[i]) <= capacities[i]
                      /\ Computed(turns[i]) <= Computed(turns'[i])
                      /\ Computed(turns'[i]) - Computed(turns[i]) <= Len(cells[i])
                      /\ \A k \in 1..Computed(turns'[i]) - Computed(turns[i]) :
                           cells[i][k] = Cell(i, Computed(turns[i]) + k)
    OBVIOUS
  <2>1. Computed(turns[i]) = 0 /\ Computed(turns'[i]) = turns[i].size
    BY <1>4 DEF Computed
  <2>2. \A k \in 1..turns[i].size : 0 + k = k
    OBVIOUS
  <2> QED BY <1>4, <1>5, <2>1, <2>2
<1>7. \A i \in 1..Count : Holds(i, Position(turns[i]), TextOf(i))
  BY <1>1 DEF TextInv, RowsOK
<1>8. 1..Count \in SUBSET (1..Count) /\ (1..Count) \ (1..Count) = {}
  OBVIOUS
<1> QED BY <1>1, <1>3, <1>4, <1>6, <1>7, <1>8, GrowText

(* The path that a block accepts is in front of the block, in its order:   *)
(* the nodes of a branch increase.                                         *)
LEMMA PathIsCompacted ==
  ASSUME NEW i, NEW width \in 1..tree_width, NEW b \in Branches[width],
         NEW a \in Nat, a = Accepted(turns[i], b), a <= Len(b), NEW k \in 1..a
  PROVE  Compacted(i, b, k - 1) = Cell(i, turns[i].prefilled + turns[i].ids + k)
<1>1. /\ b \in UNION {[1..n -> 0..width - 1] : n \in 1..width}
      /\ \A l \in 2..Len(b) : b[l - 1] < b[l]
  BY DEF Branches
<1>2. PICK n \in 1..width : b \in [1..n -> 0..width - 1]
  BY <1>1
<1>3. n \in Nat /\ Len(b) = n /\ DOMAIN b = 1..n
  <2>1. tree_width \in Nat /\ width \in Nat
    BY BatchAssumption
  <2>2. n \in Nat /\ b \in Seq(0..width - 1)
    BY <1>2, <2>1
  <2> QED BY <1>2, <2>2
<1>4. \A l, m \in 1..n : b[l] = b[m] => l = m
  <2>1. \A l \in 1..n : b[l] \in Int
    BY <1>2
  <2>2. \A l \in 1 + 1..n : b[l - 1] < b[l]
    BY <1>1, <1>3
  <2>3. 1 \in Nat /\ n \in Nat
    BY <1>3
  <2> QED BY <2>1, <2>2, <2>3, RisesStrictly, Zenon
<1>5. k \in 1..n /\ k \in DOMAIN b /\ (k - 1) + 1 = k /\ k - 1 < a
  BY <1>3
<1> DEFINE c == CHOOSE l \in DOMAIN b : b[l] = b[k]
<1>6. c \in DOMAIN b /\ b[c] = b[k]
  BY <1>5
<1> HIDE DEF c
<1>7. c = k
  BY <1>3, <1>4, <1>5, <1>6
<1>8. Node(i, b, b[k]) = Cell(i, turns[i].prefilled + turns[i].ids + k)
  BY <1>5, <1>7 DEF Node, c
<1> QED BY <1>5, <1>8 DEF Compacted

(* A block leaves the accepted path behind what the rows hold.             *)
LEMMA BlockText ==
  ASSUME Inv, Inv', TextInv, Block
  PROVE  TextInv'
<1>1. /\ UNCHANGED <<memories, storages, starts, capacities, resident, calls, pc>>
      /\ pc = "decoding" /\ Live # {}
  BY DEF Block
<1>0. PICK width \in 1..tree_width :
        /\ IsWidth(width)
        /\ \E branch \in [Live -> Branches[width]] :
             /\ arena' = Written(Live, [i \in Live |-> Position(turns[i])],
                                 [i \in Live |-> [k \in 1..width |->
                                                  Compacted(i, branch[i], k - 1)]])
             /\ turns' = [i \in 1..Count |-> IF i \in Live THEN Grown(turns[i], branch[i])
                                                          ELSE turns[i]]
  BY DEF Block
<1>2. PICK branch \in [Live -> Branches[width]] :
        /\ IsWidth(width)
        /\ arena' = Written(Live, [i \in Live |-> Position(turns[i])],
                            [i \in Live |-> [k \in 1..width |->
                                             Compacted(i, branch[i], k - 1)]])
        /\ turns' = [i \in 1..Count |-> IF i \in Live THEN Grown(turns[i], branch[i])
                                                     ELSE turns[i]]
  BY <1>0
<1> DEFINE from == [i \in Live |-> Position(turns[i])]
           cells == [i \in Live |-> [k \in 1..width |-> Compacted(i, branch[i], k - 1)]]
<1>3. Count \in Nat /\ Count' = Count /\ Live \in SUBSET (1..Count)
  <2>1. Count \in Nat
    BY SeqIsFcn DEF Inv, Shape, Count
  <2>2. turns' = [i \in 1..Count |-> turns'[i]]
    BY <1>2
  <2> QED BY <2>1, <2>2, FcnIsSeq DEF Count, Live
<1>4. width \in Nat /\ max_new_tokens \in Nat /\ \A i \in Live : width <= Room(i)
  BY <1>2, BatchAssumption DEF IsWidth
<1>5. ASSUME NEW i \in Live
      PROVE  /\ Len(branch[i]) \in Nat /\ Len(branch[i]) <= width
             /\ branch[i] \in Branches[width]
  <2>1. branch[i] \in UNION {[1..n -> 0..width - 1] : n \in 1..width} /\ branch[i] \in Branches[width]
    BY <1>2 DEF Branches
  <2>2. PICK n \in 1..width : branch[i] \in [1..n -> 0..width - 1]
    BY <2>1
  <2>3. branch[i] \in Seq(0..width - 1) /\ n \in Nat
    BY <1>4, <2>2
  <2> QED BY <1>4, <2>1, <2>2, <2>3
<1>6. ASSUME NEW i \in Live
      PROVE  LET a == Accepted(turns[i], branch[i])
             IN  /\ a \in Nat /\ a <= Len(branch[i])
                 /\ turns'[i].base = turns[i].base /\ turns'[i].storage = turns[i].storage
                 /\ turns'[i].prefilled = turns[i].prefilled /\ turns'[i].ids = turns[i].ids + a
                 /\ turns[i].prefilled \in Nat /\ turns[i].ids \in Nat
  <2> DEFINE t == turns[i]
             a == Accepted(t, branch[i])
  <2>1. /\ Fields \subseteq DOMAIN t /\ t.ids \in Nat /\ t.answer \in Nat /\ t.prefilled \in Nat
        /\ t.ids <= t.answer /\ t.ids <= max_new_tokens /\ i \in 1..Count
    BY <1>3 DEF Inv, TurnsOK
  <2>2. a \in Nat /\ a <= Len(branch[i])
    <3>1. Len(branch[i]) \in Nat
      BY <1>5
    <3> HIDE DEF t
    <3> QED BY <1>4, <2>1, <3>1 DEF Accepted, Smaller
  <2>3. turns'[i] = Grown(t, branch[i])
    BY <1>2, <2>1
  <2>4. "ids" \in DOMAIN t /\ "done" \in DOMAIN t
    BY <2>1 DEF Fields
  <2>5. turns'[i] = [t EXCEPT !.ids = t.ids + a,
                              !.done = (t.ids + a = t.answer \/ t.ids + a = max_new_tokens)]
    BY <2>3 DEF Grown
  <2> HIDE DEF a
  <2>6. /\ turns'[i].base = t.base /\ turns'[i].storage = t.storage
        /\ turns'[i].prefilled = t.prefilled /\ turns'[i].ids = t.ids + a
    BY <2>4, <2>5
  <2> QED BY <2>1, <2>2, <2>6 DEF a
<1>7. \A i \in 1..Count : turns'[i].base = turns[i].base /\ turns'[i].storage = 0
  <2>1. \A i \in 1..Count : turns[i].storage = 0
    BY <1>1 DEF Inv, StoragesOK
  <2>2. \A i \in (1..Count) \ Live : turns'[i] = turns[i]
    BY <1>2
  <2> QED BY <1>6, <2>1, <2>2
<1>8. \A i \in (1..Count) \ Live :
        turns'[i].prefilled = turns[i].prefilled /\ turns'[i].ids = turns[i].ids
  BY <1>2
<1>9. \A i \in Live :
        /\ SeqLike(cells[i]) /\ from[i] = Position(turns[i])
        /\ Position(turns[i]) + Len(cells[i]) <= capacities[i]
        /\ Computed(turns[i]) <= Computed(turns'[i])
        /\ Computed(turns'[i]) - Computed(turns[i]) <= Len(cells[i])
        /\ \A k \in 1..Computed(turns'[i]) - Computed(turns[i]) :
             cells[i][k] = Cell(i, Computed(turns[i]) + k)
  <2> SUFFICES ASSUME NEW i \in Live
               PROVE  /\ SeqLike(cells[i]) /\ from[i] = Position(turns[i])
                      /\ Position(turns[i]) + Len(cells[i]) <= capacities[i]
                      /\ Computed(turns[i]) <= Computed(turns'[i])
                      /\ Computed(turns'[i]) - Computed(turns[i]) <= Len(cells[i])
                      /\ \A k \in 1..Computed(turns'[i]) - Computed(turns[i]) :
                           cells[i][k] = Cell(i, Computed(turns[i]) + k)
    OBVIOUS
  <2> DEFINE a == Accepted(turns[i], branch[i])
  <2>1. SeqLike(cells[i]) /\ Len(cells[i]) = width
    <3>1. cells[i] = [k \in 1..width |-> cells[i][k]]
      OBVIOUS
    <3> HIDE DEF cells
    <3> QED BY <1>4, <3>1, FcnIsSeq
  <2>2. /\ a \in Nat /\ a <= width /\ Computed(turns'[i]) - Computed(turns[i]) = a
        /\ Computed(turns[i]) <= Computed(turns'[i])
    <3>1. /\ turns'[i].prefilled = turns[i].prefilled /\ turns'[i].ids = turns[i].ids + a
          /\ turns[i].prefilled \in Nat /\ turns[i].ids \in Nat /\ a \in Nat
          /\ a <= Len(branch[i]) /\ Len(branch[i]) \in Nat /\ Len(branch[i]) <= width
      BY <1>5, <1>6
    <3> HIDE DEF a
    <3> QED BY <1>4, <3>1 DEF Computed
  <2>3. \A k \in 1..a : cells[i][k] = Cell(i, Computed(turns[i]) + k)
    <3> SUFFICES ASSUME NEW k \in 1..a PROVE cells[i][k] = Cell(i, Computed(turns[i]) + k)
      OBVIOUS
    <3>1. k \in 1..width
      <4> HIDE DEF a
      <4> QED BY <1>4, <2>2
    <3>2. cells[i][k] = Compacted(i, branch[i], k - 1)
      BY <3>1
    <3>3. Compacted(i, branch[i], k - 1) = Cell(i, turns[i].prefilled + turns[i].ids + k)
      <4>1. a \in Nat /\ a = Accepted(turns[i], branch[i]) /\ a <= Len(branch[i])
        BY <1>6
      <4> HIDE DEF a
      <4> QED BY <1>5, <4>1, PathIsCompacted
    <3> QED BY <3>2, <3>3 DEF Computed
  <2>4. Position(turns[i]) + width <= capacities[i]
    <3>1. width <= capacities[i] - Position(turns[i])
      BY <1>4 DEF Room
    <3>2. Position(turns[i]) \in Nat /\ capacities[i] \in Nat
      <4>1. i \in 1..Count
        BY <1>3
      <4>2. /\ Start(turns[i]) \in Nat /\ turns[i].prefilled \in Nat /\ turns[i].ids \in Nat
            /\ Position(turns[i]) = Start(turns[i]) + (turns[i].prefilled + turns[i].ids)
        BY <4>1, TextShape DEF TextInv
      <4>3. capacities[i] \in Nat
        BY <1>1, <4>1, RoomOfRow
      <4> QED BY <4>2, <4>3
    <3> QED BY <1>4, <3>1, <3>2
  <2>5. from[i] = Position(turns[i])
    OBVIOUS
  <2> HIDE DEF a, from, cells
  <2> QED BY <2>1, <2>2, <2>3, <2>4, <2>5
<1>10. arena' = Written(Live, from, cells)
  BY <1>2
<1>11. \A i \in 1..Count : Holds(i, Position(turns[i]), TextOf(i))
  BY <1>1 DEF TextInv, RowsOK
<1> HIDE DEF from, cells
<1> QED BY <1>1, <1>3, <1>7, <1>8, <1>9, <1>10, <1>11, GrowText

(* A committed turn leaves its text in its storage: the prefix its memory  *)
(* lent is the beginning of the text, the rest comes from the row.         *)
LEMMA CommitText ==
  ASSUME Inv, Inv', TextInv, PrefixStep, NEW i \in Rows, i <= Count, Commit(i)
  PROVE  TextInv'
<1> DEFINE n == Position(turns[i])
           lent == memories[turns[i].base].storage
<1>1. /\ UNCHANGED <<memories, arena, starts, capacities, resident, previous, pc, calls>>
      /\ pc = "decoding"
  BY DEF Commit
<1>2. PICK taken : CommitsTo(i, taken, lent, n)
  BY CommitTakes
<1>3. /\ i \in 1..Count /\ Count \in Nat /\ Count' = Count /\ SeqLike(turns)
      /\ turns' = [turns EXCEPT ![i].storage = taken] /\ DOMAIN turns = 1..Count
  <2>1. i \in 1..Count /\ Count \in Nat /\ SeqLike(turns) /\ DOMAIN turns = 1..Count
    BY SeqIsFcn, BatchAssumption DEF Inv, Shape, Count, Rows
  <2>2. turns' = [turns EXCEPT ![i].storage = taken]
    BY <1>2 DEF CommitsTo
  <2>3. turns' = [j \in DOMAIN turns |-> turns'[j]]
    BY <2>2
  <2> QED BY <2>1, <2>2, <2>3, SameDomain DEF Count
<1>4. /\ \A j \in 1..Count : j # i => turns'[j] = turns[j]
      /\ turns'[i].storage = taken /\ turns'[i].base = turns[i].base
      /\ turns'[i].prefilled = turns[i].prefilled /\ turns'[i].ids = turns[i].ids
  <2>1. "storage" \in DOMAIN turns[i]
    BY <1>3 DEF Inv, TurnsOK, Fields
  <2> QED BY <1>3, <2>1
<1>5. \A j \in 1..Count : /\ TextOf(j)' = TextOf(j)
                          /\ Position(turns[j])' = Position(turns[j])
  <2> SUFFICES ASSUME NEW j \in 1..Count
               PROVE  TextOf(j)' = TextOf(j) /\ Position(turns[j])' = Position(turns[j])
    OBVIOUS
  <2>1. /\ turns'[j].base = turns[j].base /\ turns'[j].ids = turns[j].ids
        /\ turns'[j].prefilled = turns[j].prefilled
    BY <1>4
  <2> QED BY <1>1, <2>1, SameText
<1>6. LayoutOK'
  BY <1>1 DEF TextInv, LayoutOK
<1>7. TextOK'
  <2> SUFFICES ASSUME NEW m \in 1..Len(memories), NEW p \in 1..memories[m].seq_len
               PROVE  storages'[memories[m].storage][p] = memories[m].text[p]
    BY <1>1 DEF TextInv, TextOK
  <2>1. Held(memories[m])' = Held(memories[m])
    BY DEF PrefixStep
  <2>2. Held(memories[m])[p] = storages[memories[m].storage][p]
    BY DEF Held
  <2>3. Held(memories[m])'[p] = storages'[memories[m].storage][p]
    BY <1>1 DEF Held
  <2> QED BY <2>1, <2>2, <2>3 DEF TextInv, TextOK
<1>8. RowsOK'
  <2>1. Kept(resident)' /\ resident' = Nothing
    BY <1>1, NothingIsKept DEF TextInv, RowsOK
  <2>2. \A j \in 1..Count : Holds(j, Position(turns[j]), TextOf(j))'
    BY <1>1, <1>5 DEF TextInv, RowsOK, Holds
  <2> QED BY <1>1, <1>3, <2>1, <2>2 DEF RowsOK
<1>9. \A p \in 1..n : storages'[taken][p] = TextOf(i)[p]
  <2> SUFFICES ASSUME NEW p \in 1..n PROVE storages'[taken][p] = TextOf(i)[p]
    OBVIOUS
  <2>1. arena[starts[i] + p] = TextOf(i)[p]
    BY <1>1, <1>3 DEF TextInv, RowsOK, Holds
  <2>2. /\ Start(turns[i]) \in Nat /\ n \in Nat
        /\ \A q \in 1..Start(turns[i]) : TextOf(i)[q] = memories[turns[i].base].text[q]
        /\ turns[i].base # 0 => /\ turns[i].base \in 1..Len(memories)
                                /\ Start(turns[i]) = memories[turns[i].base].seq_len
    <3>1. /\ Start(turns[i]) \in Nat /\ turns[i].prefilled \in Nat /\ turns[i].ids \in Nat
          /\ n = Start(turns[i]) + (turns[i].prefilled + turns[i].ids)
          /\ \A q \in 1..Start(turns[i]) : TextOf(i)[q] = memories[turns[i].base].text[q]
          /\ turns[i].base # 0 => /\ turns[i].base \in 1..Len(memories)
                                  /\ Start(turns[i]) = memories[turns[i].base].seq_len
      BY <1>3, TextShape DEF TextInv
    <3> HIDE DEF n
    <3> QED BY <3>1
  <2>3. CASE taken = Len(storages) + 1 /\ storages'[taken][p] = arena[starts[i] + p]
    BY <2>1, <2>3
  <2>4. CASE /\ turns[i].base # 0 /\ taken = lent
             /\ \A q \in 1..Start(turns[i]) : storages'[taken][q] = storages[taken][q]
             /\ \A q \in Start(turns[i]) + 1..n : storages'[taken][q] = arena[starts[i] + q]
    <3>1. CASE p <= Start(turns[i])
      <4>1. p \in 1..Start(turns[i])
        BY <2>2, <3>1
      <4>2. storages[lent][p] = memories[turns[i].base].text[p]
        BY <2>2, <2>4, <4>1 DEF TextInv, TextOK
      <4> QED BY <2>2, <2>4, <4>1, <4>2
    <3>2. CASE p > Start(turns[i])
      <4>1. p \in Start(turns[i]) + 1..n
        <5> HIDE DEF n
        <5> QED BY <2>2, <3>2
      <4> QED BY <2>1, <2>4, <4>1
    <3>3. p <= Start(turns[i]) \/ p > Start(turns[i])
      <4> HIDE DEF n
      <4> QED BY <2>2
    <3> QED BY <3>1, <3>2, <3>3
  <2> HIDE DEF n, lent
  <2> QED BY <1>2, <2>3, <2>4 DEF CommitsTo
<1>10. CommittedOK'
  <2> SUFFICES ASSUME NEW j \in 1..Count, turns'[j].storage # 0, NEW p \in 1..Position(turns[j])
               PROVE  storages'[turns'[j].storage][p] = TextOf(j)[p]
    BY <1>3, <1>5 DEF CommittedOK
  <2>1. CASE j = i
    BY <1>4, <1>9, <2>1
  <2>2. CASE j # i
    <3>1. turns'[j] = turns[j]
      BY <1>4, <2>2
    <3>2. turns[j].storage \in 1..Len(storages)
      BY <3>1, SeqIsFcn DEF Inv, TurnsOK, Shape
    <3>3. turns'[j].storage # turns'[i].storage
      BY <1>3, <2>2 DEF Inv, StoragesOK
    <3>4. storages'[turns[j].storage] = storages[turns[j].storage]
      <4> HIDE DEF n, lent
      <4> QED BY <1>2, <1>4, <3>1, <3>2, <3>3 DEF CommitsTo
    <3>5. storages[turns[j].storage][p] = TextOf(j)[p]
      BY <3>1 DEF TextInv, CommittedOK
    <3> QED BY <3>1, <3>4, <3>5
  <2> QED BY <2>1, <2>2
<1> QED BY <1>6, <1>7, <1>8, <1>10 DEF TextInv

(* What a call returns is in its storage and in its row.                   *)
LEMMA ReturnText ==
  ASSUME Inv, TextInv, Return
  PROVE  TextInv'
<1> DEFINE L == Len(memories)
           new == [i \in 1..Count |-> MemoryOf(i)]
<1>1. /\ UNCHANGED <<storages, arena, starts, capacities>> /\ turns' = <<>> /\ pc' = "idle"
      /\ pc = "decoding" /\ \A i \in 1..Count : turns[i].storage # 0
      /\ resident' = [i \in Rows |-> IF i <= Count THEN L + i ELSE 0]
      /\ memories' = memories \o new
  BY DEF Return
<1>2. Count \in Nat /\ L \in Nat /\ SeqLike(memories) /\ Count' = 0
  BY <1>1, SeqIsFcn DEF Inv, Shape, Count
<1>3. SeqLike(new) /\ Len(new) = Count /\ \A i \in 1..Count : new[i] = MemoryOf(i)
  <2>1. new = [i \in 1..Count |-> new[i]] /\ \A i \in 1..Count : new[i] = MemoryOf(i)
    OBVIOUS
  <2> HIDE DEF new
  <2> QED BY <1>2, <2>1, FcnIsSeq
<1>4. /\ Len(memories') = L + Count
      /\ \A m \in 1..L : memories'[m] = memories[m]
      /\ \A i \in 1..Count : memories'[L + i] = MemoryOf(i)
  <2> HIDE DEF new
  <2>1. PICK T : memories \in Seq(T) /\ new \in Seq(T)
    BY <1>2, <1>3, CommonSet, Zenon
  <2>2. /\ Len(memories \o new) = Len(memories) + Len(new)
        /\ \A m \in 1..Len(memories) : (memories \o new)[m] = memories[m]
        /\ \A i \in 1..Len(new) : (memories \o new)[Len(memories) + i] = new[i]
    BY <2>1, Concatenation
  <2>3. Len(new) = Count /\ memories' = memories \o new
    BY <1>1, <1>3
  <2> QED BY <1>3, <2>2, <2>3
<1> HIDE DEF new
<1>5. ASSUME NEW i \in 1..Count
      PROVE  LET m == MemoryOf(i)
             IN  /\ SeqLike(m.text) /\ Len(m.text) = m.seq_len
                 /\ \A p \in 1..m.seq_len : storages[m.storage][p] = m.text[p]
                 /\ Holds(i, m.seq_len, m.text)
  <2>1. /\ MemoryOf(i).text = TextOf(i) /\ MemoryOf(i).seq_len = Position(turns[i])
        /\ MemoryOf(i).storage = turns[i].storage
    BY DEF MemoryOf
  <2>2. SeqLike(TextOf(i)) /\ Len(TextOf(i)) = Position(turns[i])
    BY TextShape DEF TextInv
  <2>3. \A p \in 1..Position(turns[i]) : storages[turns[i].storage][p] = TextOf(i)[p]
    BY <1>1 DEF TextInv, CommittedOK
  <2>4. Holds(i, Position(turns[i]), TextOf(i))
    BY <1>1 DEF TextInv, RowsOK
  <2> QED BY <2>1, <2>2, <2>3, <2>4
<1>6. LayoutOK'
  BY <1>1 DEF TextInv, LayoutOK
<1>7. TextOK'
  <2> SUFFICES ASSUME NEW m \in 1..L + Count
               PROVE  /\ SeqLike(memories'[m].text) /\ Len(memories'[m].text) = memories'[m].seq_len
                      /\ \A p \in 1..memories'[m].seq_len :
                           storages[memories'[m].storage][p] = memories'[m].text[p]
    BY <1>1, <1>4 DEF TextOK
  <2>1. CASE m \in 1..L
    BY <1>4, <2>1 DEF TextInv, TextOK
  <2>2. CASE m \notin 1..L
    <3>1. m - L \in 1..Count /\ m = L + (m - L)
      BY <1>2, <2>2
    <3>2. memories'[m] = MemoryOf(m - L)
      BY <1>4, <3>1
    <3> QED BY <1>5, <3>1, <3>2
  <2> QED BY <2>1, <2>2
<1>8. RowsOK'
  <2>1. ASSUME NEW i \in Rows, resident'[i] # 0
        PROVE  Holds(i, memories[resident[i]].seq_len, memories[resident[i]].text)'
    <3>1. resident'[i] = L + i /\ i \in 1..Count
      BY <1>1, <1>2, <2>1, BatchAssumption DEF Rows
    <3>2. memories'[resident'[i]] = MemoryOf(i)
      BY <1>4, <3>1
    <3>3. Holds(i, MemoryOf(i).seq_len, MemoryOf(i).text)
      BY <1>5, <3>1
    <3> QED BY <1>1, <3>2, <3>3 DEF Holds
  <2> QED BY <1>1, <2>1 DEF RowsOK, Kept
<1>9. CommittedOK'
  BY <1>2 DEF CommittedOK
<1> QED BY <1>6, <1>7, <1>8, <1>9 DEF TextInv

(* Every step keeps the texts.                                             *)
LEMMA TextStep == Inv /\ TextInv /\ [Next]_vars => TextInv'
<1> SUFFICES ASSUME Inv, TextInv, [Next]_vars PROVE TextInv'
  OBVIOUS
<1>1. Inv' /\ PrefixStep
  BY NextStep
<1>2. CASE Begin \/ Fail \/ Encode \/ UNCHANGED vars
  BY <1>1, <1>2, QuietStepsText
<1>3. CASE Plan
  BY <1>1, <1>3, PlanText
<1>4. CASE Load
  BY <1>1, <1>4, LoadText
<1>5. CASE Prefill
  BY <1>1, <1>5, PrefillText
<1>6. CASE Block
  BY <1>1, <1>6, BlockText
<1>7. ASSUME NEW i \in Rows, i <= Count, Commit(i) PROVE TextInv'
  BY <1>1, <1>7, CommitText
<1>8. CASE Return
  BY <1>8, ReturnText
<1> QED BY <1>2, <1>3, <1>4, <1>5, <1>6, <1>7, <1>8 DEF Next, Step

(***************************************************************************)
(* Theorems.                                                               *)
(***************************************************************************)

(* The inductive invariant of the runtime: among others, a resident memory *)
(* is the longest user of its storage, and no two rows lend the same one.  *)
THEOREM BatchInvariant == Spec => []Inv
<1>1. Inv /\ [Next]_vars => Inv'
  BY NextStep
<1> QED BY InitInv, <1>1, PTL DEF Spec

(* A window of any profile finds the features of every frame it selects,   *)
(* at whatever frame of it the request arrives (process against            *)
(* _selected_history_features).                                            *)
THEOREM SlowMemoryAlwaysComplete == Spec => []SlowMemoryIsComplete
<1>1. Inv => SlowMemoryIsComplete
  BY DEF Inv, TurnsOK, SlowMemoryIsComplete
<1> QED BY BatchInvariant, <1>1, PTL

(* The room planned for the rows lasts for every answer, and no draft       *)
(* takes an answer past its end (_plan_rows against _decode).              *)
THEOREM DecodeNeverFull == Spec => []DecodeStaysInBounds
<1>1. Inv => DecodeStaysInBounds
  <2> SUFFICES ASSUME Inv, pc = "decoding", NEW i \in 1..Count
               PROVE  /\ ~turns[i].done => Room(i) >= 1
                      /\ turns[i].ids <= turns[i].answer
                      /\ turns[i].ids <= max_new_tokens
    BY DEF DecodeStaysInBounds
  <2> USE DEF Inv
  <2> DEFINE t == turns[i]
  <2>1. /\ Count \in Nat /\ Len(memories) \in Nat /\ i \in Rows
        /\ max_new_tokens \in Nat
    BY SeqIsFcn, BatchAssumption DEF Shape, Count, Rows
  <2>2. Start(t) \in Nat
    <3>1. CASE t.base = 0
      BY <3>1 DEF Start
    <3>2. CASE t.base # 0
      <4>1. t.base \in 1..Len(memories)
        BY <3>2, <2>1 DEF TurnsOK
      <4> QED BY <4>1, <3>2 DEF Start, MemoriesOK
    <3> QED BY <3>1, <3>2
  <2>3. /\ t.size \in Nat /\ t.ids \in Nat /\ t.prefilled = t.size
        /\ t.ids <= t.answer /\ t.ids <= max_new_tokens
        /\ (~t.done => t.ids < max_new_tokens)
        /\ Start(t) + t.size + max_new_tokens <= capacities[i]
        /\ capacities[i] \in Int
    BY <2>1 DEF TurnsOK, RoomOK, Required
  <2>4. Room(i) = capacities[i] - (Start(t) + t.prefilled + t.ids)
    BY DEF Room, Position
  <2> HIDE DEF t
  <2>5. ~t.done => Room(i) >= 1
    BY <2>1, <2>2, <2>3, <2>4
  <2> QED BY <2>3, <2>5 DEF t
<1> QED BY BatchInvariant, <1>1, PTL

(* The rows of the pool never share a cell, and each holds what the texts  *)
(* of its turn and of its resident memory say.                             *)
THEOREM TextInvariant == Spec => [](Inv /\ TextInv)
<1>1. Spec => []TextInv
  BY InitText, TextStep, BatchInvariant, PTL DEF Spec
<1> QED BY <1>1, BatchInvariant, PTL

(* Every memory ever returned still holds, cell by cell, what its episode  *)
(* computed, whichever memory is replayed, reordered or forked and wherever *)
(* a later call fails (_commit against _load and _plan_rows).              *)
THEOREM MemoriesHoldTheirText == Spec => []MemoriesKeepTheirText
<1>1. TextInv => MemoriesKeepTheirText
  <2> SUFFICES ASSUME TextInv, NEW m \in 1..Len(memories)
               PROVE  Held(memories[m]) = memories[m].text
    BY DEF MemoriesKeepTheirText
  <2>1. /\ memories[m].text = [p \in 1..memories[m].seq_len |-> memories[m].text[p]]
        /\ \A p \in 1..memories[m].seq_len :
             storages[memories[m].storage][p] = memories[m].text[p]
    BY SeqIsFcn DEF TextInv, TextOK
  <2> QED BY <2>1 DEF Held
<1> QED BY <1>1, TextInvariant, PTL

(* What a row computes on is its own episode: from the load on the row     *)
(* holds the text of its turn, and a resident memory is still in its row   *)
(* when the next call skips the load, wherever its row was laid out.       *)
THEOREM RowsHoldTheirText == Spec => []RowsHoldTheirContext
<1>1. Inv /\ TextInv => RowsHoldTheirContext
  <2> SUFFICES ASSUME Inv, TextInv PROVE RowsHoldTheirContext
    OBVIOUS
  <2>1. ASSUME NEW i \in 1..Count, pc \in {"loaded", "decoding"}
        PROVE  RowPrefix(i, Position(turns[i])) = TextOf(i)
    <3>1. TextOf(i) = [p \in 1..Position(turns[i]) |-> TextOf(i)[p]]
      BY SeqIsFcn, TextShape DEF TextInv
    <3>2. \A p \in 1..Position(turns[i]) : arena[starts[i] + p] = TextOf(i)[p]
      BY <2>1 DEF TextInv, RowsOK, Holds
    <3> QED BY <3>1, <3>2 DEF RowPrefix
  <2>2. ASSUME NEW i \in Rows, resident[i] # 0
        PROVE  RowPrefix(i, memories[resident[i]].seq_len) = memories[resident[i]].text
    <3> DEFINE m == memories[resident[i]]
    <3>1. resident[i] \in 1..Len(memories)
      BY <2>2, SeqIsFcn DEF Inv, Shape, StoragesOK, Latest
    <3>2. m.text = [p \in 1..m.seq_len |-> m.text[p]]
      BY <3>1, SeqIsFcn DEF TextInv, TextOK
    <3>3. \A p \in 1..m.seq_len : arena[starts[i] + p] = m.text[p]
      BY <2>2 DEF TextInv, RowsOK, Kept, Holds
    <3> QED BY <3>2, <3>3 DEF RowPrefix
  <2> QED BY <2>1, <2>2 DEF RowsHoldTheirContext
<1> QED BY <1>1, TextInvariant, PTL
==============================================================================
