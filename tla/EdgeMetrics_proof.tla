------------------------- MODULE EdgeMetrics_proof -------------------------
(***************************************************************************)
(* Proofs about EdgeMetrics for any batch size, queue capacity, number of  *)
(* overlapping flushes, events and faults.                                 *)
(***************************************************************************)
EXTENDS EdgeMetrics, FiniteSetTheorems, TLAPS

\* No event occurs twice in a queue or in a batch.
Distinct(q) == \A i, j \in 1..Len(q) : q[i] = q[j] => i = j

\* The events of R are each in one place: Q, A, L or an unanswered batch.
Split(Q, A, L, R) ==
    /\ Q \cup A \cup L \subseteq R /\ \A s \in Slots : Held(s) \subseteq R
    /\ \A e \in R : e \in Q \cup A \cup L \/ \E s \in Slots : e \in Held(s)
    /\ Q \cap (A \cup L) = {} /\ A \cap L = {}
    /\ \A s \in Slots : Held(s) \cap (Q \cup A \cup L) = {}
    /\ \A s, t \in Slots : s # t => Held(s) \cap Held(t) = {}

\* The same of the batches after a step.
SplitNext(Q, A, L, R) ==
    /\ Q \cup A \cup L \subseteq R /\ \A s \in Slots : Held(s)' \subseteq R
    /\ \A e \in R : e \in Q \cup A \cup L \/ \E s \in Slots : e \in Held(s)'
    /\ Q \cap (A \cup L) = {} /\ A \cap L = {}
    /\ \A s \in Slots : Held(s)' \cap (Q \cup A \cup L) = {}
    /\ \A s, t \in Slots : s # t => Held(s)' \cap Held(t)' = {}

\* Accounted, with distinctness in place of the queue's cardinality and for
\* every batch, so that a batch may return to the queue.
Places ==
    /\ Split(Elements(queue), acked, lost, 1..recorded)
    /\ Distinct(queue)
    /\ \A s \in Slots : Distinct(flight[s].events)
    /\ Cardinality(lost) = dropped

IInv == TypeOK /\ QueueBounded /\ (up # "gone" => Places)

-----------------------------------------------------------------------------
(* Sequences without repetitions. *)

\* Take and Rest cut a sequence in two.
LEMMA Cut ==
    ASSUME NEW q \in Seq(Events), NEW n \in Nat
    PROVE  /\ Take(q, n) \in Seq(Events) /\ Rest(q, n) \in Seq(Events)
           /\ Len(Take(q, n)) = Least(n, Len(q))
           /\ Len(Rest(q, n)) = Len(q) - Least(n, Len(q))
           /\ \A i \in 1..Least(n, Len(q)) : Take(q, n)[i] = q[i]
           /\ \A i \in 1..(Len(q) - Least(n, Len(q))) : Rest(q, n)[i] = q[i + Least(n, Len(q))]
<1>1. Least(n, Len(q)) \in 0..Len(q)
  BY DEF Least
<1>2. \A i \in 1..Len(q) : q[i] \in Events
  OBVIOUS
<1> QED
  BY <1>1, <1>2 DEF Take, Rest

LEMMA CutElements ==
    ASSUME NEW q \in Seq(Events), NEW n \in Nat
    PROVE  Elements(q) = Elements(Take(q, n)) \cup Elements(Rest(q, n))
<1> DEFINE m == Least(n, Len(q))
<1>1. m \in 0..Len(q)
  BY DEF Least
<1>2. \A i \in 1..Len(q) : i \in 1..m \/ (i - m \in 1..(Len(q) - m) /\ i = (i - m) + m)
  BY <1>1
<1>3. \A i \in 1..(Len(q) - m) : i + m \in 1..Len(q)
  BY <1>1
<1>4. 1..m \subseteq 1..Len(q)
  BY <1>1
<1> HIDE DEF m
<1>5. /\ \A i \in 1..m : Take(q, n)[i] = q[i]
      /\ \A i \in 1..(Len(q) - m) : Rest(q, n)[i] = q[i + m]
      /\ Len(Take(q, n)) = m /\ Len(Rest(q, n)) = Len(q) - m
  BY Cut DEF m
<1>6. /\ Elements(Take(q, n)) = {Take(q, n)[i] : i \in 1..m}
      /\ Elements(Rest(q, n)) = {Rest(q, n)[i] : i \in 1..(Len(q) - m)}
  BY <1>5 DEF Elements
<1>7. ASSUME NEW i \in 1..Len(q) PROVE q[i] \in Elements(Take(q, n)) \cup Elements(Rest(q, n))
  <2>1. CASE i \in 1..m
    BY <1>5, <1>6, <2>1
  <2>2. CASE i - m \in 1..(Len(q) - m) /\ i = (i - m) + m
    <3>1. Rest(q, n)[i - m] = q[(i - m) + m]
      BY <1>5, <2>2
    <3>2. Rest(q, n)[i - m] \in Elements(Rest(q, n))
      BY <1>6, <2>2
    <3> QED
      BY <2>2, <3>1, <3>2
  <2> QED
    BY <1>2, <2>1, <2>2
<1>8. ASSUME NEW i \in 1..m PROVE Take(q, n)[i] \in Elements(q)
  BY <1>4, <1>5 DEF Elements
<1>9. ASSUME NEW i \in 1..(Len(q) - m) PROVE Rest(q, n)[i] \in Elements(q)
  <2>1. Rest(q, n)[i] = q[i + m] /\ i + m \in 1..Len(q)
    BY <1>3, <1>5
  <2> QED
    BY <2>1 DEF Elements
<1>10. Elements(q) \subseteq Elements(Take(q, n)) \cup Elements(Rest(q, n))
  BY <1>7, Zenon DEF Elements
<1>11. Elements(Take(q, n)) \subseteq Elements(q) /\ Elements(Rest(q, n)) \subseteq Elements(q)
  BY <1>6, <1>8, <1>9
<1> QED
  BY <1>10, <1>11

LEMMA CutDistinct ==
    ASSUME NEW q \in Seq(Events), NEW n \in Nat, Distinct(q)
    PROVE  /\ Distinct(Take(q, n)) /\ Distinct(Rest(q, n))
           /\ Elements(Take(q, n)) \cap Elements(Rest(q, n)) = {}
<1> DEFINE m == Least(n, Len(q))
<1>1. m \in 0..Len(q)
  BY DEF Least
<1>2. \A i \in 1..(Len(q) - m) : i + m \in 1..Len(q) /\ i + m \notin 1..m
  BY <1>1
<1>3. 1..m \subseteq 1..Len(q)
  BY <1>1
<1>4. \A i, j \in 1..(Len(q) - m) : i + m = j + m => i = j
  BY <1>1
<1> HIDE DEF m
<1>5. /\ \A i \in 1..m : Take(q, n)[i] = q[i]
      /\ \A i \in 1..(Len(q) - m) : Rest(q, n)[i] = q[i + m]
      /\ Len(Take(q, n)) = m /\ Len(Rest(q, n)) = Len(q) - m
  BY Cut DEF m
<1>6. Distinct(Take(q, n))
  BY <1>3, <1>5 DEF Distinct
<1>7. Distinct(Rest(q, n))
  BY <1>2, <1>4, <1>5 DEF Distinct
<1>8. Elements(Take(q, n)) \cap Elements(Rest(q, n)) = {}
  <2> SUFFICES ASSUME NEW i \in 1..m, NEW j \in 1..(Len(q) - m), q[i] = q[j + m]
               PROVE  FALSE
    BY <1>5 DEF Elements
  <2> QED
    BY <1>2, <1>3 DEF Distinct
<1> QED
  BY <1>6, <1>7, <1>8

LEMMA Joined ==
    ASSUME NEW p \in Seq(Events), NEW q \in Seq(Events)
    PROVE  /\ p \o q \in Seq(Events)
           /\ Len(p \o q) = Len(p) + Len(q)
           /\ Elements(p \o q) = Elements(p) \cup Elements(q)
           /\ Distinct(p) /\ Distinct(q) /\ Elements(p) \cap Elements(q) = {}
                => Distinct(p \o q)
<1> DEFINE m == Len(p)  k == Len(q)  r == p \o q
<1>1. /\ m \in Nat /\ k \in Nat /\ r \in Seq(Events) /\ Len(r) = m + k
      /\ \A i \in 1..m : r[i] = p[i]
      /\ \A i \in 1..k : r[i + m] = q[i]
  OBVIOUS
<1>2. /\ \A i \in 1..(m + k) : i \in 1..m \/ (i - m \in 1..k /\ i = (i - m) + m)
      /\ 1..m \subseteq 1..(m + k)
      /\ \A i \in 1..k : i + m \in 1..(m + k)
  BY <1>1
<1>3. Elements(r) = Elements(p) \cup Elements(q)
  <2>1. Elements(r) = {r[i] : i \in 1..(m + k)}
    BY <1>1 DEF Elements
  <2>2. Elements(p) = {r[i] : i \in 1..m} /\ Elements(q) = {r[i + m] : i \in 1..k}
    BY <1>1 DEF Elements
  <2> HIDE DEF m, k, r
  <2> QED
    BY <1>2, <2>1, <2>2
<1>4. ASSUME Distinct(p), Distinct(q), Elements(p) \cap Elements(q) = {}
      PROVE  Distinct(r)
  <2>1. \A i \in 1..m, j \in 1..k : p[i] # q[j]
    BY <1>4 DEF Elements
  <2>2. \A i, j \in 1..m : r[i] = r[j] => i = j
    BY <1>1, <1>4 DEF Distinct
  <2>3. \A i, j \in 1..k : r[i + m] = r[j + m] => i = j
    BY <1>1, <1>4 DEF Distinct
  <2>4. \A i \in 1..m, j \in 1..k : r[i] # r[j + m]
    BY <1>1, <2>1
  <2> SUFFICES ASSUME NEW i \in 1..(m + k), NEW j \in 1..(m + k), r[i] = r[j]
               PROVE  i = j
    BY <1>1 DEF Distinct
  <2>5. i \in 1..m \/ (i - m \in 1..k /\ i = (i - m) + m)
    BY <1>2
  <2>6. j \in 1..m \/ (j - m \in 1..k /\ j = (j - m) + m)
    BY <1>2
  <2> HIDE DEF m, k, r
  <2>7. m \in Nat /\ k \in Nat
    BY <1>1
  <2>8. CASE i \in 1..m /\ j \in 1..m
    BY <2>2, <2>8
  <2>9. CASE i \in 1..m /\ j - m \in 1..k /\ j = (j - m) + m
    BY <2>4, <2>9
  <2>10. CASE j \in 1..m /\ i - m \in 1..k /\ i = (i - m) + m
    BY <2>4, <2>10
  <2>11. CASE i - m \in 1..k /\ j - m \in 1..k /\ i = (i - m) + m /\ j = (j - m) + m
    BY <2>3, <2>11
  <2> QED
    BY <2>5, <2>6, <2>8, <2>9, <2>10, <2>11
<1> QED
  BY <1>1, <1>3, <1>4

\* A sequence without repetitions has as many elements as places.
LEMMA DistinctCardinality ==
    ASSUME NEW q \in Seq(Events), Distinct(q)
    PROVE  IsFiniteSet(Elements(q)) /\ Cardinality(Elements(q)) = Len(q)
<1>1. IsFiniteSet(1..Len(q)) /\ Cardinality(1..Len(q)) = Len(q)
  <2>1. Len(q) \in Nat /\ 1 \in Int /\ Len(q) \in Int
    OBVIOUS
  <2>2. Cardinality(1..Len(q)) = IF 1 > Len(q) THEN 0 ELSE Len(q) - 1 + 1
    BY <2>1, FS_Interval
  <2>3. IsFiniteSet(1..Len(q))
    BY <2>1, FS_Interval
  <2> QED
    BY <2>1, <2>2, <2>3
<1>2. ExistsBijection(1..Len(q), Elements(q))
  <2> DEFINE f == [i \in 1..Len(q) |-> q[i]]
  <2>1. f \in [1..Len(q) -> Elements(q)]
    BY DEF Elements
  <2>2. \A i, j \in 1..Len(q) : f[i] = f[j] => i = j
    BY DEF Distinct
  <2>3. \A x \in Elements(q) : \E i \in 1..Len(q) : f[i] = x
    BY DEF Elements
  <2> QED
    BY <2>1, <2>2, <2>3 DEF ExistsBijection, Bijection, Injection, IsInjective, Surjection
<1> QED
  BY <1>1, <1>2, FS_Bijection

LEMMA Appended ==
    ASSUME NEW q \in Seq(Events), NEW e \in Events
    PROVE  /\ Append(q, e) \in Seq(Events) /\ Len(Append(q, e)) = Len(q) + 1
           /\ Elements(Append(q, e)) = Elements(q) \cup {e}
           /\ Distinct(q) /\ e \notin Elements(q) => Distinct(Append(q, e))
<1>1. <<e>> \in Seq(Events) /\ Append(q, e) = q \o <<e>> /\ Len(<<e>>) = 1 /\ <<e>>[1] = e
  OBVIOUS
<1>2. Elements(<<e>>) = {e}
  BY <1>1 DEF Elements
<1>3. Distinct(<<e>>)
  BY <1>1 DEF Distinct
<1> DEFINE r == q \o <<e>>
<1>5. /\ r \in Seq(Events) /\ Len(r) = Len(q) + Len(<<e>>)
      /\ Elements(r) = Elements(q) \cup Elements(<<e>>)
      /\ Distinct(q) /\ Distinct(<<e>>) /\ Elements(q) \cap Elements(<<e>>) = {} => Distinct(r)
  BY <1>1, Joined
<1> HIDE DEF r
<1>6. Append(q, e) = r /\ Len(<<e>>) = 1
  BY <1>1 DEF r
<1> QED
  BY <1>2, <1>3, <1>5, <1>6

LEMMA Tailed ==
    ASSUME NEW q \in Seq(Events), q # <<>>
    PROVE  /\ Tail(q) \in Seq(Events) /\ Len(Tail(q)) = Len(q) - 1
           /\ Head(q) \in Events
           /\ Elements(q) = Elements(Tail(q)) \cup {Head(q)}
           /\ Distinct(q) => Distinct(Tail(q)) /\ Head(q) \notin Elements(Tail(q))
<1>1. Len(q) \in Nat \ {0} /\ Least(1, Len(q)) = 1
  BY DEF Least
<1>2. Tail(q) = Rest(q, 1)
  BY <1>1 DEF Rest
<1>3. /\ Take(q, 1) \in Seq(Events) /\ Rest(q, 1) \in Seq(Events)
      /\ Len(Take(q, 1)) = 1 /\ Len(Rest(q, 1)) = Len(q) - 1
      /\ Take(q, 1)[1] = q[1]
  <2>1. 1 \in Nat /\ 1 \in 1..Least(1, Len(q))
    BY <1>1
  <2>2. /\ Take(q, 1) \in Seq(Events) /\ Rest(q, 1) \in Seq(Events)
        /\ Len(Take(q, 1)) = Least(1, Len(q)) /\ Len(Rest(q, 1)) = Len(q) - Least(1, Len(q))
        /\ \A i \in 1..Least(1, Len(q)) : Take(q, 1)[i] = q[i]
    BY <2>1, Cut
  <2> QED
    BY <1>1, <2>1, <2>2
<1>4. Head(q) = q[1] /\ Head(q) \in Events
  BY <1>1
<1>5. Elements(Take(q, 1)) = {Head(q)}
  BY <1>3, <1>4 DEF Elements
<1>6. Elements(q) = Elements(Take(q, 1)) \cup Elements(Rest(q, 1))
  BY CutElements
<1>7. Distinct(q) => Distinct(Rest(q, 1)) /\ Elements(Take(q, 1)) \cap Elements(Rest(q, 1)) = {}
  BY CutDistinct
<1> QED
  BY <1>2, <1>3, <1>4, <1>5, <1>6, <1>7

\* Part of 1..n is finite and not larger.
LEMMA PartOfInterval ==
    ASSUME NEW n \in Nat, NEW L, L \subseteq 1..n
    PROVE  IsFiniteSet(L) /\ Cardinality(L) \in 0..n
<1>1. IsFiniteSet(1..n) /\ Cardinality(1..n) = n
  <2>1. 1 \in Int /\ n \in Int
    OBVIOUS
  <2>2. Cardinality(1..n) = IF 1 > n THEN 0 ELSE n - 1 + 1
    BY <2>1, FS_Interval
  <2> QED
    BY <2>1, <2>2, FS_Interval
<1>2. IsFiniteSet(L) /\ Cardinality(L) <= n
  BY <1>1, FS_Subset
<1> QED
  BY <1>2, FS_CardinalityType

-----------------------------------------------------------------------------
(* The invariant. *)

LEMMA InitIInv == Init => IInv
<1> SUFFICES ASSUME Init PROVE IInv
  OBVIOUS
<1> USE DEF Init
<1>1. None \in Counts /\ Idle \in Flight
  BY DEF None, Counts, Idle, Flight
<1>2. TypeOK
  <2>1. recorded \in 0..MaxEvents /\ dropped \in 0..recorded
    BY EventsAssumption
  <2> QED
    BY <1>1, <2>1 DEF TypeOK
<1>3. QueueBounded
  BY SizesAssumption DEF QueueBounded
<1>4. Elements(queue) = {} /\ Distinct(queue) /\ \A s \in Slots : Held(s) = {}
  BY DEF Elements, Distinct, Held, Idle
<1>5. \A s \in Slots : Distinct(flight[s].events)
  BY DEF Distinct, Idle
<1>6. Cardinality(lost) = dropped
  BY FS_EmptySet
<1>7. Split(Elements(queue), acked, lost, 1..recorded)
  BY <1>4 DEF Split
<1> QED
  BY <1>2, <1>3, <1>4, <1>5, <1>6, <1>7 DEF IInv, Places

LEMMA SplitPrimed ==
    SplitNext(Elements(queue'), acked', lost', 1..recorded')
      => Split(Elements(queue), acked, lost, 1..recorded)'
<1>1. Elements(queue)' = Elements(queue')
  BY DEF Elements
<1> QED
  BY <1>1 DEF Split, SplitNext

LEMMA SplitSame ==
    ASSUME Split(Elements(queue), acked, lost, 1..recorded),
           UNCHANGED <<acked, lost, recorded, queue>>,
           \A s \in Slots : Held(s)' = Held(s)
    PROVE  Split(Elements(queue), acked, lost, 1..recorded)'
<1>1. Elements(queue)' = Elements(queue)
  BY DEF Elements
<1> QED
  BY <1>1 DEF Split

\* A flush moves a batch of q into a free slot and leaves the rest of q.
LEMMA SendStep ==
    ASSUME flight \in [Slots -> Flight], NEW s \in Slots, NEW q \in Seq(Events), Send(s, q)
    PROVE  /\ flight' \in [Slots -> Flight]
           /\ queue' \in Seq(Events) /\ Len(queue') <= Len(q)
           /\ Distinct(q) /\ (\A t \in Slots : Distinct(flight[t].events))
                => Distinct(queue') /\ \A t \in Slots : Distinct(flight'[t].events)
           /\ \A A, L, R : Distinct(q) /\ Split(Elements(q), A, L, R)
                             => SplitNext(Elements(queue'), A, L, R)
<1> DEFINE batch == Take(q, MaxBatch)
<1>1. MaxBatch \in Nat /\ MaxBatch > 0
  BY SizesAssumption
<1>2. batch \in Seq(Events) /\ queue' = Rest(q, MaxBatch) /\ queue' \in Seq(Events)
  BY <1>1, Cut DEF Send
<1>3. Len(queue') <= Len(q)
  <2>1. Len(Rest(q, MaxBatch)) = Len(q) - Least(MaxBatch, Len(q))
    BY <1>1, Cut
  <2> QED
    BY <1>1, <1>2, <2>1 DEF Least
<1>4. /\ flight[s] = Idle
      /\ flight' = [flight EXCEPT ![s] = [client |-> "waiting", server |-> "sent",
                                          events |-> batch, seen |-> None]]
  BY DEF Send, Free
<1>5. None \in Counts
  BY DEF None, Counts
<1> HIDE DEF batch
<1>6. flight' \in [Slots -> Flight]
  BY <1>2, <1>4, <1>5 DEF Flight
<1>7. /\ Held(s) = {} /\ Held(s)' = Elements(batch)
      /\ \A t \in Slots : t # s => Held(t)' = Held(t)
  BY <1>4 DEF Held, Idle
<1>8. ASSUME Distinct(q) PROVE Distinct(batch) /\ Distinct(queue') /\ Elements(batch) \cap Elements(queue') = {}
  BY <1>1, <1>2, <1>8, CutDistinct DEF batch
<1>9. Elements(q) = Elements(batch) \cup Elements(queue')
  BY <1>1, <1>2, CutElements DEF batch
<1>10. ASSUME Distinct(q), \A t \in Slots : Distinct(flight[t].events)
       PROVE  \A t \in Slots : Distinct(flight'[t].events)
  BY <1>4, <1>8, <1>10
<1>11. ASSUME NEW A, NEW L, NEW R, Distinct(q), Split(Elements(q), A, L, R)
       PROVE  SplitNext(Elements(queue'), A, L, R)
  <2>2. Elements(queue') \cup A \cup L \subseteq R /\ \A t \in Slots : Held(t)' \subseteq R
    BY <1>7, <1>9, <1>11 DEF Split
  <2>3. ASSUME NEW e \in R
        PROVE  e \in Elements(queue') \cup A \cup L \/ \E t \in Slots : e \in Held(t)'
    <3>1. e \in Elements(q) \cup A \cup L \/ \E t \in Slots : e \in Held(t)
      BY <1>11 DEF Split
    <3> QED
      BY <1>7, <1>9, <3>1
  <2>4. Elements(queue') \cap (A \cup L) = {} /\ A \cap L = {}
    BY <1>9, <1>11 DEF Split
  <2>5. ASSUME NEW t \in Slots PROVE Held(t)' \cap (Elements(queue') \cup A \cup L) = {}
    <3>1. CASE t = s
      BY <1>7, <1>8, <1>9, <1>11, <3>1 DEF Split
    <3>2. CASE t # s
      BY <1>7, <1>9, <1>11, <3>2 DEF Split
    <3> QED
      BY <3>1, <3>2
  <2>6. ASSUME NEW t \in Slots, NEW u \in Slots, t # u PROVE Held(t)' \cap Held(u)' = {}
    BY <1>7, <1>9, <1>11, <2>6 DEF Split
  <2> QED
    BY <2>2, <2>3, <2>4, <2>5, <2>6 DEF SplitNext
<1> QED
  BY <1>2, <1>3, <1>6, <1>8, <1>10, <1>11

\* A failed batch returns to the queue as far as it fits; the rest is dropped.
LEMMA RestoreStep ==
    ASSUME TypeOK, QueueBounded, NEW s \in Slots, Restore(s)
    PROVE  /\ queue' \in Seq(Events) /\ Len(queue') <= MaxQueue
           /\ lost' \subseteq Events
           /\ (/\ Places /\ flight[s].client = "waiting"
               /\ UNCHANGED <<recorded, acked>> /\ Held(s)' = {}
               /\ \A t \in Slots : t # s => Held(t)' = Held(t))
              => /\ Split(Elements(queue), acked, lost, 1..recorded)'
                 /\ Distinct(queue')
                 /\ Cardinality(lost') = dropped'
<1> DEFINE batch == flight[s].events
           space == MaxQueue - Len(queue)
           back  == Take(batch, space)
           over  == Rest(batch, space)
<1>1. batch \in Seq(Events) /\ queue \in Seq(Events) /\ space \in Nat
  BY SizesAssumption DEF TypeOK, Flight, QueueBounded
<1>2. /\ back \in Seq(Events) /\ over \in Seq(Events)
      /\ Len(back) = Least(space, Len(batch))
      /\ Len(over) = Len(batch) - Least(space, Len(batch))
  BY <1>1, Cut
<1>3. queue' = back \o queue /\ lost' = lost \cup Elements(over)
  BY DEF Restore
<1>4. dropped' = dropped + Len(over)
  <2>1. Len(batch) \in Nat /\ Len(queue) \in Nat
    BY <1>1
  <2>2. dropped' = dropped + (IF Len(batch) > space THEN Len(batch) - space ELSE 0)
    BY DEF Restore
  <2>3. ASSUME NEW n \in Nat, NEW m \in Nat PROVE (IF n > m THEN n - m ELSE 0) = n - Least(m, n)
    BY DEF Least
  <2> HIDE DEF batch, space
  <2>4. (IF Len(batch) > space THEN Len(batch) - space ELSE 0) = Len(batch) - Least(space, Len(batch))
    BY <1>1, <2>1, <2>3
  <2> QED
    BY <1>2, <2>2, <2>4
<1>5. Elements(batch) = Elements(back) \cup Elements(over)
  BY <1>1, CutElements
<1>6. Elements(over) \subseteq Events
  BY <1>2 DEF Elements
<1>7. /\ back \o queue \in Seq(Events) /\ Len(back \o queue) = Len(back) + Len(queue)
      /\ Elements(back \o queue) = Elements(back) \cup Elements(queue)
      /\ Distinct(back) /\ Distinct(queue) /\ Elements(back) \cap Elements(queue) = {}
           => Distinct(back \o queue)
  BY <1>1, <1>2, Joined
<1>8. Len(queue') <= MaxQueue
  <2>1. Len(back) <= space /\ Len(back) \in Nat /\ Len(queue) \in Nat
    BY <1>1, <1>2 DEF Least
  <2> QED
    BY <1>3, <1>7, <2>1, SizesAssumption
<1>9. lost' \subseteq Events
  BY <1>3, <1>6 DEF TypeOK
<1>10. ASSUME Places, flight[s].client = "waiting",
              UNCHANGED <<recorded, acked>>, Held(s)' = {},
              \A t \in Slots : t # s => Held(t)' = Held(t)
       PROVE  /\ Split(Elements(queue), acked, lost, 1..recorded)'
              /\ Distinct(queue')
              /\ Cardinality(lost') = dropped'
  <2> USE <1>10
  <2>1. Held(s) = Elements(batch)
    BY DEF Held
  <2>2. Distinct(back) /\ Distinct(over) /\ Elements(back) \cap Elements(over) = {}
    BY <1>1, CutDistinct DEF Places
  <2>3. Elements(queue)' = Elements(back) \cup Elements(queue)
    BY <1>3, <1>7 DEF Elements
  <2>4. Split(Elements(queue), acked, lost, 1..recorded)
    BY DEF Places
  <2> HIDE DEF batch, space, back, over
  <2>5. Distinct(queue')
    <3>1. Elements(back) \cap Elements(queue) = {}
      BY <1>5, <2>1, <2>4 DEF Split
    <3> QED
      BY <1>3, <1>7, <2>2, <3>1 DEF Places
  <2>6. Cardinality(lost') = dropped'
    <3>1. lost \cap Elements(over) = {} /\ lost \subseteq 1..recorded
      BY <1>5, <2>1, <2>4 DEF Split
    <3>2. IsFiniteSet(lost) /\ IsFiniteSet(Elements(over)) /\ Cardinality(Elements(over)) = Len(over)
      <4>1. recorded \in Nat
        BY EventsAssumption DEF TypeOK
      <4> QED
        BY <1>2, <2>2, <3>1, <4>1, PartOfInterval, DistinctCardinality
    <3>3. Cardinality(lost \cup Elements(over)) =
            Cardinality(lost) + Cardinality(Elements(over)) - Cardinality(lost \cap Elements(over))
      BY <3>2, FS_Union
    <3>4. Cardinality(lost \cap Elements(over)) = 0
      BY <3>1, FS_EmptySet
    <3>5. Len(over) \in Nat /\ dropped \in Nat /\ Cardinality(lost) = dropped
      BY <1>2 DEF TypeOK, Places
    <3> QED
      BY <1>3, <1>4, <3>2, <3>3, <3>4, <3>5
  <2>7. Split(Elements(queue), acked, lost, 1..recorded)'
    <3>1. /\ Elements(queue)' \cup acked' \cup lost' \subseteq 1..recorded'
          /\ \A t \in Slots : Held(t)' \subseteq 1..recorded'
      BY <1>3, <1>5, <2>1, <2>3, <2>4 DEF Split
    <3>2. ASSUME NEW e \in 1..recorded'
          PROVE  e \in Elements(queue)' \cup acked' \cup lost' \/ \E t \in Slots : e \in Held(t)'
      <4>1. e \in Elements(queue) \cup acked \cup lost \/ \E t \in Slots : e \in Held(t)
        BY <2>4 DEF Split
      <4>2. ASSUME NEW t \in Slots, e \in Held(t)
            PROVE  e \in Elements(batch) \/ e \in Held(t)'
        BY <2>1, <4>2
      <4> QED
        BY <1>3, <1>5, <2>3, <4>1, <4>2
    <3>3. Elements(queue)' \cap (acked' \cup lost') = {} /\ acked' \cap lost' = {}
      BY <1>3, <1>5, <2>1, <2>2, <2>3, <2>4 DEF Split
    <3>4. ASSUME NEW t \in Slots
          PROVE  Held(t)' \cap (Elements(queue)' \cup acked' \cup lost') = {}
      BY <1>3, <1>5, <2>1, <2>3, <2>4 DEF Split
    <3>5. ASSUME NEW t \in Slots, NEW u \in Slots, t # u PROVE Held(t)' \cap Held(u)' = {}
      BY <2>4, <3>5 DEF Split
    <3> QED
      BY <3>1, <3>2, <3>3, <3>4, <3>5 DEF Split
  <2> QED
    BY <2>5, <2>6, <2>7
<1> QED
  BY <1>3, <1>7, <1>8, <1>9, <1>10

\* The proxy's own steps.
LEMMA RecordStep == IInv /\ Record => IInv'
<1> SUFFICES ASSUME IInv, Record PROVE IInv'
  OBVIOUS
<1> DEFINE full == Len(queue) >= MaxQueue
           base == IF full THEN Tail(queue) ELSE queue
           e    == recorded + 1
           next == Append(base, e)
<1>1. TypeOK /\ QueueBounded /\ Places /\ up # "gone" /\ recorded < MaxEvents
  BY DEF IInv, Record
<1>2. /\ queue \in Seq(Events) /\ Len(queue) \in Nat /\ Len(queue) <= MaxQueue
      /\ recorded \in Nat /\ e \in Events /\ dropped \in Nat
      /\ recorded' = e
  BY <1>1, EventsAssumption DEF TypeOK, QueueBounded, Events, Record
<1>3. Split(Elements(queue), acked, lost, 1..recorded) /\ Distinct(queue) /\ Cardinality(lost) = dropped
  BY <1>1 DEF Places
<1>4. /\ base \in Seq(Events) /\ Distinct(base) /\ Len(base) < MaxQueue
      /\ lost' \subseteq Events
      /\ Split(Elements(base), acked, lost', 1..recorded)
      /\ Cardinality(lost') = dropped'
  <2>1. CASE full
    <3>1. queue # <<>>
      BY <1>2, <2>1, SizesAssumption
    <3>2. /\ Tail(queue) \in Seq(Events) /\ Len(Tail(queue)) = Len(queue) - 1
          /\ Head(queue) \in Events
          /\ Elements(queue) = Elements(Tail(queue)) \cup {Head(queue)}
          /\ Distinct(Tail(queue)) /\ Head(queue) \notin Elements(Tail(queue))
      BY <1>2, <1>3, <3>1, Tailed
    <3>3. lost' = lost \cup {Head(queue)} /\ dropped' = dropped + 1 /\ base = Tail(queue)
      BY <2>1 DEF Record
    <3>4. Split(Elements(Tail(queue)), acked, lost', 1..recorded)
      BY <1>3, <3>2, <3>3 DEF Split
    <3>5. Cardinality(lost') = dropped'
      <4>1. Head(queue) \notin lost /\ lost \subseteq 1..recorded
        BY <1>3, <3>2 DEF Split
      <4>2. IsFiniteSet(lost)
        BY <1>2, <4>1, PartOfInterval
      <4> QED
        BY <1>3, <3>3, <4>1, <4>2, FS_AddElement
    <3>6. lost' \subseteq Events
      BY <1>1, <3>2, <3>3 DEF TypeOK
    <3>7. Len(Tail(queue)) < MaxQueue
      BY <1>2, <3>2, SizesAssumption
    <3> HIDE DEF full, base
    <3> QED
      BY <3>2, <3>3, <3>4, <3>5, <3>6, <3>7
  <2>2. CASE ~full
    BY <1>1, <1>2, <1>3, <2>2, SizesAssumption DEF Record, TypeOK
  <2> QED
    BY <2>1, <2>2
<1>5. /\ next \in Seq(Events) /\ Len(next) = Len(base) + 1
      /\ Elements(next) = Elements(base) \cup {e}
      /\ e \notin Elements(base) => Distinct(next)
  BY <1>2, <1>4, Appended
<1>6. IF Len(next) >= MaxBatch THEN \E s \in Slots : Send(s, next)
                               ELSE queue' = next /\ UNCHANGED flight
  BY DEF Record
<1>7. UNCHANGED <<acked, row, up, final, faults>>
  BY DEF Record, stop
<1> HIDE DEF full, base, e, next
<1>8. e = recorded + 1
  BY DEF e
<1>9. Split(Elements(next), acked, lost', 1..recorded') /\ Distinct(next)
  <2>1. 1..e = 1..recorded \cup {e} /\ e \notin 1..recorded
    BY <1>2, <1>8
  <2>2. e \notin Elements(base) \cup acked \cup lost' /\ \A s \in Slots : e \notin Held(s)
    BY <1>4, <2>1 DEF Split
  <2> QED
    BY <1>2, <1>4, <1>5, <2>1, <2>2 DEF Split
<1>10. flight \in [Slots -> Flight] /\ \A s \in Slots : Distinct(flight[s].events)
  BY <1>1 DEF TypeOK, Places
<1>11. /\ flight' \in [Slots -> Flight] /\ queue' \in Seq(Events)
       /\ Len(queue') <= Len(next)
       /\ Distinct(queue') /\ \A s \in Slots : Distinct(flight'[s].events)
       /\ Split(Elements(queue), acked, lost, 1..recorded)'
  <2>1. CASE Len(next) >= MaxBatch
    <3>1. PICK s \in Slots : Send(s, next)
      BY <1>6, <2>1
    <3>2. /\ flight' \in [Slots -> Flight]
          /\ queue' \in Seq(Events) /\ Len(queue') <= Len(next)
          /\ Distinct(queue') /\ \A t \in Slots : Distinct(flight'[t].events)
      BY <1>5, <1>9, <1>10, <3>1, SendStep
    <3>3. \A A, L, R : Distinct(next) /\ Split(Elements(next), A, L, R) => SplitNext(Elements(queue'), A, L, R)
      BY <1>5, <1>10, <3>1, SendStep
    <3>4. SplitNext(Elements(queue'), acked, lost', 1..recorded')
      BY <1>9, <3>3
    <3> QED
      BY <1>7, <3>2, <3>4, SplitPrimed
  <2>2. CASE ~(Len(next) >= MaxBatch)
    <3>1. queue' = next /\ flight' = flight
      BY <1>6, <2>2
    <3>2. \A s \in Slots : Held(s)' = Held(s)
      BY <3>1 DEF Held
    <3>3. SplitNext(Elements(queue'), acked, lost', 1..recorded')
      BY <1>9, <3>1, <3>2 DEF Split, SplitNext
    <3> QED
      BY <1>5, <1>7, <1>9, <1>10, <3>1, <3>3, SplitPrimed
  <2> QED
    BY <2>1, <2>2
<1>12. QueueBounded'
  BY <1>4, <1>5, <1>11, SizesAssumption DEF QueueBounded
<1>13. dropped' \in 0..recorded'
  <2>1. lost' \subseteq 1..recorded'
    BY <1>9 DEF Split
  <2>2. recorded' \in Nat
    BY <1>2, <1>8
  <2> QED
    BY <1>4, <2>1, <2>2, PartOfInterval
<1>14. TypeOK'
  BY <1>1, <1>2, <1>4, <1>7, <1>8, <1>11, <1>13, EventsAssumption DEF TypeOK
<1>15. Places'
  BY <1>4, <1>11 DEF Places
<1> QED
  BY <1>12, <1>14, <1>15 DEF IInv

LEMMA FlushStep == IInv /\ (TimerFlush \/ StopAndDrain) => IInv'
<1> SUFFICES ASSUME IInv, TimerFlush \/ StopAndDrain PROVE IInv'
  OBVIOUS
<1>1. TypeOK /\ QueueBounded /\ Places
  BY DEF IInv, TimerFlush, StopAndDrain
<1>2. UNCHANGED <<recorded, dropped, lost, acked, row, faults>>
  BY DEF TimerFlush, StopAndDrain, stop
<1>3. up' \in {"running", "draining"} /\ final' \subseteq Slots
  BY <1>1 DEF TimerFlush, StopAndDrain, stop, TypeOK
<1>4. (\E s \in Slots : Send(s, queue)) \/ UNCHANGED <<queue, flight>>
  BY DEF TimerFlush, StopAndDrain
<1>5. /\ flight' \in [Slots -> Flight] /\ queue' \in Seq(Events)
      /\ Len(queue') <= MaxQueue
      /\ Distinct(queue') /\ \A s \in Slots : Distinct(flight'[s].events)
      /\ Split(Elements(queue), acked, lost, 1..recorded)'
  <2>1. ASSUME NEW s \in Slots, Send(s, queue)
        PROVE  /\ flight' \in [Slots -> Flight] /\ queue' \in Seq(Events)
               /\ Len(queue') <= MaxQueue
               /\ Distinct(queue') /\ \A t \in Slots : Distinct(flight'[t].events)
               /\ Split(Elements(queue), acked, lost, 1..recorded)'
    <3>1. flight \in [Slots -> Flight] /\ queue \in Seq(Events)
      BY <1>1 DEF TypeOK
    <3>2. /\ flight' \in [Slots -> Flight]
          /\ queue' \in Seq(Events) /\ Len(queue') <= Len(queue)
          /\ Distinct(queue') /\ \A t \in Slots : Distinct(flight'[t].events)
      BY <1>1, <2>1, <3>1, SendStep DEF Places
    <3>3. \A A, L, R : Distinct(queue) /\ Split(Elements(queue), A, L, R) => SplitNext(Elements(queue'), A, L, R)
      BY <2>1, <3>1, SendStep
    <3>4. Len(queue') <= MaxQueue
      BY <1>1, <3>1, <3>2, SizesAssumption DEF QueueBounded
    <3>5. SplitNext(Elements(queue'), acked, lost, 1..recorded)
      BY <1>1, <3>3 DEF Places
    <3> QED
      BY <1>2, <3>2, <3>4, <3>5, SplitPrimed
  <2>2. CASE UNCHANGED <<queue, flight>>
    <3>1. \A s \in Slots : Held(s)' = Held(s)
      BY <2>2 DEF Held
    <3>2. Split(Elements(queue), acked, lost, 1..recorded)'
      BY <1>1, <1>2, <2>2, <3>1, SplitSame DEF Places
    <3> QED
      BY <1>1, <2>2, <3>2 DEF Places, TypeOK, QueueBounded
  <2> QED
    BY <1>4, <2>1, <2>2
<1>6. TypeOK' /\ QueueBounded'
  BY <1>1, <1>2, <1>3, <1>5 DEF TypeOK, QueueBounded
<1>7. Places'
  BY <1>1, <1>2, <1>5 DEF Places
<1> QED
  BY <1>6, <1>7 DEF IInv

LEMMA ExitStep == IInv /\ (Exit \/ ForcedExit) => IInv'
BY DEF IInv, TypeOK, QueueBounded, Exit, ForcedExit, proxy

\* A flush whose batch comes back: the proxy's side of a failure.
LEMMA ReturnStep ==
    ASSUME IInv, NEW s \in Slots, Waiting(s), Restore(s),
           UNCHANGED <<recorded, acked, row, up, final>>, faults' \in Nat,
           flight' \in [Slots -> Flight],
           flight'[s].client = "idle", Distinct(flight'[s].events),
           \A t \in Slots : t # s => flight'[t] = flight[t]
    PROVE  IInv'
<1>1. TypeOK /\ QueueBounded /\ Places /\ flight[s].client = "waiting"
  BY DEF IInv, Waiting
<1>2. Held(s)' = {} /\ \A t \in Slots : t # s => Held(t)' = Held(t)
  BY DEF Held
<1>3. queue' \in Seq(Events) /\ Len(queue') <= MaxQueue /\ lost' \subseteq Events
  BY <1>1, RestoreStep
<1>4. /\ Split(Elements(queue), acked, lost, 1..recorded)'
      /\ Distinct(queue')
      /\ Cardinality(lost') = dropped'
  BY <1>1, <1>2, RestoreStep
<1>5. dropped' \in 0..recorded'
  <2>1. lost' \subseteq 1..recorded' /\ recorded' \in Nat
    BY <1>1, <1>4, EventsAssumption DEF Split, TypeOK
  <2> QED
    BY <1>4, <2>1, PartOfInterval
<1>6. TypeOK' /\ QueueBounded'
  BY <1>1, <1>3, <1>5 DEF TypeOK, QueueBounded
<1>7. \A t \in Slots : Distinct(flight'[t].events)
  BY <1>1 DEF Places
<1>8. Places'
  BY <1>4, <1>7 DEF Places
<1> QED
  BY <1>6, <1>8 DEF IInv

\* A step of the server side that leaves the proxy as it is.
LEMMA ServerStep ==
    ASSUME IInv, UNCHANGED <<queue, recorded, dropped, lost, acked, up, final>>,
           row' \in Counts, faults' \in Nat,
           flight' \in [Slots -> Flight],
           up # "gone" => \A t \in Slots : Held(t)' = Held(t),
           \A t \in Slots : flight'[t].events \in {flight[t].events, <<>>}
    PROVE  IInv'
<1>1. TypeOK' /\ QueueBounded'
  BY DEF IInv, TypeOK, QueueBounded
<1>2. ASSUME up # "gone" PROVE Places'
  <2>1. Distinct(<<>>)
    BY DEF Distinct
  <2>2. \A t \in Slots : Distinct(flight'[t].events)
    BY <1>2, <2>1 DEF IInv, Places
  <2>3. Split(Elements(queue), acked, lost, 1..recorded)'
    BY <1>2, SplitSame DEF IInv, Places
  <2> QED
    BY <1>2, <2>2, <2>3 DEF IInv, Places
<1> QED
  BY <1>1, <1>2 DEF IInv

LEMMA IdleFlight == Idle \in Flight /\ Distinct(Idle.events) /\ Idle.events = <<>> /\ Idle.client = "idle"
<1>1. None \in Counts
  BY DEF None, Counts
<1> QED
  BY <1>1 DEF Idle, Flight, Distinct

LEMMA TimesOutStep == ASSUME IInv, NEW s \in Slots, TimesOut(s) PROVE IInv'
<1>1. TypeOK /\ Places
  BY DEF IInv, TimesOut, Waiting
<1>2. flight' = [flight EXCEPT ![s] = Idle] \/ flight' = [flight EXCEPT ![s].client = "idle"]
  BY DEF TimesOut
<1>3. /\ flight' \in [Slots -> Flight] /\ flight'[s].client = "idle"
      /\ flight'[s].events \in {flight[s].events, <<>>}
      /\ \A t \in Slots : t # s => flight'[t] = flight[t]
  <2>1. CASE flight' = [flight EXCEPT ![s] = Idle]
    BY <1>1, <2>1, IdleFlight DEF TypeOK
  <2>2. CASE flight' = [flight EXCEPT ![s].client = "idle"]
    BY <1>1, <2>2 DEF TypeOK, Flight
  <2> QED
    BY <1>2, <2>1, <2>2
<1>4. Distinct(flight'[s].events)
  BY <1>1, <1>3 DEF Places, Distinct
<1>5. faults' \in Nat
  BY <1>1 DEF TimesOut, Fault, TypeOK
<1>6. Waiting(s) /\ Restore(s) /\ UNCHANGED <<recorded, acked, row, up, final>>
  BY DEF TimesOut, stop
<1> QED
  BY <1>3, <1>4, <1>5, <1>6, ReturnStep

LEMMA RefuseStep == ASSUME IInv, NEW s \in Slots, Refuse(s), faults' \in Nat PROVE IInv'
<1>1. flight \in [Slots -> Flight] /\ row \in Counts
  BY DEF IInv, TypeOK
<1>2. /\ flight' = [flight EXCEPT ![s] = Idle]
      /\ flight' \in [Slots -> Flight] /\ flight'[s].client = "idle" /\ flight'[s].events = <<>>
      /\ \A t \in Slots : t # s => flight'[t] = flight[t]
  BY <1>1, IdleFlight DEF Refuse
<1>3. UNCHANGED <<recorded, acked, row, up, final>>
  BY DEF Refuse, stop
<1>4. CASE Waiting(s)
  <2>1. Distinct(flight'[s].events)
    BY <1>2 DEF Distinct
  <2> QED
    BY <1>2, <1>3, <1>4, <2>1, ReturnStep DEF Refuse
<1>5. CASE ~Waiting(s)
  <2>1. UNCHANGED <<queue, dropped, lost>>
    BY <1>5 DEF Refuse
  <2>2. up # "gone" => \A t \in Slots : Held(t)' = Held(t)
    BY <1>2, <1>5 DEF Held, Waiting
  <2>3. \A t \in Slots : flight'[t].events \in {flight[t].events, <<>>}
    BY <1>2
  <2> QED
    BY <1>1, <1>2, <1>3, <2>1, <2>2, <2>3, ServerStep
<1> QED
  BY <1>4, <1>5

LEMMA ReplyStep == ASSUME IInv, NEW s \in Slots, IngestReply(s) PROVE IInv'
<1>1. TypeOK /\ flight \in [Slots -> Flight]
  BY DEF IInv, TypeOK
<1>2. /\ flight' \in [Slots -> Flight] /\ flight'[s].client = "idle" /\ flight'[s].events = <<>>
      /\ \A t \in Slots : t # s => flight'[t] = flight[t]
  BY <1>1, IdleFlight DEF IngestReply
<1>3. UNCHANGED <<queue, recorded, dropped, lost, row, up, final, faults>>
  BY DEF IngestReply, stop
<1>4. CASE ~Waiting(s)
  <2>1. UNCHANGED acked
    BY <1>4 DEF IngestReply
  <2>2. up # "gone" => \A t \in Slots : Held(t)' = Held(t)
    BY <1>2, <1>4 DEF Held, Waiting
  <2>3. \A t \in Slots : flight'[t].events \in {flight[t].events, <<>>}
    BY <1>2
  <2>4. row' \in Counts /\ faults' \in Nat
    BY <1>1, <1>3 DEF TypeOK
  <2> QED
    BY <1>2, <1>3, <2>1, <2>2, <2>3, <2>4, ServerStep
<1>5. CASE Waiting(s)
  <2>1. acked' = acked \cup Held(s) /\ up # "gone" /\ Places
    BY <1>5 DEF IngestReply, Waiting, Held, IInv
  <2>2. Held(s)' = {} /\ \A t \in Slots : t # s => Held(t)' = Held(t)
    BY <1>2 DEF Held
  <2>3. Split(Elements(queue), acked, lost, 1..recorded)
    BY <2>1 DEF Places
  <2>4. SplitNext(Elements(queue), acked', lost, 1..recorded)
    <3>1. /\ Elements(queue) \cup acked' \cup lost \subseteq 1..recorded
          /\ \A t \in Slots : Held(t)' \subseteq 1..recorded
      BY <2>1, <2>2, <2>3 DEF Split
    <3>2. ASSUME NEW e \in 1..recorded
          PROVE  e \in Elements(queue) \cup acked' \cup lost \/ \E t \in Slots : e \in Held(t)'
      <4>1. e \in Elements(queue) \cup acked \cup lost \/ \E t \in Slots : e \in Held(t)
        BY <2>3 DEF Split
      <4> QED
        BY <2>1, <2>2, <4>1
    <3>3. Elements(queue) \cap (acked' \cup lost) = {} /\ acked' \cap lost = {}
      BY <2>1, <2>3 DEF Split
    <3>4. ASSUME NEW t \in Slots
          PROVE  Held(t)' \cap (Elements(queue) \cup acked' \cup lost) = {}
      BY <2>1, <2>2, <2>3 DEF Split
    <3>5. ASSUME NEW t \in Slots, NEW u \in Slots, t # u PROVE Held(t)' \cap Held(u)' = {}
      BY <2>2, <2>3, <3>5 DEF Split
    <3> QED
      BY <3>1, <3>2, <3>3, <3>4, <3>5 DEF SplitNext
  <2>5. Split(Elements(queue), acked, lost, 1..recorded)'
    BY <1>3, <2>4, SplitPrimed
  <2>6. \A t \in Slots : Distinct(flight'[t].events)
    BY <1>2, <2>1 DEF Places, Distinct
  <2>7. acked' \subseteq Events
    BY <1>1, <2>1, <2>3, EventsAssumption DEF TypeOK, Split, Events
  <2>8. TypeOK' /\ QueueBounded'
    BY <1>1, <1>2, <1>3, <2>7 DEF TypeOK, QueueBounded, IInv
  <2>9. Places'
    BY <1>3, <2>1, <2>5, <2>6 DEF Places
  <2> QED
    BY <2>8, <2>9 DEF IInv
<1> QED
  BY <1>4, <1>5

LEMMA IngestStep ==
    ASSUME IInv, NEW s \in Slots, Ingest(s) \/ IngestFails(s)
    PROVE  IInv'
<1>1. flight \in [Slots -> Flight] /\ row \in Counts /\ faults \in Nat
  BY DEF IInv, TypeOK
<1>2. CASE IngestRead(s)
  <2>1. flight' = [flight EXCEPT ![s] = [[flight[s] EXCEPT !.server = "read"] EXCEPT !.seen = row]]
    BY <1>1, <1>2 DEF IngestRead
  <2>2. flight' \in [Slots -> Flight]
    BY <1>1, <2>1 DEF Flight
  <2>3. \A t \in Slots : Held(t)' = Held(t) /\ flight'[t].events = flight[t].events
    BY <1>1, <2>1 DEF Held, Flight
  <2> QED
    BY <1>1, <1>2, <2>2, <2>3, ServerStep DEF IngestRead, proxy, stop
<1>3. CASE IngestCommit(s)
  <2>1. CASE flight[s].seen = None /\ row # None
    BY <1>1, <1>3, <2>1, RefuseStep DEF IngestCommit
  <2>2. CASE ~(flight[s].seen = None /\ row # None)
    <3>1. /\ row' = [e \in Events |-> flight[s].seen[e] + (IF e \in Elements(flight[s].events) THEN 1 ELSE 0)]
          /\ flight' = [flight EXCEPT ![s].server = "written"]
          /\ UNCHANGED <<proxy, stop, faults>>
      BY <1>3, <2>2 DEF IngestCommit
    <3>2. row' \in Counts
      <4>1. flight[s].seen \in Counts
        BY <1>1 DEF Flight
      <4> QED
        BY <3>1, <4>1 DEF Counts
    <3>3. flight' \in [Slots -> Flight]
      BY <1>1, <3>1 DEF Flight
    <3>4. \A t \in Slots : Held(t)' = Held(t) /\ flight'[t].events = flight[t].events
      BY <1>1, <3>1 DEF Held, Flight
    <3> QED
      BY <1>1, <3>1, <3>2, <3>3, <3>4, ServerStep DEF proxy, stop
  <2> QED
    BY <2>1, <2>2
<1>4. CASE IngestReply(s)
  BY <1>4, ReplyStep
<1>5. CASE IngestFails(s)
  <2>1. Refuse(s) /\ faults' \in Nat
    BY <1>1, <1>5 DEF IngestFails, Fault
  <2> QED
    BY <2>1, RefuseStep
<1> QED
  BY <1>2, <1>3, <1>4, <1>5 DEF Ingest

LEMMA Inductive == Spec => []IInv
<1>1. IInv /\ [Next]_vars => IInv'
  <2> SUFFICES ASSUME IInv, [Next]_vars PROVE IInv'
    OBVIOUS
  <2>1. CASE UNCHANGED vars
    <3>1. UNCHANGED <<queue, recorded, dropped, lost, acked, flight, row, up, final, faults>>
      BY <2>1 DEF vars, proxy, stop
    <3>2. row' \in Counts /\ faults' \in Nat /\ flight' \in [Slots -> Flight]
      BY <3>1 DEF IInv, TypeOK
    <3>3. \A t \in Slots : Held(t)' = Held(t) /\ flight'[t].events = flight[t].events
      BY <3>1 DEF Held
    <3> QED
      BY <3>1, <3>2, <3>3, ServerStep
  <2> QED
    BY <2>1, RecordStep, FlushStep, ExitStep, TimesOutStep, IngestStep DEF Next
<1> QED
  BY InitIInv, <1>1, PTL DEF Spec

-----------------------------------------------------------------------------
\* Every reachable state is well typed; the drop counter is never above the
\* number of recorded events.
THEOREM TypeCorrect == Spec => []TypeOK
<1>1. IInv => TypeOK
  BY DEF IInv
<1> QED
  BY <1>1, Inductive, PTL

\* For any batch size and capacity the queue of the proxy never exceeds
\* METRICS_QUEUE_MAX, although any number of failed batches come back to it.
THEOREM QueueNeverOverflows == Spec => []QueueBounded
<1>1. IInv => QueueBounded
  BY DEF IInv
<1> QED
  BY <1>1, Inductive, PTL

\* For any number of overlapping flushes that fail or succeed in any order,
\* each event a living proxy has recorded is waiting, in exactly one unanswered
\* batch, acknowledged, or dropped; and droppedEvents counts the dropped.
THEOREM EveryEventAccounted == Spec => []Accounted
<1>1. IInv => Accounted
  <2> SUFFICES ASSUME IInv, up # "gone" PROVE Accounted
    BY DEF Accounted
  <2>1. Split(Elements(queue), acked, lost, 1..recorded)
    BY DEF IInv, Places
  <2>2. Elements(queue) \cup acked \cup lost \cup UNION {Held(s) : s \in Slots} = 1..recorded
    <3>1. \A e \in 1..recorded : e \in Elements(queue) \cup acked \cup lost
                                   \/ e \in UNION {Held(s) : s \in Slots}
      BY <2>1 DEF Split
    <3>2. \A e \in UNION {Held(s) : s \in Slots} : e \in 1..recorded
      BY <2>1 DEF Split
    <3> QED
      BY <2>1, <3>1, <3>2 DEF Split
  <2>3. Cardinality(Elements(queue)) = Len(queue) /\ Cardinality(lost) = dropped
    BY DistinctCardinality DEF IInv, TypeOK, Places
  <2> QED
    BY <2>1, <2>2, <2>3 DEF Split, Accounted
<1> QED
  BY <1>1, Inductive, PTL
=============================================================================
