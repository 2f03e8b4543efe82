-------------------------- MODULE UpstreamGetProofs --------------------------
(***************************************************************************)
(* TLAPS proofs about UpstreamGet, for every finite set of calls, every    *)
(* concurrency limit and every number of retries: the semaphore loses no   *)
(* permit and no wakeup, it is handed over in the order of the queue, no   *)
(* step puts a call back, and the verdict of a call is that of its answers.*)
(***************************************************************************)
EXTENDS UpstreamGet, FiniteSetTheorems, FunctionTheorems, SequenceTheorems, TLAPS

\* A queue that lists exactly the calls waiting in it, each once.
QueueLists(q, places) ==
    /\ q \in Seq(Calls)
    /\ \A i \in 1..Len(q) : places[q[i]] = "queued"
    /\ \A c \in Calls : places[c] = "queued" => \E i \in 1..Len(q) : q[i] = c
    /\ \A i \in 1..Len(q), j \in 1..Len(q) : q[i] = q[j] => i = j

HoldersIn(places) == {c \in Calls : places[c] \in {"granted", "sending"}}

\* The requests of a call that is under way have all failed in a way worth
\* retrying, and there is one for each attempt already made.  Needed to know
\* what the row of answers looks like when the call ends.
Trying == {"backoff", "queued", "granted", "sending"}
RowOfFailures ==
    \A c \in Calls : pc[c] \in Trying =>
        /\ Len(answers[c]) = attempt[c]
        /\ \A i \in 1..Len(answers[c]) : answers[c][i] \in Transient

\* The inductive invariant, in three parts: the semaphore and the places of the
\* calls; the other variables' types; the answers.
SemInv == /\ pc \in [Calls -> Places]
          /\ permits \in 0..MaxConcurrency
          /\ QueueLists(queue, pc)
          /\ PermitsConserved
          /\ NoLostWakeup
DataTypes == /\ attempt \in [Calls -> 0..MaxRetries - 1]
             /\ lastExc \in [Calls -> Results \cup {None}]
             /\ result \in [Calls -> Results \cup {None}]
             /\ answers \in [Calls -> Seq(Outcomes)]
IInv == SemInv /\ DataTypes /\ RowOfFailures /\ VerdictFollowsAnswers

\* The holders of a permit are finitely many.
LEMMA HoldersFinite ==
    ASSUME NEW places
    PROVE  IsFiniteSet(HoldersIn(places)) /\ Cardinality(HoldersIn(places)) \in Nat
<1>1. HoldersIn(places) \in SUBSET Calls
  BY DEF HoldersIn
<1>2. QED BY <1>1, CallsAssumption, FS_Subset, FS_CardinalityType

\* The first k elements of a sequence without repetitions are k in number.
LEMMA FirstElements ==
    ASSUME NEW q \in Seq(Calls), NEW k \in 0..Len(q),
           \A i \in 1..Len(q), j \in 1..Len(q) : q[i] = q[j] => i = j
    PROVE  /\ IsFiniteSet({q[i] : i \in 1..k})
           /\ Cardinality({q[i] : i \in 1..k}) = k
<1> DEFINE T == {q[i] : i \in 1..k}
           f == [i \in 1..k |-> q[i]]
<1>1. Len(q) \in Nat /\ k \in Nat /\ 1..k \subseteq 1..Len(q)
  BY LenProperties
<1>2. f \in [1..k -> T] /\ \A a, b \in 1..k : f[a] = f[b] => a = b
  BY <1>1
<1>3. \A t \in T : \E s \in 1..k : f[s] = t
  OBVIOUS
<1>4. f \in Bijection(1..k, T)
  BY <1>2, <1>3, Fun_IsBij
<1>5. ExistsBijection(1..k, T)
  BY <1>4, Fun_ExistsBij
<1>6. IsFiniteSet(1..k) /\ Cardinality(1..k) = k
  BY <1>1, FS_Interval
<1>7. QED BY <1>5, <1>6, FS_Bijection

\* What handing over permits does, whoever does it: free permits and holders
\* together stay the same, the queue stays exact, and a waiter is left behind
\* only when n of them were granted.
LEMMA HandingOver ==
    ASSUME NEW n \in Nat, NEW free \in Nat, n <= free, NEW waiting,
           NEW places \in [Calls -> Places], QueueLists(waiting, places),
           free + Cardinality(HoldersIn(places)) = MaxConcurrency,
           HandOver(n, free, waiting, places)
    PROVE  /\ pc' \in [Calls -> Places]
           /\ permits' \in 0..MaxConcurrency
           /\ QueueLists(queue', pc')
           /\ permits' + Cardinality(HoldersIn(pc')) = MaxConcurrency
           /\ \A c \in Calls : pc'[c] = places[c] \/ (places[c] = "queued" /\ pc'[c] = "granted")
           /\ queue' # <<>> => permits' = free - n
           /\ queue' # <<>> /\ n > 0 => At("granted")' # {}
<1> DEFINE k == IF n < Len(waiting) THEN n ELSE Len(waiting)
           T == {waiting[i] : i \in 1..k}
<1>1. waiting \in Seq(Calls) /\ Len(waiting) \in Nat
  BY LenProperties DEF QueueLists
<1>2. k \in 0..Len(waiting) /\ k <= n /\ k \in Nat /\ k <= free /\ (k < Len(waiting) => k = n)
  BY <1>1
<1>3. /\ permits' = free - k
      /\ queue' = SubSeq(waiting, k + 1, Len(waiting))
      /\ pc' = [c \in Calls |-> IF \E i \in 1..k : waiting[i] = c THEN "granted" ELSE places[c]]
  BY DEF HandOver
<1> HIDE DEF k
<1>4. pc' = [c \in Calls |-> IF c \in T THEN "granted" ELSE places[c]]
  BY <1>3
<1>5. /\ T \subseteq Calls
      /\ \A c \in T : places[c] = "queued"
  BY <1>1, <1>2 DEF QueueLists
<1>6. pc' \in [Calls -> Places]
  BY <1>4 DEF Places
<1>7. \A c \in Calls : pc'[c] = places[c] \/ (places[c] = "queued" /\ pc'[c] = "granted")
  BY <1>4, <1>5
<1>8. permits' + Cardinality(HoldersIn(pc')) = MaxConcurrency
  <2>1. HoldersIn(pc') = HoldersIn(places) \cup T
    BY <1>4, <1>5 DEF HoldersIn
  <2>2. HoldersIn(places) \cap T = {}
    BY <1>5 DEF HoldersIn
  <2>3. IsFiniteSet(T) /\ Cardinality(T) = k
    BY <1>1, <1>2, FirstElements DEF QueueLists
  <2>4. IsFiniteSet(HoldersIn(places)) /\ Cardinality(HoldersIn(places)) \in Nat
    BY HoldersFinite
  <2>5. Cardinality(HoldersIn(pc')) = Cardinality(HoldersIn(places)) + k
    <3> HIDE DEF T
    <3>1. Cardinality(HoldersIn(places) \cup T)
            = Cardinality(HoldersIn(places)) + Cardinality(T) - Cardinality(HoldersIn(places) \cap T)
      BY <2>3, <2>4, FS_Union
    <3>2. Cardinality(HoldersIn(places) \cap T) = 0
      BY <2>2, FS_EmptySet
    <3>3. QED BY <1>2, <2>1, <2>3, <2>4, <3>1, <3>2
  <2>6. QED BY <1>2, <1>3, <2>4, <2>5
<1>9. permits' \in 0..MaxConcurrency
  <2>1. Cardinality(HoldersIn(pc')) \in Nat
    BY HoldersFinite
  <2>2. permits' \in Nat
    BY <1>2, <1>3
  <2>3. QED BY <1>8, <2>1, <2>2, LimitsAssumption
<1>10. /\ queue' \in Seq(Calls)
       /\ Len(queue') = Len(waiting) - k
       /\ \A i \in 1..Len(waiting) - k : queue'[i] = waiting[k + i]
  <2>1. \A i \in k + 1..Len(waiting) : waiting[i] \in Calls
    BY <1>1, <1>2, ElementOfSeq
  <2>2. /\ SubSeq(waiting, k + 1, Len(waiting)) \in Seq(Calls)
        /\ Len(SubSeq(waiting, k + 1, Len(waiting)))
             = IF k + 1 <= Len(waiting) THEN Len(waiting) - (k + 1) + 1 ELSE 0
        /\ \A i \in 1..Len(waiting) - (k + 1) + 1 :
              SubSeq(waiting, k + 1, Len(waiting))[i] = waiting[(k + 1) + i - 1]
    BY <1>1, <1>2, <2>1, SubSeqProperties
  <2>3. QED BY <1>1, <1>2, <1>3, <2>2
<1>11. QueueLists(queue', pc')
  <2>1. \A i \in 1..Len(waiting) - k : k + i \in 1..Len(waiting)
    BY <1>1, <1>2
  <2>2. ASSUME NEW i \in 1..Len(queue') PROVE pc'[queue'[i]] = "queued"
    <3>1. queue'[i] = waiting[k + i] /\ k + i \in 1..Len(waiting)
      BY <1>10, <2>1, <2>2
    <3>2. waiting[k + i] \notin T
      BY <1>1, <1>2, <3>1 DEF QueueLists
    <3>3. waiting[k + i] \in Calls
      BY <1>1, <3>1, ElementOfSeq
    <3>4. QED BY <1>4, <3>1, <3>2, <3>3 DEF QueueLists
  <2>3. ASSUME NEW c \in Calls, pc'[c] = "queued" PROVE \E i \in 1..Len(queue') : queue'[i] = c
    <3>1. c \notin T /\ places[c] = "queued"
      BY <1>4, <2>3
    <3>2. PICK j \in 1..Len(waiting) : waiting[j] = c
      BY <3>1 DEF QueueLists
    <3>3. j > k
      BY <1>1, <1>2, <3>1, <3>2
    <3>4. j - k \in 1..Len(queue') /\ queue'[j - k] = waiting[k + (j - k)] /\ k + (j - k) = j
      BY <1>1, <1>2, <1>10, <3>2, <3>3
    <3>5. QED BY <3>2, <3>4
  <2>4. ASSUME NEW i \in 1..Len(queue'), NEW j \in 1..Len(queue'), queue'[i] = queue'[j]
        PROVE  i = j
    <3>1. waiting[k + i] = waiting[k + j] /\ k + i \in 1..Len(waiting) /\ k + j \in 1..Len(waiting)
      BY <1>10, <2>1, <2>4
    <3>2. k + i = k + j
      BY <3>1 DEF QueueLists
    <3>3. QED BY <1>1, <1>2, <1>10, <3>2
  <2>5. QED BY <1>10, <2>2, <2>3, <2>4 DEF QueueLists
<1>12. ASSUME queue' # <<>>
       PROVE  permits' = free - n /\ (n > 0 => At("granted")' # {})
  <2>1. Len(queue') # 0
    BY <1>10, <1>12, EmptySeq
  <2>2. k = n /\ k < Len(waiting)
    BY <1>1, <1>2, <1>10, <2>1
  <2>3. ASSUME n > 0 PROVE At("granted")' # {}
    <3>1. 1 \in 1..k /\ waiting[1] \in T /\ waiting[1] \in Calls
      BY <1>1, <1>2, <1>5, <2>2, <2>3
    <3>2. pc'[waiting[1]] = "granted"
      BY <1>4, <3>1
    <3>3. QED BY <3>1, <3>2 DEF At
  <2>4. QED BY <1>3, <2>2, <2>3
<1>13. QED BY <1>6, <1>7, <1>8, <1>9, <1>11, <1>12

\* Asking for the semaphore: the call takes a free permit or joins the queue.
LEMMA AcquireSem ==
    ASSUME SemInv, NEW c \in Calls, pc[c] \in {"idle", "done", "backoff"}, Acquire(c)
    PROVE  /\ SemInv'
           /\ pc' \in {[pc EXCEPT ![c] = "sending"], [pc EXCEPT ![c] = "queued"]}
<1> USE DEF SemInv, Places
<1>1. CASE /\ ~Locked
           /\ permits' = permits - 1
           /\ pc' = [pc EXCEPT ![c] = "sending"]
           /\ UNCHANGED queue
  <2>1. permits \in 1..MaxConcurrency /\ queue = <<>>
    BY <1>1 DEF Locked
  <2>2. Holders' = Holders \cup {c} /\ c \notin Holders
    BY <1>1 DEF Holders, At
  <2>3. IsFiniteSet(Holders) /\ Cardinality(Holders) \in Nat
    <3>1. Holders = HoldersIn(pc)
      BY DEF Holders, At, HoldersIn
    <3>2. QED BY <3>1, HoldersFinite
  <2>4. Cardinality(Holders') = Cardinality(Holders) + 1
    BY <2>2, <2>3, FS_AddElement
  <2>5. PermitsConserved'
    BY <1>1, <2>1, <2>3, <2>4, LimitsAssumption DEF PermitsConserved
  <2>6. QueueLists(queue, pc')
    BY <1>1 DEF QueueLists
  <2>7. permits' \in 0..MaxConcurrency
    BY <1>1, <2>1, LimitsAssumption
  <2>8. QED BY <1>1, <2>1, <2>5, <2>6, <2>7 DEF NoLostWakeup
<1>2. CASE /\ Locked
           /\ queue' = Append(queue, c)
           /\ pc' = [pc EXCEPT ![c] = "queued"]
           /\ UNCHANGED permits
  <2>1. /\ queue' \in Seq(Calls)
        /\ Len(queue) \in Nat
        /\ Len(queue') = Len(queue) + 1
        /\ \A i \in 1..Len(queue) : queue'[i] = queue[i]
        /\ queue'[Len(queue) + 1] = c
    BY <1>2, LenProperties, AppendProperties DEF QueueLists
  <2>2. \A i \in 1..Len(queue) : queue[i] # c /\ queue[i] \in Calls
    BY ElementOfSeq DEF QueueLists
  <2>3. \A i \in 1..Len(queue') : i \in 1..Len(queue) \/ i = Len(queue) + 1
    BY <2>1
  <2>4. \A i \in 1..Len(queue') : pc'[queue'[i]] = "queued"
    BY <1>2, <2>1, <2>2, <2>3 DEF QueueLists
  <2>5. \A i \in 1..Len(queue'), j \in 1..Len(queue') : queue'[i] = queue'[j] => i = j
    BY <2>1, <2>2, <2>3 DEF QueueLists
  <2>6. \A d \in Calls : pc'[d] = "queued" => \E i \in 1..Len(queue') : queue'[i] = d
    <3> SUFFICES ASSUME NEW d \in Calls, pc'[d] = "queued"
                 PROVE  \E i \in 1..Len(queue') : queue'[i] = d
      OBVIOUS
    <3>1. CASE d = c
      <4>1. Len(queue) + 1 \in 1..Len(queue')
        BY <2>1
      <4>2. QED BY <2>1, <3>1, <4>1
    <3>2. CASE d # c
      <4>1. PICK i \in 1..Len(queue) : queue[i] = d
        BY <1>2, <3>2 DEF QueueLists
      <4>2. i \in 1..Len(queue')
        BY <2>1
      <4>3. QED BY <2>1, <4>1, <4>2
    <3>3. QED BY <3>1, <3>2
  <2>7. QueueLists(queue', pc')
    BY <2>1, <2>4, <2>5, <2>6 DEF QueueLists
  <2>8. Holders' = Holders
    BY <1>2 DEF Holders, At
  <2>9. NoLostWakeup'
    BY <1>2 DEF NoLostWakeup, Locked, At
  <2>10. QED BY <1>2, <2>7, <2>8, <2>9 DEF PermitsConserved
<1>3. QED BY <1>1, <1>2 DEF Acquire

\* A list of calls in the order of the queue.
InOrder(waiting) ==
    \A i, j \in 1..Len(waiting) : i < j => waiting[i] \in Ahead(waiting[j])

\* A queue without one of its calls lists the calls that still wait, in their order.
LEMMA LeavingQueue ==
    ASSUME SemInv, NEW c \in Calls, pc[c] = "queued"
    PROVE  QueueLists(Left(c), [pc EXCEPT ![c] = "done"]) /\ InOrder(Left(c))
<1> DEFINE p == CHOOSE j \in 1..Len(queue) : queue[j] = c
           s1 == SubSeq(queue, 1, p - 1)
           s2 == SubSeq(queue, p + 1, Len(queue))
           q == s1 \o s2
           n == Len(queue) - 1
           places == [pc EXCEPT ![c] = "done"]
<1> USE DEF SemInv
<1>1. queue \in Seq(Calls) /\ Len(queue) \in Nat /\ \A i \in 1..Len(queue) : queue[i] \in Calls
  BY LenProperties, ElementOfSeq DEF QueueLists
<1>2. p \in 1..Len(queue) /\ queue[p] = c
  BY DEF QueueLists
<1> HIDE DEF p
<1>3. s1 \in Seq(Calls) /\ Len(s1) = p - 1 /\ \A i \in 1..p - 1 : s1[i] = queue[i]
  <2>1. \A i \in 1..p - 1 : queue[i] \in Calls
    BY <1>1, <1>2
  <2>2. /\ s1 \in Seq(Calls)
        /\ Len(s1) = IF 1 <= p - 1 THEN p - 1 - 1 + 1 ELSE 0
        /\ \A i \in 1..p - 1 - 1 + 1 : s1[i] = queue[1 + i - 1]
    BY <1>1, <1>2, <2>1, SubSeqProperties
  <2>3. QED BY <1>1, <1>2, <2>2
<1>4. /\ s2 \in Seq(Calls) /\ Len(s2) = Len(queue) - p
      /\ \A i \in 1..Len(queue) - p : s2[i] = queue[p + i]
  <2>1. \A i \in p + 1..Len(queue) : queue[i] \in Calls
    BY <1>1, <1>2
  <2>2. /\ s2 \in Seq(Calls)
        /\ Len(s2) = IF p + 1 <= Len(queue) THEN Len(queue) - (p + 1) + 1 ELSE 0
        /\ \A i \in 1..Len(queue) - (p + 1) + 1 : s2[i] = queue[p + 1 + i - 1]
    BY <1>1, <1>2, <2>1, SubSeqProperties
  <2>3. QED BY <1>1, <1>2, <2>2
<1> HIDE DEF s1, s2
<1>5. /\ q \in Seq(Calls) /\ Len(q) = n
      /\ \A i \in 1..n : q[i] = IF i < p THEN queue[i] ELSE queue[i + 1]
  <2>1. /\ q \in Seq(Calls) /\ Len(q) = Len(s1) + Len(s2)
        /\ \A i \in 1..Len(s1) + Len(s2) : q[i] = IF i <= Len(s1) THEN s1[i] ELSE s2[i - Len(s1)]
    BY <1>3, <1>4, ConcatProperties
  <2>2. ASSUME NEW i \in 1..n PROVE q[i] = IF i < p THEN queue[i] ELSE queue[i + 1]
    <3>1. CASE i < p
      BY <1>1, <1>2, <1>3, <1>4, <2>1, <3>1
    <3>2. CASE i >= p
      <4>1. q[i] = s2[i - (p - 1)] /\ i - (p - 1) \in 1..Len(queue) - p
        BY <1>1, <1>2, <1>3, <1>4, <2>1, <3>2
      <4>2. q[i] = queue[p + (i - (p - 1))]
        BY <1>4, <4>1
      <4>3. p + (i - (p - 1)) = i + 1
        BY <1>1, <1>2
      <4>4. QED BY <1>1, <1>2, <3>2, <4>2, <4>3
    <3>3. i < p \/ i >= p
      BY <1>1, <1>2
    <3> HIDE DEF q
    <3>4. QED BY <3>1, <3>2, <3>3
  <2>3. QED BY <1>1, <1>2, <1>3, <1>4, <2>1, <2>2
<1> HIDE DEF q
<1>6. \A i \in 1..n : q[i] # c /\ q[i] \in Calls /\ places[q[i]] = "queued"
  <2> SUFFICES ASSUME NEW i \in 1..n
               PROVE  q[i] # c /\ q[i] \in Calls /\ places[q[i]] = "queued"
    OBVIOUS
  <2> DEFINE a == IF i < p THEN i ELSE i + 1
  <2>1. a \in 1..Len(queue) /\ a # p /\ q[i] = queue[a]
    BY <1>1, <1>2, <1>5
  <2> HIDE DEF a
  <2>2. queue[a] # c /\ queue[a] \in Calls /\ pc[queue[a]] = "queued"
    BY <1>1, <1>2, <2>1 DEF QueueLists
  <2>3. QED BY <2>1, <2>2
<1>7. \A i \in 1..n, j \in 1..n : q[i] = q[j] => i = j
  <2> SUFFICES ASSUME NEW i \in 1..n, NEW j \in 1..n, q[i] = q[j] PROVE i = j
    OBVIOUS
  <2> DEFINE a == IF i < p THEN i ELSE i + 1
             b == IF j < p THEN j ELSE j + 1
  <2>1. a \in 1..Len(queue) /\ b \in 1..Len(queue) /\ queue[a] = queue[b]
    BY <1>1, <1>2, <1>5
  <2>2. a = b
    BY <2>1 DEF QueueLists
  <2>3. QED BY <1>1, <1>2, <2>2
<1>8. ASSUME NEW d \in Calls, places[d] = "queued" PROVE \E i \in 1..n : q[i] = d
  <2>1. d # c /\ pc[d] = "queued"
    BY <1>8
  <2>2. PICK j \in 1..Len(queue) : queue[j] = d
    BY <2>1 DEF QueueLists
  <2>3. j # p
    BY <1>2, <2>1, <2>2
  <2>4. CASE j < p
    BY <1>1, <1>2, <1>5, <2>2, <2>4
  <2>5. CASE j > p
    <3>1. j - 1 \in 1..n /\ ~(j - 1 < p) /\ (j - 1) + 1 = j
      BY <1>1, <1>2, <2>5
    <3>2. QED BY <1>5, <2>2, <3>1
  <2>6. QED BY <1>1, <1>2, <2>3, <2>4, <2>5
<1>9. Left(c) = q
  BY DEF Left, q, s1, s2, p
<1>10. InOrder(q)
  <2> SUFFICES ASSUME NEW i \in 1..n, NEW j \in 1..n, i < j PROVE q[i] \in Ahead(q[j])
    BY <1>5 DEF InOrder
  <2> DEFINE a == IF i < p THEN i ELSE i + 1
             b == IF j < p THEN j ELSE j + 1
  <2>1. a \in 1..Len(queue) /\ b \in 1..Len(queue) /\ a < b
    BY <1>1, <1>2
  <2>2. q[i] = queue[a] /\ q[j] = queue[b]
    BY <1>5
  <2> HIDE DEF a, b
  <2>3. QED BY <1>1, <2>1, <2>2 DEF Ahead
<1>11. QED BY <1>5, <1>6, <1>7, <1>8, <1>9, <1>10 DEF QueueLists

\* Handing over, with the two ways it is used: all the free permits, or one that
\* was just released.
LEMMA HandOverSem ==
    ASSUME NEW n \in Nat, NEW free \in Nat, n = free \/ n = 1, n <= free, NEW waiting,
           NEW places \in [Calls -> Places], QueueLists(waiting, places),
           free + Cardinality(HoldersIn(places)) = MaxConcurrency,
           HandOver(n, free, waiting, places)
    PROVE  /\ SemInv'
           /\ \A c \in Calls : pc'[c] = places[c] \/ (places[c] = "queued" /\ pc'[c] = "granted")
<1>1. /\ pc' \in [Calls -> Places]
      /\ permits' \in 0..MaxConcurrency
      /\ QueueLists(queue', pc')
      /\ permits' + Cardinality(HoldersIn(pc')) = MaxConcurrency
      /\ \A c \in Calls : pc'[c] = places[c] \/ (places[c] = "queued" /\ pc'[c] = "granted")
      /\ queue' # <<>> => permits' = free - n
      /\ queue' # <<>> /\ n > 0 => At("granted")' # {}
  BY HandingOver
<1>2. HoldersIn(pc') = Holders'
  BY DEF HoldersIn, Holders, At
<1>3. PermitsConserved'
  BY <1>1, <1>2 DEF PermitsConserved
<1>4. NoLostWakeup'
  BY <1>1 DEF NoLostWakeup
<1>5. QED BY <1>1, <1>3, <1>4 DEF SemInv

\* What a step of call c does to the places of the calls: c goes to p, and some
\* waiters are granted a permit.
Moves(c, p) == /\ pc'[c] = p
               /\ \A d \in Calls \ {c} : \/ pc'[d] = pc[d]
                                         \/ pc[d] = "queued" /\ pc'[d] = "granted"

\* Leaving the block: the permit is handed on or comes back.
LEMMA ReleaseSem ==
    ASSUME SemInv, NEW c \in Calls, pc[c] = "sending", NEW p \in {"done", "backoff"},
           Release(c, p)
    PROVE  SemInv' /\ Moves(c, p)
<1> DEFINE places == [pc EXCEPT ![c] = p]
<1> USE DEF SemInv
<1>1. places \in [Calls -> Places] /\ QueueLists(queue, places)
  BY DEF Places, QueueLists
<1>2. HoldersIn(places) = Holders \ {c} /\ c \in Holders
  BY DEF HoldersIn, Holders, At
<1>3. IsFiniteSet(Holders) /\ Cardinality(Holders) \in Nat
  <2>1. Holders = HoldersIn(pc)
    BY DEF Holders, At, HoldersIn
  <2>2. QED BY <2>1, HoldersFinite
<1>4. permits \in Nat /\ permits + 1 + Cardinality(HoldersIn(places)) = MaxConcurrency
  <2>1. Cardinality(Holders \ {c}) = Cardinality(Holders) - 1
    BY <1>2, <1>3, FS_RemoveElement
  <2> HIDE DEF places
  <2>2. QED BY <1>2, <1>3, <2>1 DEF PermitsConserved
<1>5. HandOver(1, permits + 1, queue, places)
  BY DEF Release
<1> HIDE DEF places
<1>6. /\ SemInv'
      /\ \A d \in Calls : pc'[d] = places[d] \/ (places[d] = "queued" /\ pc'[d] = "granted")
  BY <1>1, <1>4, <1>5, HandOverSem
<1>7. Moves(c, p)
  BY <1>6 DEF Moves, places
<1>8. QED BY <1>6, <1>7

\* A granted waiter that runs keeps its permit and wakes others if more are free.
LEMMA RunSem ==
    ASSUME SemInv, NEW c \in Calls, Run(c)
    PROVE  SemInv' /\ Moves(c, "sending")
<1> DEFINE places == [pc EXCEPT ![c] = "sending"]
<1> USE DEF SemInv
<1>1. pc[c] = "granted" /\ HandOver(permits, permits, queue, places)
  BY DEF Run
<1>2. places \in [Calls -> Places] /\ QueueLists(queue, places)
  BY <1>1 DEF Places, QueueLists
<1>3. HoldersIn(places) = Holders
  BY <1>1 DEF HoldersIn, Holders, At
<1>4. permits \in Nat /\ permits + Cardinality(HoldersIn(places)) = MaxConcurrency
  BY <1>3 DEF PermitsConserved
<1> HIDE DEF places
<1>5. /\ SemInv'
      /\ \A d \in Calls : pc'[d] = places[d] \/ (places[d] = "queued" /\ pc'[d] = "granted")
  BY <1>1, <1>2, <1>4, HandOverSem
<1>6. Moves(c, "sending")
  BY <1>5 DEF Moves, places
<1>7. QED BY <1>5, <1>6

\* A cancellation at any await gives back exactly the permit the task owned.
LEMMA CancelSem ==
    ASSUME SemInv, NEW c \in Calls, Cancel(c)
    PROVE  SemInv' /\ Moves(c, "done") /\ pc[c] \in Trying
<1> DEFINE places == [pc EXCEPT ![c] = "done"]
<1> USE DEF SemInv
<1>1. places \in [Calls -> Places] /\ Holders = HoldersIn(pc)
  BY DEF Places, Holders, At, HoldersIn
<1>2. IsFiniteSet(Holders) /\ Cardinality(Holders) \in Nat /\ permits \in Nat
  BY <1>1, HoldersFinite
<1>3. CASE pc[c] = "backoff" /\ pc' = [pc EXCEPT ![c] = "done"] /\ UNCHANGED semaphore
  <2>1. QueueLists(queue', pc')
    BY <1>3 DEF QueueLists, semaphore
  <2>2. Holders' = Holders /\ At("granted")' = At("granted")
    BY <1>3 DEF Holders, At
  <2>3. QED BY <1>1, <1>3, <2>1, <2>2
            DEF PermitsConserved, NoLostWakeup, semaphore, Moves, Trying
<1>4. CASE pc[c] = "queued" /\ HandOver(permits, permits, Left(c), places)
  <2>1. QueueLists(Left(c), places)
    BY <1>4, LeavingQueue
  <2>2. HoldersIn(places) = Holders
    BY <1>4 DEF HoldersIn, Holders, At
  <2>3. permits + Cardinality(HoldersIn(places)) = MaxConcurrency
    BY <2>2 DEF PermitsConserved
  <2> HIDE DEF places
  <2>4. /\ SemInv'
        /\ \A d \in Calls : pc'[d] = places[d] \/ (places[d] = "queued" /\ pc'[d] = "granted")
    BY <1>1, <1>2, <1>4, <2>1, <2>3, HandOverSem
  <2>5. QED BY <1>4, <2>4 DEF Moves, places, Trying
<1>5. CASE pc[c] = "granted" /\ HandOver(permits + 1, permits + 1, queue, places)
  <2>1. QueueLists(queue, places)
    BY <1>5 DEF QueueLists
  <2>2. HoldersIn(places) = Holders \ {c} /\ c \in Holders
    BY <1>5 DEF HoldersIn, Holders, At
  <2>3. permits + 1 + Cardinality(HoldersIn(places)) = MaxConcurrency
    <3>1. Cardinality(Holders \ {c}) = Cardinality(Holders) - 1
      BY <1>2, <2>2, FS_RemoveElement
    <3> HIDE DEF places
    <3>2. QED BY <1>2, <2>2, <3>1 DEF PermitsConserved
  <2> HIDE DEF places
  <2>4. /\ SemInv'
        /\ \A d \in Calls : pc'[d] = places[d] \/ (places[d] = "queued" /\ pc'[d] = "granted")
    BY <1>1, <1>2, <1>5, <2>1, <2>3, HandOverSem
  <2>5. QED BY <1>5, <2>4 DEF Moves, places, Trying
<1>6. CASE pc[c] = "sending" /\ Release(c, "done")
  BY <1>6, ReleaseSem DEF Trying
<1>7. QED BY <1>3, <1>4, <1>5, <1>6 DEF Cancel

\* What the step of call c leaves to the other calls.
OthersKeep(c) ==
    \A d \in Calls \ {c} : /\ attempt'[d] = attempt[d]
                           /\ result'[d] = result[d]
                           /\ answers'[d] = answers[d]

\* The rows of the other calls stay what they were, since being granted a permit
\* changes neither a row nor a verdict.
LEMMA OthersStay ==
    ASSUME IInv, NEW c \in Calls, NEW p, Moves(c, p), OthersKeep(c)
    PROVE  /\ \A d \in Calls \ {c} : pc'[d] \in Trying =>
                 /\ Len(answers'[d]) = attempt'[d]
                 /\ \A i \in 1..Len(answers'[d]) : answers'[d][i] \in Transient
           /\ \A d \in Calls \ {c} : pc'[d] = "done" /\ result'[d] # "CancelledError" =>
                 Justified(result'[d], answers'[d])
<1>1. ASSUME NEW d \in Calls \ {c}
      PROVE  /\ pc'[d] \in Trying => pc[d] \in Trying
             /\ pc'[d] = "done" => pc[d] = "done"
             /\ attempt'[d] = attempt[d] /\ result'[d] = result[d] /\ answers'[d] = answers[d]
  BY <1>1 DEF Moves, Trying, OthersKeep
<1>2. QED BY <1>1 DEF IInv, RowOfFailures, VerdictFollowsAnswers, At

\* The actions of a call, one by one: a new call has an empty row.
LEMMA BeginInv == ASSUME IInv, NEW c \in Calls, Begin(c) PROVE IInv'
<1>1. SemInv' /\ pc' \in {[pc EXCEPT ![c] = "sending"], [pc EXCEPT ![c] = "queued"]}
  BY AcquireSem DEF Begin, IInv
<1>2. pc'[c] \in Trying /\ pc'[c] # "done" /\ Moves(c, pc'[c])
  BY <1>1 DEF IInv, SemInv, Moves, Trying
<1>3. DataTypes'
  BY LimitsAssumption DEF Begin, IInv, DataTypes
<1>4. OthersKeep(c) /\ answers'[c] = <<>> /\ attempt'[c] = 0
  BY DEF Begin, OthersKeep, IInv, DataTypes
<1>5. RowOfFailures' /\ VerdictFollowsAnswers'
  BY <1>2, <1>4, OthersStay DEF RowOfFailures, VerdictFollowsAnswers, At
<1>6. QED BY <1>1, <1>3, <1>5 DEF IInv

\* The sleep leaves the row as it was.
LEMMA BackoffOverInv == ASSUME IInv, NEW c \in Calls, BackoffOver(c) PROVE IInv'
<1>1. SemInv' /\ pc' \in {[pc EXCEPT ![c] = "sending"], [pc EXCEPT ![c] = "queued"]}
  BY AcquireSem DEF BackoffOver, IInv
<1>2. pc[c] \in Trying /\ pc'[c] \in Trying /\ pc'[c] # "done" /\ Moves(c, pc'[c])
  BY <1>1 DEF IInv, SemInv, Moves, Trying, BackoffOver
<1>3. DataTypes' /\ OthersKeep(c) /\ UNCHANGED <<answers, attempt, result>>
  BY DEF BackoffOver, IInv, DataTypes, OthersKeep
<1>4. RowOfFailures' /\ VerdictFollowsAnswers'
  BY <1>2, <1>3, OthersStay DEF IInv, RowOfFailures, VerdictFollowsAnswers, At
<1>5. QED BY <1>1, <1>3, <1>4 DEF IInv

\* So does being granted the semaphore.
LEMMA RunInv == ASSUME IInv, NEW c \in Calls, Run(c) PROVE IInv'
<1>1. SemInv' /\ Moves(c, "sending")
  BY RunSem DEF IInv
<1>2. pc[c] \in Trying /\ pc'[c] # "done"
  BY <1>1 DEF Moves, Trying, Run
<1>3. DataTypes' /\ OthersKeep(c) /\ UNCHANGED <<answers, attempt, result>>
  BY DEF Run, IInv, DataTypes, OthersKeep
<1>4. RowOfFailures' /\ VerdictFollowsAnswers'
  BY <1>1, <1>2, <1>3, OthersStay DEF IInv, RowOfFailures, VerdictFollowsAnswers, At
<1>5. QED BY <1>1, <1>3, <1>4 DEF IInv

\* A cancelled call reports CancelledError, whatever its row.
LEMMA CancelInv == ASSUME IInv, NEW c \in Calls, Cancel(c) PROVE IInv'
<1>1. SemInv' /\ Moves(c, "done")
  BY CancelSem DEF IInv
<1>2. result'[c] = "CancelledError" /\ OthersKeep(c) /\ DataTypes'
  BY DEF Cancel, End, IInv, DataTypes, OthersKeep, Results
<1>3. pc'[c] = "done"
  BY <1>1 DEF Moves
<1>4. RowOfFailures' /\ VerdictFollowsAnswers'
  BY <1>2, <1>3, <1>1, OthersStay DEF RowOfFailures, VerdictFollowsAnswers, At, Trying
<1>5. QED BY <1>1, <1>2, <1>4 DEF IInv

\* What an answer adds to the row of the call.
LEMMA AnswerRow ==
    ASSUME IInv, NEW c \in Calls, NEW o \in Outcomes, pc[c] = "sending",
           answers' = [answers EXCEPT ![c] = Append(@, o)]
    PROVE  /\ answers' \in [Calls -> Seq(Outcomes)]
           /\ Len(answers'[c]) = attempt[c] + 1
           /\ attempt[c] \in 0..MaxRetries - 1
           /\ \A i \in 1..attempt[c] : answers'[c][i] \in Transient
           /\ answers'[c][attempt[c] + 1] = o
           /\ \A d \in Calls \ {c} : answers'[d] = answers[d]
           /\ Verdict[o] \in Results
<1>1. /\ answers[c] \in Seq(Outcomes) /\ attempt[c] \in 0..MaxRetries - 1
      /\ Len(answers[c]) = attempt[c]
      /\ \A i \in 1..attempt[c] : answers[c][i] \in Transient
  BY DEF IInv, DataTypes, RowOfFailures, Trying
<1>2. answers'[c] = Append(answers[c], o)
  BY DEF IInv, DataTypes
<1>3. /\ answers'[c] \in Seq(Outcomes)
      /\ Len(answers'[c]) = attempt[c] + 1
      /\ \A i \in 1..attempt[c] : answers'[c][i] = answers[c][i]
      /\ answers'[c][attempt[c] + 1] = o
  BY <1>1, <1>2, AppendProperties
<1>4. answers' \in [Calls -> Seq(Outcomes)] /\ \A d \in Calls \ {c} : answers'[d] = answers[d]
  BY <1>2, <1>3 DEF IInv, DataTypes
<1>5. Verdict[o] \in Results
  BY OutcomesAssumption DEF Results
<1>6. QED BY <1>1, <1>3, <1>4, <1>5

\* An answer adds one outcome to the row and decides what comes next.
LEMMA AnswerInv ==
    ASSUME IInv, NEW c \in Calls, NEW o \in Outcomes, Answer(c, o)
    PROVE  IInv'
<1>1. pc[c] = "sending" /\ answers' = [answers EXCEPT ![c] = Append(@, o)]
  BY DEF Answer
<1>2. /\ answers' \in [Calls -> Seq(Outcomes)]
      /\ Len(answers'[c]) = attempt[c] + 1
      /\ attempt[c] \in 0..MaxRetries - 1
      /\ \A i \in 1..attempt[c] : answers'[c][i] \in Transient
      /\ answers'[c][attempt[c] + 1] = o
      /\ \A d \in Calls \ {c} : answers'[d] = answers[d]
      /\ Verdict[o] \in Results
  BY <1>1, AnswerRow
<1>3. SemInv
  BY DEF IInv
<1>4. CASE AnswerRetried(c, o)
  <2>1. SemInv' /\ Moves(c, "backoff")
    BY <1>1, <1>3, <1>4, ReleaseSem DEF AnswerRetried
  <2>2. DataTypes' /\ OthersKeep(c) /\ attempt'[c] = attempt[c] + 1 /\ o \in Transient
    <3>1. attempt[c] + 1 \in 0..MaxRetries - 1
      BY <1>2, <1>4, LimitsAssumption DEF AnswerRetried
    <3>2. DataTypes'
      BY <1>2, <1>4, <3>1 DEF AnswerRetried, IInv, DataTypes
    <3>3. QED BY <1>2, <1>4, <3>2 DEF AnswerRetried, IInv, DataTypes, OthersKeep
  <2>3. \A i \in 1..Len(answers'[c]) : answers'[c][i] \in Transient
    BY <1>2, <2>2
  <2>4. pc'[c] = "backoff"
    BY <2>1 DEF Moves
  <2>5. RowOfFailures' /\ VerdictFollowsAnswers'
    BY <1>2, <2>1, <2>2, <2>3, <2>4, OthersStay DEF RowOfFailures, VerdictFollowsAnswers, At
  <2>6. QED BY <2>1, <2>2, <2>5 DEF IInv
<1>5. ASSUME Release(c, "done"), result' = [result EXCEPT ![c] = Verdict[o]], UNCHANGED attempt,
             lastExc' \in [Calls -> Results \cup {None}],
             o \in Transient => attempt[c] + 1 = MaxRetries
      PROVE  IInv'
  <2>1. SemInv' /\ Moves(c, "done")
    BY <1>1, <1>3, <1>5, ReleaseSem
  <2>2. DataTypes' /\ OthersKeep(c) /\ result'[c] = Verdict[o]
    BY <1>2, <1>5 DEF IInv, DataTypes, OthersKeep
  <2>3. pc'[c] = "done"
    BY <2>1 DEF Moves
  <2>4. Justified(result'[c], answers'[c])
    <3> DEFINE n == attempt[c] + 1
               row == answers'[c]
    <3>1. Len(row) = n /\ n \in 1..MaxRetries /\ row[n] = o
      BY <1>2, LimitsAssumption
    <3>2. \A i \in 1..n - 1 : row[i] \in Transient
      BY <1>2
    <3> HIDE DEF n, row
    <3>3. Justified(Verdict[o], row)
      BY <1>5, <3>1, <3>2 DEF Justified, n
    <3>4. QED BY <2>2, <3>3 DEF row
  <2>5. RowOfFailures' /\ VerdictFollowsAnswers'
    BY <2>1, <2>2, <2>3, <2>4, OthersStay DEF RowOfFailures, VerdictFollowsAnswers, At, Trying
  <2>6. QED BY <2>1, <2>2, <2>5 DEF IInv
<1>6. CASE AnswerFinal(c, o)
  <2>1. o \notin Transient /\ lastExc' \in [Calls -> Results \cup {None}]
    BY <1>6 DEF AnswerFinal, Final, Transient, IInv, DataTypes
  <2>2. QED BY <1>5, <1>6, <2>1 DEF AnswerFinal, End
<1>7. CASE AnswerGivenUp(c, o)
  <2>1. lastExc' \in [Calls -> Results \cup {None}] /\ lastExc'[c] = Verdict[o]
    BY <1>2, <1>7 DEF AnswerGivenUp, IInv, DataTypes
  <2>2. QED BY <1>5, <1>7, <2>1 DEF AnswerGivenUp, End
<1>8. QED BY <1>4, <1>6, <1>7 DEF Answer

\* Nothing is under way at the start.
LEMMA Initial == Init => IInv
<1> SUFFICES ASSUME Init PROVE IInv
  OBVIOUS
<1>1. Holders = {} /\ At("queued") = {} /\ Cardinality({}) = 0
  BY FS_EmptySet DEF Init, Holders, At
<1>2. QueueLists(queue, pc)
  BY DEF Init, QueueLists
<1>3. PermitsConserved
  BY <1>1, LimitsAssumption DEF Init, PermitsConserved
<1>4. SemInv
  BY <1>2, <1>3, LimitsAssumption DEF Init, SemInv, NoLostWakeup, Places
<1>5. DataTypes
  BY LimitsAssumption DEF Init, DataTypes
<1>6. RowOfFailures /\ VerdictFollowsAnswers
  BY DEF Init, RowOfFailures, VerdictFollowsAnswers, At, Trying
<1>7. QED BY <1>4, <1>5, <1>6 DEF IInv

\* The inductive step: one case per action.
LEMMA Inductive == IInv /\ [Next]_vars => IInv'
<1> SUFFICES ASSUME IInv, [Next]_vars PROVE IInv'
  OBVIOUS
<1>1. ASSUME NEW c \in Calls, CallStep(c) PROVE IInv'
  BY <1>1, BeginInv, BackoffOverInv, RunInv, CancelInv, AnswerInv DEF CallStep
<1>2. CASE UNCHANGED vars
  BY <1>2 DEF vars, IInv, SemInv, DataTypes, QueueLists, PermitsConserved, NoLostWakeup,
     Holders, At, RowOfFailures, VerdictFollowsAnswers
<1>3. QED BY <1>1, <1>2 DEF Next

\* The types are part of the inductive invariant.
LEMMA InvariantTypes == IInv => TypeOK
BY DEF IInv, SemInv, DataTypes, QueueLists, TypeOK, At

\* The inductive invariant holds in every reachable state.
THEOREM GetInvariant == Spec => []IInv
BY Initial, Inductive, PTL DEF Spec

\* Types, and the queue of the semaphore lists exactly the calls that wait.
THEOREM GetTypes == Spec => []TypeOK
BY GetInvariant, InvariantTypes, PTL

\* Retries, errors and cancellations neither lose nor make a permit.
THEOREM GetConservesPermits == Spec => []PermitsConserved
<1>1. IInv => PermitsConserved
  BY DEF IInv, SemInv
<1>2. QED BY GetInvariant, <1>1, PTL

\* No waiter is left behind that nobody is going to wake.
THEOREM GetLosesNoWakeup == Spec => []NoLostWakeup
<1>1. IInv => NoLostWakeup
  BY DEF IInv, SemInv
<1>2. QED BY GetInvariant, <1>1, PTL

\* The client never has more than MaxConcurrency requests under way.
THEOREM GetBoundsRequests == Spec => [](Cardinality(At("sending")) <= MaxConcurrency)
<1>1. IInv => Cardinality(At("sending")) <= MaxConcurrency
  <2> SUFFICES ASSUME IInv PROVE Cardinality(At("sending")) <= MaxConcurrency
    OBVIOUS
  <2>1. HoldersIn(pc) = Holders
    BY DEF HoldersIn, Holders, At
  <2>2. IsFiniteSet(Holders) /\ Cardinality(Holders) \in Nat
    BY <2>1, HoldersFinite
  <2>3. At("sending") \in SUBSET Holders
    BY DEF Holders
  <2>4. /\ Cardinality(At("sending")) <= Cardinality(Holders)
        /\ Cardinality(At("sending")) \in Nat
    BY <2>2, <2>3, FS_Subset, FS_CardinalityType
  <2>5. permits \in Nat /\ permits + Cardinality(Holders) = MaxConcurrency
    BY DEF IInv, SemInv, PermitsConserved
  <2>6. QED BY <2>2, <2>4, <2>5, LimitsAssumption
<1>2. QED BY GetInvariant, <1>1, PTL

\* The result of a call follows from the whole row of answers it got.
THEOREM GetVerdict == Spec => []VerdictFollowsAnswers
<1>1. IInv => VerdictFollowsAnswers
  BY DEF IInv
<1>2. QED BY GetInvariant, <1>1, PTL
-----------------------------------------------------------------------------
\* Of what a step of call c may do to a call d: nothing, grant it a permit, or what the
\* way of a call through the semaphore allows its own steps.
Onward(d) ==
    \/ pc'[d] = pc[d] /\ (pc[d] \in Trying => attempt'[d] = attempt[d])
    \/ pc[d] \notin Trying
    \/ pc'[d] = "done"
    \/ attempt'[d] = attempt[d] /\ pc[d] = "backoff" /\ pc'[d] \in {"queued", "sending"}
    \/ attempt'[d] = attempt[d] /\ pc[d] = "queued" /\ pc'[d] = "granted"
    \/ attempt'[d] = attempt[d] /\ pc[d] = "granted" /\ pc'[d] = "sending"
    \/ attempt'[d] = attempt[d] + 1 /\ attempt'[d] < MaxRetries /\ pc[d] = "sending" /\ pc'[d] = "backoff"

\* Every step takes every call onward.
LEMMA StepsOnward ==
    ASSUME IInv, NEW c \in Calls, CallStep(c), NEW d \in Calls
    PROVE  Onward(d)
<1>1. SemInv /\ pc \in [Calls -> Places] /\ attempt \in [Calls -> 0..MaxRetries - 1]
      /\ result \in [Calls -> Results \cup {None}] /\ answers \in [Calls -> Seq(Outcomes)]
  BY DEF IInv, SemInv, DataTypes
<1>2. CASE Begin(c)
  <2>1. pc' \in {[pc EXCEPT ![c] = "sending"], [pc EXCEPT ![c] = "queued"]}
    BY <1>1, <1>2, AcquireSem DEF Begin
  <2>2. OthersKeep(c) /\ pc[c] \notin Trying
    BY <1>1, <1>2 DEF Begin, OthersKeep, Trying
  <2>3. QED BY <1>1, <2>1, <2>2 DEF Onward, OthersKeep
<1>3. CASE BackoffOver(c)
  <2>1. pc[c] = "backoff" /\ pc' \in {[pc EXCEPT ![c] = "sending"], [pc EXCEPT ![c] = "queued"]}
    BY <1>1, <1>3, AcquireSem DEF BackoffOver
  <2>2. UNCHANGED attempt
    BY <1>3 DEF BackoffOver
  <2>3. QED BY <1>1, <2>1, <2>2 DEF Onward
<1>4. CASE Run(c)
  <2>1. Moves(c, "sending") /\ pc[c] = "granted" /\ UNCHANGED attempt
    BY <1>1, <1>4, RunSem DEF Run
  <2>2. QED BY <2>1 DEF Moves, Onward
<1>5. CASE Cancel(c)
  <2>1. Moves(c, "done") /\ UNCHANGED attempt
    BY <1>1, <1>5, CancelSem DEF Cancel
  <2>2. QED BY <2>1 DEF Moves, Onward
<1>6. ASSUME NEW o \in Outcomes, Answer(c, o) PROVE Onward(d)
  <2>1. pc[c] = "sending"
    BY <1>6 DEF Answer
  <2>2. CASE AnswerRetried(c, o)
    <3>1. Moves(c, "backoff")
      BY <1>1, <2>1, <2>2, ReleaseSem DEF AnswerRetried
    <3>2. attempt'[c] = attempt[c] + 1 /\ attempt[c] + 1 < MaxRetries
          /\ \A e \in Calls \ {c} : attempt'[e] = attempt[e]
      BY <1>1, <2>2 DEF AnswerRetried
    <3>3. QED BY <2>1, <3>1, <3>2 DEF Moves, Onward
  <2>3. CASE AnswerFinal(c, o) \/ AnswerGivenUp(c, o)
    <3>1. Moves(c, "done") /\ UNCHANGED attempt
      BY <1>1, <2>1, <2>3, ReleaseSem DEF AnswerFinal, AnswerGivenUp
    <3>2. QED BY <3>1 DEF Moves, Onward
  <2>4. QED BY <1>6, <2>2, <2>3 DEF Answer
<1>7. QED BY <1>2, <1>3, <1>4, <1>5, <1>6 DEF CallStep

\* A call that goes onward has fewer steps before it than it had.
LEMMA OnwardIsNearer ==
    ASSUME IInv, NEW d \in Calls, Onward(d), pc[d] \notin {"idle", "done"}, pc'[d] # pc[d]
    PROVE  Remaining(d)' < Remaining(d)
<1>1. attempt[d] \in 0..MaxRetries - 1 /\ MaxRetries \in Nat /\ pc[d] \in Trying
  BY LimitsAssumption DEF IInv, SemInv, DataTypes, Places, Trying
<1>2. Remaining(d)' = CASE pc'[d] = "backoff" -> 4 * (MaxRetries - attempt'[d])
                        [] pc'[d] = "queued"  -> 4 * (MaxRetries - attempt'[d]) - 1
                        [] pc'[d] = "granted" -> 4 * (MaxRetries - attempt'[d]) - 2
                        [] pc'[d] = "sending" -> 4 * (MaxRetries - attempt'[d]) - 3
                        [] OTHER -> 0
  BY DEF Remaining
<1>3. CASE pc'[d] = "done"
  BY <1>1, <1>2, <1>3 DEF Remaining, Trying
<1>4. CASE pc[d] = "backoff" /\ pc'[d] \in {"queued", "sending"} /\ attempt'[d] = attempt[d]
  BY <1>1, <1>2, <1>4 DEF Remaining
<1>5. CASE pc[d] = "queued" /\ pc'[d] = "granted" /\ attempt'[d] = attempt[d]
  BY <1>1, <1>2, <1>5 DEF Remaining
<1>6. CASE pc[d] = "granted" /\ pc'[d] = "sending" /\ attempt'[d] = attempt[d]
  BY <1>1, <1>2, <1>6 DEF Remaining
<1>7. CASE pc[d] = "sending" /\ pc'[d] = "backoff" /\ attempt'[d] = attempt[d] + 1
  BY <1>1, <1>2, <1>7 DEF Remaining
<1>8. QED BY <1>1, <1>3, <1>4, <1>5, <1>6, <1>7 DEF Onward

\* A call takes at most four steps to an attempt, its own and those of others that hand
\* it a permit: with the fairness of the event loop this is why it ends.
THEOREM GetGoesForward == Spec => GoesForward
<1>1. IInv /\ [Next]_vars =>
         [\A c \in Calls : pc[c] \notin {"idle", "done"} /\ pc'[c] # pc[c] =>
             Remaining(c)' < Remaining(c)]_vars
  BY StepsOnward, OnwardIsNearer DEF Next
<1>2. QED BY <1>1, GetInvariant, PTL DEF Spec, GoesForward
-----------------------------------------------------------------------------
\* What handing over does to the queue: it drops the first k, and they get the permits.
LEMMA HandOverQueue ==
    ASSUME NEW n \in Nat, NEW free, NEW waiting \in Seq(Calls), NEW places \in [Calls -> Places],
           HandOver(n, free, waiting, places)
    PROVE  \E k \in 0..Len(waiting) :
              /\ queue' \in Seq(Calls) /\ Len(queue') = Len(waiting) - k
              /\ \A i \in 1..Len(waiting) - k : queue'[i] = waiting[k + i]
              /\ \A d \in Calls : pc'[d] = places[d] \/ \E i \in 1..k : waiting[i] = d
<1> DEFINE k == IF n < Len(waiting) THEN n ELSE Len(waiting)
<1>1. Len(waiting) \in Nat /\ k \in 0..Len(waiting)
  BY LenProperties
<1>2. /\ queue' = SubSeq(waiting, k + 1, Len(waiting))
      /\ pc' = [c \in Calls |-> IF \E i \in 1..k : waiting[i] = c THEN "granted" ELSE places[c]]
  BY DEF HandOver
<1> HIDE DEF k
<1>3. /\ queue' \in Seq(Calls) /\ Len(queue') = Len(waiting) - k
      /\ \A i \in 1..Len(waiting) - k : queue'[i] = waiting[k + i]
  <2>1. \A i \in k + 1..Len(waiting) : waiting[i] \in Calls
    BY <1>1, ElementOfSeq
  <2>2. /\ SubSeq(waiting, k + 1, Len(waiting)) \in Seq(Calls)
        /\ Len(SubSeq(waiting, k + 1, Len(waiting)))
             = IF k + 1 <= Len(waiting) THEN Len(waiting) - (k + 1) + 1 ELSE 0
        /\ \A i \in 1..Len(waiting) - (k + 1) + 1 :
              SubSeq(waiting, k + 1, Len(waiting))[i] = waiting[(k + 1) + i - 1]
    BY <1>1, <2>1, SubSeqProperties
  <2>3. QED BY <1>1, <1>2, <2>2
<1>4. \A d \in Calls : pc'[d] = places[d] \/ \E i \in 1..k : waiting[i] = d
  BY <1>2
<1>5. QED BY <1>1, <1>3, <1>4

\* Handing over from a list in the order of the queue: who gets a permit, and who is still
\* before a call that waits on, was before it.
LEMMA HandOverInOrder ==
    ASSUME NEW n \in Nat, NEW free, NEW waiting \in Seq(Calls), NEW places \in [Calls -> Places],
           HandOver(n, free, waiting, places), InOrder(waiting), SemInv',
           \A d \in Calls : places[d] \in {"granted", "sending"} => d \in Holders,
           NEW e \in Calls, pc'[e] = "queued"
    PROVE  Holders' \ Holders \subseteq Ahead(e) /\ Ahead(e)' \subseteq Ahead(e)
<1>1. PICK k \in 0..Len(waiting) :
         /\ queue' \in Seq(Calls) /\ Len(queue') = Len(waiting) - k
         /\ \A i \in 1..Len(waiting) - k : queue'[i] = waiting[k + i]
         /\ \A d \in Calls : pc'[d] = places[d] \/ \E i \in 1..k : waiting[i] = d
  BY HandOverQueue
<1>2. Len(waiting) \in Nat /\ k \in Nat
  BY LenProperties
<1>3. PICK j \in 1..Len(queue') : queue'[j] = e
  BY DEF SemInv, QueueLists
<1>4. k + j \in 1..Len(waiting) /\ waiting[k + j] = e
  BY <1>1, <1>2, <1>3
<1>5. ASSUME NEW d \in Holders' \ Holders PROVE d \in Ahead(e)
  <2>1. d \in Calls /\ pc'[d] \in {"granted", "sending"}
    BY DEF Holders, At
  <2>2. PICK i \in 1..k : waiting[i] = d
    BY <1>1, <2>1
  <2>3. i \in 1..Len(waiting) /\ i < k + j
    BY <1>2, <1>3, <1>4
  <2>4. QED BY <1>4, <2>2, <2>3 DEF InOrder
<1>6. ASSUME NEW d \in Ahead(e)' PROVE d \in Ahead(e)
  <2>1. PICK a, b \in 1..Len(queue') : a < b /\ queue'[a] = d /\ queue'[b] = e
    BY DEF Ahead
  <2>2. /\ k + a \in 1..Len(waiting) /\ k + b \in 1..Len(waiting) /\ k + a < k + b
        /\ waiting[k + a] = d /\ waiting[k + b] = e
    <3>1. a \in 1..Len(waiting) - k /\ b \in 1..Len(waiting) - k
      BY <1>1
    <3>2. k + a \in 1..Len(waiting) /\ k + b \in 1..Len(waiting) /\ k + a < k + b
      BY <1>2, <2>1, <3>1
    <3>3. QED BY <1>1, <2>1, <3>1, <3>2
  <2>3. QED BY <2>2 DEF InOrder
<1>7. QED BY <1>5, <1>6

\* Asking for the semaphore: with somebody waiting, the call goes to the back.
LEMMA AcquireInOrder ==
    ASSUME SemInv, NEW c \in Calls, pc[c] \in {"idle", "done", "backoff"}, Acquire(c),
           NEW e \in At("queued")
    PROVE  Holders' \ Holders \subseteq Ahead(e) /\ Ahead(e)' \subseteq Ahead(e)
<1>1. queue \in Seq(Calls) /\ Len(queue) \in Nat /\ pc \in [Calls -> Places]
      /\ \A i \in 1..Len(queue) : queue[i] \in Calls /\ pc[queue[i]] = "queued"
  BY LenProperties, ElementOfSeq DEF SemInv, QueueLists
<1>2. PICK i \in 1..Len(queue) : queue[i] = e
  BY DEF SemInv, QueueLists, At
<1>3. queue # <<>>
  BY <1>1, <1>2
<1>4. queue' = Append(queue, c) /\ pc' = [pc EXCEPT ![c] = "queued"]
  BY <1>3 DEF Acquire, Locked
<1>5. /\ Len(queue') = Len(queue) + 1 /\ queue'[Len(queue) + 1] = c
      /\ \A j \in 1..Len(queue) : queue'[j] = queue[j]
  BY <1>1, <1>4, AppendProperties
<1>6. Holders' \ Holders = {}
  BY <1>1, <1>4 DEF Holders, At
<1>7. ASSUME NEW d \in Ahead(e)' PROVE d \in Ahead(e)
  <2>1. PICK a, b \in 1..Len(queue') : a < b /\ queue'[a] = d /\ queue'[b] = e
    BY DEF Ahead
  <2>2. e # c
    BY DEF At
  <2>3. b \in 1..Len(queue) /\ a \in 1..Len(queue)
    BY <1>1, <1>5, <2>1, <2>2
  <2>4. QED BY <1>1, <1>5, <2>1, <2>3 DEF Ahead
<1>8. QED BY <1>6, <1>7

\* The queue is in its own order.
LEMMA QueueInOrder == ASSUME SemInv PROVE InOrder(queue)
<1>1. queue \in Seq(Calls) /\ \A i \in 1..Len(queue) : queue[i] \in Calls
  BY ElementOfSeq DEF SemInv, QueueLists
<1>2. QED BY <1>1 DEF InOrder, Ahead

\* One case per action: a permit that comes free goes to the front of the queue.
LEMMA StepsInOrder ==
    ASSUME IInv, IInv', NEW c \in Calls, CallStep(c), NEW e \in At("queued"), pc'[e] = "queued"
    PROVE  Holders' \ Holders \subseteq Ahead(e) /\ Ahead(e)' \subseteq Ahead(e)
<1>1. /\ SemInv /\ SemInv' /\ e \in Calls /\ pc \in [Calls -> Places] /\ queue \in Seq(Calls)
      /\ permits \in Nat /\ InOrder(queue)
  <2>1. SemInv /\ SemInv' /\ e \in Calls
    BY DEF IInv, At
  <2>2. pc \in [Calls -> Places] /\ queue \in Seq(Calls) /\ permits \in 0..MaxConcurrency
    BY <2>1 DEF SemInv, QueueLists
  <2>3. QED BY <2>1, <2>2, QueueInOrder, LimitsAssumption
<1>2. ASSUME NEW p \in {"done", "backoff"}, pc[c] = "sending", Release(c, p)
      PROVE  Holders' \ Holders \subseteq Ahead(e) /\ Ahead(e)' \subseteq Ahead(e)
  <2> DEFINE places == [pc EXCEPT ![c] = p]
  <2>1. places \in [Calls -> Places]
    BY <1>1 DEF Places
  <2>2. \A d \in Calls : places[d] \in {"granted", "sending"} => d \in Holders
    BY <1>1 DEF Holders, At
  <2>3. HandOver(1, permits + 1, queue, places)
    BY <1>2 DEF Release
  <2> HIDE DEF places
  <2>4. QED BY <1>1, <2>1, <2>2, <2>3, HandOverInOrder
<1>3. CASE Begin(c)
  BY <1>1, <1>3, AcquireInOrder DEF Begin
<1>4. CASE BackoffOver(c)
  BY <1>1, <1>4, AcquireInOrder DEF BackoffOver
<1>5. CASE Run(c)
  <2> DEFINE places == [pc EXCEPT ![c] = "sending"]
  <2>1. places \in [Calls -> Places] /\ pc[c] = "granted"
    BY <1>1, <1>5 DEF Places, Run
  <2>2. \A d \in Calls : places[d] \in {"granted", "sending"} => d \in Holders
    BY <1>1, <2>1 DEF Holders, At
  <2>3. HandOver(permits, permits, queue, places)
    BY <1>5 DEF Run
  <2> HIDE DEF places
  <2>4. QED BY <1>1, <2>1, <2>2, <2>3, HandOverInOrder
<1>6. CASE Cancel(c)
  <2> DEFINE places == [pc EXCEPT ![c] = "done"]
  <2>1. places \in [Calls -> Places]
    BY <1>1 DEF Places
  <2>2. \A d \in Calls : places[d] \in {"granted", "sending"} => d \in Holders
    BY <1>1 DEF Holders, At
  <2>3. CASE pc[c] = "backoff" /\ pc' = places /\ UNCHANGED semaphore
    <3>1. Holders' \ Holders = {}
      BY <1>1, <2>3 DEF Holders, At
    <3>2. Ahead(e)' = Ahead(e)
      BY <2>3 DEF Ahead, semaphore
    <3>3. QED BY <3>1, <3>2
  <2>4. CASE pc[c] = "queued" /\ HandOver(permits, permits, Left(c), places)
    <3>1. Left(c) \in Seq(Calls) /\ InOrder(Left(c))
      BY <1>1, <2>4, LeavingQueue DEF QueueLists
    <3> HIDE DEF places
    <3>2. QED BY <1>1, <2>1, <2>2, <2>4, <3>1, HandOverInOrder
  <2>5. CASE pc[c] = "granted" /\ HandOver(permits + 1, permits + 1, queue, places)
    <3>1. permits + 1 \in Nat
      BY <1>1
    <3> HIDE DEF places
    <3>2. QED BY <1>1, <2>1, <2>2, <2>5, <3>1, HandOverInOrder
  <2>6. CASE pc[c] = "sending" /\ Release(c, "done")
    BY <1>2, <2>6
  <2>7. QED BY <1>6, <2>3, <2>4, <2>5, <2>6 DEF Cancel
<1>7. ASSUME NEW o \in Outcomes, Answer(c, o)
      PROVE  Holders' \ Holders \subseteq Ahead(e) /\ Ahead(e)' \subseteq Ahead(e)
  BY <1>2, <1>7 DEF Answer, AnswerFinal, AnswerRetried, AnswerGivenUp
<1>8. QED BY <1>3, <1>4, <1>5, <1>6, <1>7 DEF CallStep

\* The semaphore is first come, first served: retries go to the back, and a cancelled
\* waiter leaves the others in their order.
THEOREM GetNoOvertaking == Spec => NoOvertaking
<1>1. IInv /\ IInv' /\ [Next]_vars =>
         [\A c \in At("queued") : pc'[c] = "queued" =>
             Holders' \ Holders \subseteq Ahead(c) /\ Ahead(c)' \subseteq Ahead(c)]_vars
  BY StepsInOrder DEF Next
<1>2. QED BY <1>1, GetInvariant, PTL DEF Spec, NoOvertaking
=============================================================================
