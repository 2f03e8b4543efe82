------------------------- MODULE CachedFetchProofs -------------------------
(***************************************************************************)
(* TLAPS proofs about CachedFetch, for any keys, ttls, reports and number  *)
(* of callers: what is read is not older than its ttl and one request, a   *)
(* well that was found is answered, "not found" is said only of what was   *)
(* not there, and a report has a bounded number of steps.                  *)
(***************************************************************************)
EXTENDS CachedFetch, SequenceTheorems, TLAPS

\* The nth answer for k was still given at time t, or after it.
GivenSince(k, n, t) ==
    n \in 1..Current(k) /\ (n < Current(k) => t <= since[k][n + 1])

\* A search has had empty answers for the keys it has behind it.
Behind(r) == Len(r.report.keys) - Len(r.plan)
EmptySoFar(r) ==
    /\ Len(r.plan) <= Len(r.report.keys)
    /\ \A i \in DOMAIN r.plan : r.plan[i] = r.report.keys[Behind(r) + i]
    /\ \A i \in 1..Behind(r) :
          \E n \in 1..Current(r.report.keys[i]) : <<r.report.keys[i], n>> \in Empty

CallInv(r) ==
    /\ r.at = "idle" <=> r.plan = <<>>
    /\ r.at = "idle" <=> r.report = None
    /\ r.at \in {"asked", "served"} => r.asked <= clock /\ clock <= r.asked + Patience
    /\ r.at = "served" => GivenSince(Head(r.plan), r.version, r.asked)
    /\ r.at # "idle" /\ r.report.rule = "first" /\ r.result = "none" => EmptySoFar(r)

\* An entry goes before the answer in it has been replaced for longer than a request and
\* its ttl.
EntryInv(k, e) ==
    /\ e.version <= Current(k)
    /\ e.expires <= clock + TTL[k]
    /\ e.version < Current(k) => e.expires <= since[k][e.version + 1] + Patience + TTL[k]

SinceInv(k) == Current(k) \in Versions /\ since[k] \in [1..Current(k) -> 0..clock]

IInv == /\ clock \in Times
        /\ DOMAIN since = Keys
        /\ \A k \in Keys : SinceInv(k)
        /\ cache \in [Keys -> Entry \cup {None}]
        /\ \A k \in Keys : cache[k] # None => EntryInv(k, cache[k])
        /\ call \in [Callers -> Call]
        /\ \A c \in Callers : CallInv(call[c])

LEMMA InvTypes == IInv => TypeOK
BY DEF IInv, TypeOK, SinceInv, CallInv

\* The key a call is at, and its report.
LEMMA AtWork ==
    ASSUME IInv, NEW c \in Callers, call[c].at # "idle"
    PROVE  /\ call[c] \in Call /\ CallInv(call[c])
           /\ call[c].plan \in Seq(Keys) /\ call[c].plan # <<>> /\ Key(c) \in Keys
           /\ Tail(call[c].plan) \in Seq(Keys)
           /\ call[c].report \in Report
           /\ call[c].report.layers \in Seq(Keys)
<1>1. call[c] \in Call /\ CallInv(call[c])
  BY DEF IInv
<1>2. call[c].plan \in Seq(Keys) /\ call[c].plan # <<>>
  BY <1>1 DEF Call, CallInv
<1>3. Head(call[c].plan) \in Keys /\ Tail(call[c].plan) \in Seq(Keys)
  BY <1>2
<1>4. call[c].report \in Report
  BY <1>1, ReportsAssumption DEF Call, CallInv
<1>5. QED BY <1>1, <1>2, <1>3, <1>4 DEF Key, Report

\* A step of one call keeps the invariant if it does so for this call and the cache.
LEMMA OneCall ==
    ASSUME IInv, NEW c \in Callers, NEW r \in Call, call' = [call EXCEPT ![c] = r],
           UNCHANGED <<clock, since>>, CallInv(r),
           cache' \in [Keys -> Entry \cup {None}],
           \A k \in Keys : cache'[k] # None => EntryInv(k, cache'[k])
    PROVE  IInv'
<1>1. call' \in [Callers -> Call] /\ \A d \in Callers : CallInv(call'[d])
  BY DEF IInv
<1>2. \A d \in Callers : CallInv(call[d])'
  BY <1>1 DEF CallInv, GivenSince, EmptySoFar, Behind, Current
<1>3. \A k \in Keys : cache'[k] # None => EntryInv(k, cache[k])'
  BY DEF EntryInv, Current
<1>4. \A k \in Keys : SinceInv(k)'
  BY DEF IInv, SinceInv, Current
<1>5. QED BY <1>1, <1>2, <1>3, <1>4 DEF IInv

\* What turning to the next key makes of a call.
Turned(c, answer) ==
    [call[c] EXCEPT !.at = AtNextKey(c, answer), !.plan = Ahead(c, answer),
                    !.report = IF Ahead(c, answer) = <<>> THEN None ELSE @,
                    !.result = Result(c, answer), !.asked = 0, !.version = 0]

LEMMA TurnedInv ==
    ASSUME IInv, NEW c \in Callers, call[c].at # "idle",
           NEW answer \in {"record", "nothing", "failed"},
           answer = "nothing" /\ call[c].report.rule = "first" =>
              \E n \in 1..Current(Key(c)) : <<Key(c), n>> \in Empty
    PROVE  Turned(c, answer) \in Call /\ CallInv(Turned(c, answer))
<1> DEFINE r == call[c]
           t == Turned(c, answer)
<1>1. r \in Call /\ CallInv(r) /\ r.plan \in Seq(Keys) /\ r.plan # <<>>
      /\ Tail(r.plan) \in Seq(Keys) /\ r.report \in Report /\ r.report.layers \in Seq(Keys)
  BY AtWork
<1>2. Ahead(c, answer) \in Seq(Keys)
  BY <1>1 DEF Ahead
<1>3. Result(c, answer) \in Results
  BY <1>1 DEF Result, Call, Results
<1>4. AtNextKey(c, answer) \in {"idle", "lookup"}
      /\ (AtNextKey(c, answer) = "idle" <=> Ahead(c, answer) = <<>>)
  BY DEF AtNextKey
<1>5. /\ t.at = AtNextKey(c, answer) /\ t.plan = Ahead(c, answer)
      /\ t.report = (IF Ahead(c, answer) = <<>> THEN None ELSE r.report)
      /\ t.result = Result(c, answer) /\ t.asked = 0 /\ t.version = 0
  BY <1>1 DEF Turned, Call
<1>6. 0 \in Times
  BY TimeAssumption DEF Times
<1>7. t \in Call
  <2>1. t.report \in Reports \cup {None}
    BY <1>1, <1>5 DEF Call
  <2>2. AtNextKey(c, answer) \in {"idle", "lookup", "asked", "served"}
    BY <1>4
  <2>3. QED BY <1>1, <1>2, <1>3, <1>5, <1>6, <2>1, <2>2 DEF Turned, Call
<1>8. ASSUME t.at # "idle", t.report.rule = "first", t.result = "none"
      PROVE  EmptySoFar(t)
  <2>1. t.report = r.report /\ t.plan # <<>>
    BY <1>4, <1>5, <1>8
  <2>2. r.report.rule = "first" /\ r.result = "none"
    BY <2>1, <1>5, <1>8 DEF Result, Searching
  <2>3. answer = "nothing" /\ t.plan = Tail(r.plan)
    BY <2>2, <1>5, <1>8 DEF Result, Searching, Ahead
  <2>4. EmptySoFar(r)
    BY <1>1, <2>2 DEF CallInv
  <2>5. \E n \in 1..Current(Head(r.plan)) : <<Head(r.plan), n>> \in Empty
    BY <2>2, <2>3 DEF Key
  <2>6. r.report.keys \in Seq(Keys)
    BY <1>1 DEF Report
  <2> HIDE DEF t, r
  <2>7. /\ Len(r.plan) \in Nat /\ Len(r.plan) > 0 /\ Len(t.plan) = Len(r.plan) - 1
        /\ \A i \in DOMAIN t.plan : i \in 1..Len(t.plan) /\ t.plan[i] = r.plan[i + 1]
        /\ DOMAIN r.plan = 1..Len(r.plan) /\ Head(r.plan) = r.plan[1]
    <3>1. /\ Len(r.plan) \in Nat \ {0} /\ DOMAIN r.plan = 1..Len(r.plan)
          /\ Head(r.plan) = r.plan[1]
      BY <1>1, EmptySeq, LenProperties
    <3>2. /\ Len(Tail(r.plan)) = Len(r.plan) - 1
          /\ \A i \in 1..Len(Tail(r.plan)) : Tail(r.plan)[i] = r.plan[i + 1]
      BY <1>1, HeadTailProperties
    <3>3. DOMAIN Tail(r.plan) = 1..Len(Tail(r.plan))
      BY <1>1, LenProperties
    <3>4. QED BY <2>3, <3>1, <3>2, <3>3
  <2>8. Len(r.report.keys) \in Nat
    BY <2>6
  <2>9. Behind(t) = Behind(r) + 1 /\ Behind(r) \in Nat
    BY <2>1, <2>4, <2>7, <2>8 DEF Behind, EmptySoFar
  <2>10. ASSUME NEW i \in DOMAIN t.plan PROVE t.plan[i] = t.report.keys[Behind(t) + i]
    <3>1. i \in 1..Len(t.plan) /\ t.plan[i] = r.plan[i + 1]
      BY <2>7
    <3>2. i + 1 \in DOMAIN r.plan
      BY <2>7, <3>1
    <3>3. r.plan[i + 1] = r.report.keys[Behind(r) + (i + 1)]
      BY <2>4, <3>2 DEF EmptySoFar
    <3>4. Behind(r) + (i + 1) = Behind(t) + i
      BY <2>9, <3>1
    <3>5. QED BY <2>1, <3>1, <3>3, <3>4
  <2>11. Head(r.plan) = r.report.keys[Behind(t)]
    BY <2>4, <2>7, <2>9 DEF EmptySoFar
  <2>12. ASSUME NEW i \in 1..Behind(t)
         PROVE  \E n \in 1..Current(t.report.keys[i]) : <<t.report.keys[i], n>> \in Empty
    <3>1. CASE i = Behind(t)
      BY <3>1, <2>1, <2>5, <2>11
    <3>2. CASE i # Behind(t)
      <4>1. i \in 1..Behind(r)
        BY <3>2, <2>9
      <4>2. QED BY <4>1, <2>1, <2>4 DEF EmptySoFar
    <3>3. QED BY <3>1, <3>2
  <2>13. QED BY <2>1, <2>4, <2>7, <2>10, <2>12 DEF EmptySoFar
<1>9. t.at = "idle" <=> t.report = None
  <2>1. r.report # None
    BY <1>1 DEF CallInv
  <2>2. QED BY <2>1, <1>4, <1>5
<1>10. CallInv(t)
  <2> HIDE DEF t
  <2>1. QED BY <1>4, <1>5, <1>8, <1>9 DEF CallInv
<1>11. QED BY <1>7, <1>10

\* A call that turns to its next key, with the cache as given.
LEMMA TurnToInv ==
    ASSUME IInv, NEW c \in Callers, call[c].at # "idle",
           NEW answer \in {"record", "nothing", "failed"}, TurnTo(c, answer),
           answer = "nothing" /\ call[c].report.rule = "first" =>
              \E n \in 1..Current(Key(c)) : <<Key(c), n>> \in Empty,
           UNCHANGED <<clock, since>>,
           cache' \in [Keys -> Entry \cup {None}],
           \A k \in Keys : cache'[k] # None => EntryInv(k, cache'[k])
    PROVE  IInv'
<1>1. call' = [call EXCEPT ![c] = Turned(c, answer)]
  BY DEF TurnTo, Turned
<1>2. Turned(c, answer) \in Call /\ CallInv(Turned(c, answer))
  BY TurnedInv
<1>3. QED BY <1>1, <1>2, OneCall

LEMMA ObtainInv ==
    ASSUME IInv, NEW c \in Callers, call[c].at # "idle", NEW n \in 1..Current(Key(c)),
           Obtain(c, n), UNCHANGED <<clock, since>>,
           cache' \in [Keys -> Entry \cup {None}],
           \A k \in Keys : cache'[k] # None => EntryInv(k, cache'[k])
    PROVE  IInv'
<1> DEFINE answer == IF <<Key(c), n>> \in Empty THEN "nothing" ELSE "record"
<1>1. answer \in {"record", "nothing", "failed"} /\ TurnTo(c, answer)
  BY DEF Obtain
<1>2. answer = "nothing" => \E v \in 1..Current(Key(c)) : <<Key(c), v>> \in Empty
  OBVIOUS
<1> HIDE DEF answer
<1>3. QED BY <1>1, <1>2, TurnToInv

\* What is cached is an answer the source has given.
LEMMA HitAnswer ==
    ASSUME IInv, NEW c \in Callers, Hit(c)
    PROVE  Key(c) \in Keys /\ cache[Key(c)].version \in 1..Current(Key(c))
<1>1. Key(c) \in Keys
  BY AtWork DEF Hit
<1>2. cache[Key(c)] \in Entry /\ EntryInv(Key(c), cache[Key(c)])
  BY <1>1 DEF Hit, Cached, IInv
<1>3. QED BY <1>1, <1>2 DEF Entry, Versions, EntryInv, IInv, SinceInv

LEMMA HitInv == ASSUME IInv, NEW c \in Callers, Hit(c) PROVE IInv'
<1>1. call[c].at # "idle" /\ Key(c) \in Keys
  BY HitAnswer DEF Hit
<1>2. cache[Key(c)].version \in 1..Current(Key(c))
  BY HitAnswer
<1>3. UNCHANGED <<clock, since, cache>> /\ Obtain(c, cache[Key(c)].version)
  BY DEF Hit
<1>4. cache' \in [Keys -> Entry \cup {None}]
      /\ \A k \in Keys : cache'[k] # None => EntryInv(k, cache'[k])
  BY <1>3 DEF IInv
<1>5. QED BY <1>1, <1>2, <1>3, <1>4, ObtainInv

LEMMA AskInv == ASSUME IInv, NEW c \in Callers, Ask(c) PROVE IInv'
<1> DEFINE r == call[c]
           n == [r EXCEPT !.at = "asked", !.asked = clock]
<1>1. r \in Call /\ CallInv(r) /\ r.at = "lookup"
  BY DEF IInv, Ask
<1>2. n \in Call /\ n.at = "asked" /\ n.asked = clock /\ n.plan = r.plan
      /\ n.report = r.report /\ n.result = r.result
  BY <1>1 DEF IInv, Call
<1>3. CallInv(n)
  <2>1. clock \in Nat /\ Patience \in Nat
    BY TimeAssumption DEF IInv, Times
  <2> HIDE DEF n
  <2>2. EmptySoFar(r) => EmptySoFar(n)
    BY <1>2 DEF EmptySoFar, Behind
  <2>3. QED BY <1>1, <1>2, <2>1, <2>2 DEF CallInv
<1>4. call' = [call EXCEPT ![c] = n] /\ UNCHANGED <<clock, since>>
  BY DEF Ask
<1>5. cache' \in [Keys -> Entry \cup {None}]
      /\ \A k \in Keys : cache'[k] # None => EntryInv(k, cache'[k])
  BY DEF Ask, CacheUnder, IInv
<1> HIDE DEF n
<1>6. QED BY <1>2, <1>3, <1>4, <1>5, OneCall

LEMMA ServeInv == ASSUME IInv, NEW c \in Callers, Serve(c) PROVE IInv'
<1> DEFINE r == call[c]
           n == [r EXCEPT !.at = "served", !.version = Current(Key(c))]
<1>1. r \in Call /\ CallInv(r) /\ r.at = "asked" /\ Key(c) \in Keys
  BY AtWork DEF Serve
<1>2. Current(Key(c)) \in Versions
  BY <1>1 DEF IInv, SinceInv
<1>3. n \in Call /\ n.at = "served" /\ n.version = Current(Key(c)) /\ n.plan = r.plan
      /\ n.asked = r.asked /\ n.report = r.report /\ n.result = r.result
  BY <1>1, <1>2 DEF Call
<1>4. CallInv(n)
  <2> HIDE DEF n
  <2>1. EmptySoFar(r) => EmptySoFar(n)
    BY <1>3 DEF EmptySoFar, Behind
  <2>2. GivenSince(Head(n.plan), n.version, n.asked)
    BY <1>2, <1>3, VersionsAssumption DEF GivenSince, Key, Versions
  <2>3. QED BY <1>1, <1>3, <2>1, <2>2 DEF CallInv
<1>5. call' = [call EXCEPT ![c] = n] /\ UNCHANGED <<clock, since, cache>>
  BY DEF Serve
<1>6. cache' \in [Keys -> Entry \cup {None}]
      /\ \A k \in Keys : cache'[k] # None => EntryInv(k, cache'[k])
  BY <1>5 DEF IInv
<1> HIDE DEF n
<1>7. QED BY <1>3, <1>4, <1>5, <1>6, OneCall

LEMMA ReceiveInv == ASSUME IInv, NEW c \in Callers, Receive(c) PROVE IInv'
<1> DEFINE r == call[c]
           k == Key(c)
           e == [version |-> r.version, expires |-> clock + TTL[k]]
<1>1. r \in Call /\ CallInv(r) /\ r.at = "served" /\ k \in Keys
  BY AtWork DEF Receive
<1>2. r.version \in 1..Current(k) /\ r.asked \in Nat /\ clock <= r.asked + Patience
      /\ (r.version < Current(k) => r.asked <= since[k][r.version + 1])
  BY <1>1, TimeAssumption DEF CallInv, GivenSince, Key, Call, Times
<1>3. clock \in Nat /\ TTL[k] \in Nat /\ Patience \in Nat
      /\ Current(k) \in Versions /\ since[k] \in [1..Current(k) -> 0..clock]
  BY <1>1, TimeAssumption DEF IInv, Times, SinceInv
<1>4. e \in Entry
  BY <1>2, <1>3, VersionsAssumption DEF Entry, Versions
<1>5. EntryInv(k, e)
  <2>1. e.version = r.version /\ e.expires = clock + TTL[k]
    OBVIOUS
  <2>2. ASSUME r.version < Current(k)
        PROVE  e.expires <= since[k][r.version + 1] + Patience + TTL[k]
    <3>1. since[k][r.version + 1] \in Nat
      BY <1>2, <1>3, <2>2 DEF Versions
    <3>2. QED BY <1>2, <1>3, <2>2, <3>1
  <2> HIDE DEF e
  <2>3. QED BY <1>2, <1>3, <2>1, <2>2 DEF EntryInv, Versions
<1>6. cache' = CacheUnder(c, e) /\ Obtain(c, r.version) /\ UNCHANGED <<clock, since>>
  BY DEF Receive
<1> HIDE DEF e
<1>7. cache' \in [Keys -> Entry \cup {None}]
      /\ \A j \in Keys : cache'[j] # None => EntryInv(j, cache'[j])
  BY <1>1, <1>4, <1>5, <1>6 DEF CacheUnder, IInv
<1>8. QED BY <1>1, <1>2, <1>6, <1>7, ObtainInv

LEMMA FailInv == ASSUME IInv, NEW c \in Callers, Fail(c) PROVE IInv'
<1>1. call[c].at # "idle" /\ UNCHANGED <<clock, since, cache>>
  BY DEF Fail
<1>2. cache' \in [Keys -> Entry \cup {None}]
      /\ \A k \in Keys : cache'[k] # None => EntryInv(k, cache'[k])
  BY <1>1 DEF IInv
<1>3. CASE TurnTo(c, "failed")
  BY <1>1, <1>2, <1>3, TurnToInv
<1>4. CASE Direct(c) /\ TurnTo(c, "nothing")
  <2>1. call[c].report.rule # "first"
    BY <1>4 DEF Direct
  <2>2. QED BY <1>1, <1>2, <1>4, <2>1, TurnToInv
<1>5. QED BY <1>3, <1>4 DEF Fail

\* A call at rest, with the result it ended with.
LEMMA AbortInv == ASSUME IInv, NEW c \in Callers, Abort(c) PROVE IInv'
<1> DEFINE n == [call[c] EXCEPT !.at = "idle", !.plan = <<>>, !.report = None,
                                !.result = "none", !.asked = 0, !.version = 0]
<1>1. call[c] \in Call /\ <<>> \in Seq(Keys) /\ 0 \in Times
  BY TimeAssumption, EmptySeq DEF IInv, Times
<1>2. n \in Call /\ n.at = "idle" /\ n.plan = <<>> /\ n.report = None
  BY <1>1 DEF Call, Results
<1>3. CallInv(n)
  <2> HIDE DEF n
  <2>1. QED BY <1>2 DEF CallInv
<1>4. call' = [call EXCEPT ![c] = n] /\ UNCHANGED <<clock, since, cache>>
  BY DEF Abort
<1>5. cache' \in [Keys -> Entry \cup {None}]
      /\ \A k \in Keys : cache'[k] # None => EntryInv(k, cache'[k])
  BY <1>4 DEF IInv
<1> HIDE DEF n
<1>6. QED BY <1>2, <1>3, <1>4, <1>5, OneCall

LEMMA BeginInv ==
    ASSUME IInv, NEW c \in Callers, NEW report \in Reports, Begin(c, report) PROVE IInv'
<1> DEFINE n == [call[c] EXCEPT !.at = "lookup", !.report = report, !.result = "none",
                                !.plan = report.keys]
<1>1. call[c] \in Call /\ report \in Report /\ report.keys \in Seq(Keys)
      /\ report.keys # <<>> /\ report # None
  BY ReportsAssumption DEF IInv, Report
<1>2. n \in Call /\ n.at = "lookup" /\ n.plan = report.keys /\ n.report = report
  BY <1>1 DEF Call, Results
<1>3. EmptySoFar(n)
  <2> HIDE DEF n
  <2>1. Len(report.keys) \in Nat /\ Behind(n) = 0 /\ DOMAIN report.keys = 1..Len(report.keys)
    BY <1>1, <1>2 DEF Behind
  <2>2. QED BY <1>1, <1>2, <2>1 DEF EmptySoFar
<1>4. CallInv(n)
  <2> HIDE DEF n
  <2>1. QED BY <1>1, <1>2, <1>3 DEF CallInv
<1>5. call' = [call EXCEPT ![c] = n] /\ UNCHANGED <<clock, since, cache>>
  BY DEF Begin
<1>6. cache' \in [Keys -> Entry \cup {None}]
      /\ \A k \in Keys : cache'[k] # None => EntryInv(k, cache'[k])
  BY <1>5 DEF IInv
<1> HIDE DEF n
<1>7. QED BY <1>2, <1>4, <1>5, <1>6, OneCall

\* A new answer of the source was not given before now.
LEMMA PublishInv == ASSUME IInv, NEW k \in Keys, Publish(k) PROVE IInv'
<1> DEFINE m == Len(since[k])
<1>1. since[k] \in Seq(0..clock) /\ m \in Nat /\ m >= 1 /\ m < MaxVersions
      /\ since[k] \in [1..m -> 0..clock] /\ clock \in Nat
  <2>1. m \in Versions /\ since[k] \in [1..m -> 0..clock] /\ clock \in Nat
    BY TimeAssumption DEF IInv, SinceInv, Current, Times
  <2>2. m \in Nat /\ m >= 1 /\ m < MaxVersions
    BY <2>1, VersionsAssumption DEF Publish, Current, Versions
  <2>3. since[k] \in Seq(0..clock)
    BY <2>1, <2>2, SeqDef
  <2>4. QED BY <2>1, <2>2, <2>3
<1>2. since'[k] = Append(since[k], clock) /\ DOMAIN since' = Keys
      /\ \A j \in Keys \ {k} : since'[j] = since[j]
  BY DEF Publish, IInv
<1>3. Len(since'[k]) = m + 1 /\ since'[k] \in [1..m + 1 -> 0..clock]
      /\ since'[k][m + 1] = clock /\ \A i \in 1..m : since'[k][i] = since[k][i]
  <2>1. clock \in 0..clock /\ Append(since[k], clock) \in Seq(0..clock)
    BY <1>1
  <2>2. Len(Append(since[k], clock)) = m + 1
        /\ Append(since[k], clock)[m + 1] = clock
        /\ \A i \in 1..m : Append(since[k], clock)[i] = since[k][i]
    BY <1>1, <2>1, AppendProperties
  <2>3. Append(since[k], clock) \in [1..m + 1 -> 0..clock]
    BY <2>1, <2>2, LenProperties
  <2>4. QED BY <1>2, <2>2, <2>3
<1>4. UNCHANGED <<clock, cache, call>>
  BY DEF Publish
<1>5. \A j \in Keys : SinceInv(j)'
  <2>1. SinceInv(k)'
    BY <1>1, <1>3, <1>4, VersionsAssumption DEF SinceInv, Current, Versions
  <2>2. \A j \in Keys \ {k} : SinceInv(j)'
    BY <1>2, <1>4 DEF IInv, SinceInv, Current
  <2>3. QED BY <2>1, <2>2
<1>6. ASSUME NEW j \in Keys, NEW n, NEW t \in Nat, t <= clock, GivenSince(j, n, t)
      PROVE  GivenSince(j, n, t)'
  <2>1. CASE j = k
    <3>1. n \in 1..m /\ (n < m => t <= since[k][n + 1])
      BY <1>6, <2>1 DEF GivenSince, Current
    <3>2. n \in 1..m + 1 /\ (n < m + 1 => t <= since'[k][n + 1])
      <4>1. CASE n < m
        <5>1. n \in Nat /\ n + 1 \in 1..m /\ t <= since[k][n + 1]
          BY <1>1, <3>1, <4>1
        <5>2. since'[k][n + 1] = since[k][n + 1]
          BY <1>3, <5>1
        <5>3. QED BY <1>1, <3>1, <5>1, <5>2
      <4>2. CASE n = m
        BY <1>1, <1>3, <1>6, <4>2
      <4>3. QED BY <1>1, <3>1, <4>1, <4>2
    <3>3. QED BY <1>3, <2>1, <3>2 DEF GivenSince, Current
  <2>2. CASE j # k
    BY <1>2, <1>6, <2>2 DEF GivenSince, Current
  <2>3. QED BY <2>1, <2>2
<1>7. ASSUME NEW j \in Keys, cache[j] # None
      PROVE  EntryInv(j, cache[j])'
  <2>1. EntryInv(j, cache[j]) /\ cache[j] \in Entry
    BY <1>7 DEF IInv
  <2>2. cache[j].version \in Nat /\ cache[j].version >= 1 /\ cache[j].expires \in Nat
        /\ TTL[j] \in Nat /\ Patience \in Nat
    BY <2>1, TimeAssumption DEF Entry, Versions
  <2> DEFINE e == cache[j]
  <2> HIDE DEF e
  <2>3. e.version <= Len(since[j]) /\ e.expires <= clock + TTL[j]
        /\ (e.version < Len(since[j]) => e.expires <= since[j][e.version + 1] + Patience + TTL[j])
    BY <2>1 DEF e, EntryInv, Current
  <2>4. e.version \in Nat /\ e.version >= 1 /\ e.expires \in Nat
    BY <2>2 DEF e
  <2>5. e.version <= Len(since'[j])
        /\ (e.version < Len(since'[j]) =>
                e.expires <= since'[j][e.version + 1] + Patience + TTL[j])
    <3>1. CASE j = k /\ e.version < m
      <4>1. e.version + 1 \in 1..m /\ e.expires <= since[k][e.version + 1] + Patience + TTL[k]
        BY <1>1, <2>3, <2>4, <3>1
      <4>2. since'[k][e.version + 1] = since[k][e.version + 1]
        BY <1>3, <4>1
      <4>3. QED BY <1>1, <1>3, <2>4, <3>1, <4>1, <4>2
    <3>2. CASE j = k /\ e.version = m
      <4>1. since'[k][e.version + 1] = clock /\ Len(since'[k]) = e.version + 1
        BY <1>3, <3>2
      <4>2. e.expires <= clock + Patience + TTL[k]
        BY <1>1, <2>2, <2>3, <2>4, <3>2
      <4>3. QED BY <2>4, <3>2, <4>1, <4>2
    <3>3. CASE j # k
      BY <1>2, <2>3, <3>3
    <3>4. QED BY <1>1, <2>3, <2>4, <3>1, <3>2, <3>3
  <2>6. e' = e
    BY <1>4 DEF e
  <2>7. QED BY <1>4, <2>3, <2>5 DEF e, EntryInv, Current
<1>8. \A j \in Keys : Current(j) <= Current(j)' /\ Current(j) \in Nat /\ Current(j)' \in Nat
  <2>1. Current(k) = m /\ Current(k)' = m + 1
    BY <1>3 DEF Current
  <2>2. \A j \in Keys \ {k} : Current(j) = Current(j)'
    BY <1>2 DEF Current
  <2>3. \A j \in Keys : Current(j) \in Nat
    BY VersionsAssumption DEF IInv, SinceInv, Versions
  <2>4. QED BY <1>1, <2>1, <2>2, <2>3
<1>9. ASSUME NEW c \in Callers PROVE CallInv(call[c])'
  <2> DEFINE r == call[c]
  <2>1. r \in Call /\ CallInv(r) /\ r' = r
    BY <1>4 DEF IInv
  <2>2. r.at = "served" => GivenSince(Head(r.plan), r.version, r.asked)'
    <3>1. SUFFICES ASSUME r.at = "served" PROVE GivenSince(Head(r.plan), r.version, r.asked)'
      OBVIOUS
    <3>2. Head(r.plan) \in Keys /\ r.asked \in Nat /\ r.asked <= clock
          /\ GivenSince(Head(r.plan), r.version, r.asked)
      BY <2>1, <3>1, AtWork DEF CallInv, Key, Call, Times
    <3>3. QED BY <1>6, <3>2, <2>1 DEF GivenSince, Current
  <2>3. ASSUME r.at # "idle", EmptySoFar(r) PROVE EmptySoFar(r)'
    <3>1. r.report.keys \in Seq(Keys)
      BY <2>3, AtWork DEF Report
    <3>2. ASSUME NEW i \in 1..Behind(r)
          PROVE  \E n \in 1..(Current(r.report.keys[i])') : <<r.report.keys[i], n>> \in Empty
      <4>1. i \in 1..Len(r.report.keys)
        <5>1. r.plan \in Seq(Keys)
          BY <2>1 DEF Call
        <5>2. Len(r.plan) \in Nat /\ Len(r.report.keys) \in Nat
          BY <3>1, <5>1, LenProperties
        <5>3. Behind(r) = Len(r.report.keys) - Len(r.plan)
          BY DEF Behind
        <5> HIDE DEF r
        <5>4. QED BY <5>2, <5>3
      <4>2. r.report.keys[i] \in Keys
        BY <3>1, <4>1
      <4>3. PICK n \in 1..Current(r.report.keys[i]) : <<r.report.keys[i], n>> \in Empty
        BY <2>3 DEF EmptySoFar
      <4>4. n \in 1..(Current(r.report.keys[i])')
        <5>1. Current(r.report.keys[i]) <= Current(r.report.keys[i])'
              /\ Current(r.report.keys[i]) \in Nat /\ Current(r.report.keys[i])' \in Nat
          BY <1>8, <2>1, <4>2
        <5>2. QED BY <4>3, <5>1
      <4>5. QED BY <4>3, <4>4
    <3>3. QED BY <2>1, <2>3, <3>2 DEF EmptySoFar, Behind
  <2>4. QED BY <1>4, <2>1, <2>2, <2>3 DEF CallInv
<1>10. QED BY <1>2, <1>4, <1>5, <1>7, <1>9 DEF IInv

LEMMA ForgetInv == ASSUME IInv, NEW k \in Keys, Forget(k) PROVE IInv'
<1>1. UNCHANGED <<clock, since, call>> /\ cache' = [cache EXCEPT ![k] = None]
  BY DEF Forget
<1>2. \A c \in Callers : CallInv(call[c])'
  BY <1>1 DEF IInv, CallInv, GivenSince, EmptySoFar, Behind, Current
<1>3. \A j \in Keys : cache'[j] # None => EntryInv(j, cache[j])'
  BY <1>1 DEF IInv, EntryInv, Current
<1>4. \A j \in Keys : SinceInv(j)'
  BY <1>1 DEF IInv, SinceInv, Current
<1>5. QED BY <1>1, <1>2, <1>3, <1>4 DEF IInv

\* Time passes, though not beyond the patience of a request.
LEMMA TickInv == ASSUME IInv, Tick PROVE IInv'
<1>1. UNCHANGED <<since, cache, call>> /\ clock' = clock + 1 /\ clock \in Nat /\ clock' \in Times
  BY TimeAssumption DEF Tick, IInv, Times
<1>2. ASSUME NEW c \in Callers PROVE CallInv(call[c])'
  <2>1. call[c] \in Call /\ CallInv(call[c])
    BY DEF IInv
  <2>2. call[c].asked \in Nat /\ Patience \in Nat
    BY <2>1, TimeAssumption DEF Call, Times
  <2>3. call[c].at \in {"asked", "served"} => clock < call[c].asked + Patience
    BY DEF Tick
  <2>4. QED BY <1>1, <2>1, <2>2, <2>3 DEF CallInv, GivenSince, EmptySoFar, Behind, Current
<1>3. ASSUME NEW k \in Keys, cache[k] # None PROVE EntryInv(k, cache[k])'
  <2>1. cache[k] \in Entry /\ EntryInv(k, cache[k]) /\ TTL[k] \in Nat
    BY <1>3, TimeAssumption DEF IInv
  <2>2. QED BY <1>1, <2>1 DEF EntryInv, Entry, Current
<1>4. \A k \in Keys : SinceInv(k)'
  BY <1>1 DEF IInv, SinceInv, Current
<1>5. QED BY <1>1, <1>2, <1>3, <1>4 DEF IInv

LEMMA Initial == Init => IInv
<1> SUFFICES ASSUME Init PROVE IInv
  OBVIOUS
<1>1. clock = 0 /\ 0 \in Times
  BY TimeAssumption DEF Init, Times
<1>2. \A k \in Keys : since[k] = <<0>> /\ cache[k] = None
  BY DEF Init
<1>3. \A k \in Keys : SinceInv(k)
  <2>1. Len(<<0>>) = 1 /\ <<0>> \in [1..1 -> 0..0] /\ 1 \in Versions
    BY VersionsAssumption DEF Versions
  <2>2. QED BY <1>1, <1>2, <2>1 DEF SinceInv, Current
<1>4. \A c \in Callers : call[c] \in Call /\ CallInv(call[c])
  BY <1>1 DEF Init, Call, CallInv, Results
<1>5. QED BY <1>1, <1>2, <1>3, <1>4 DEF Init, IInv

\* The inductive step: one case per action.
LEMMA Inductive == IInv /\ [Next]_vars => IInv'
<1> SUFFICES ASSUME IInv, [Next]_vars PROVE IInv'
  OBVIOUS
<1>1. CASE UNCHANGED vars
  BY <1>1 DEF vars, IInv, SinceInv, EntryInv, CallInv, GivenSince, EmptySoFar, Behind, Current
<1>2. QED
  BY <1>1, HitInv, AskInv, ServeInv, ReceiveInv, FailInv, AbortInv, BeginInv, PublishInv,
     ForgetInv, TickInv DEF Next, Work

\* In every reachable state an answer, cached or on its way, was given not longer ago
\* than its deadline and the patience of a request allow.
THEOREM FetchInvariant == Spec => []IInv
BY Initial, Inductive, PTL DEF Spec

\* Types, and a call is idle exactly when it has nothing left to read.
THEOREM FetchTypes == Spec => []TypeOK
BY FetchInvariant, InvTypes, PTL

\* What a tool reads of a key is never older than its ttl and one request.
THEOREM FetchFreshEnough == Spec => FreshEnough
<1> DEFINE A == \A c \in Callers : (Hit(c) => ~Outdated(Key(c), cache[Key(c)].version))
                                   /\ (Receive(c) => ~Outdated(Key(c), call[c].version))
<1>1. ASSUME IInv, NEW c \in Callers, Hit(c)
      PROVE  ~Outdated(Key(c), cache[Key(c)].version)
  <2> DEFINE k == Key(c)
             e == cache[k]
  <2>1. k \in Keys
    BY <1>1, AtWork DEF Hit
  <2>2. e \in Entry /\ EntryInv(k, e) /\ clock < e.expires
    BY <1>1, <2>1 DEF Hit, Cached, IInv
  <2>3. clock \in Nat /\ Patience \in Nat /\ TTL[k] \in Nat
        /\ Current(k) \in Versions /\ since[k] \in [1..Current(k) -> 0..clock]
    BY <1>1, <2>1, TimeAssumption DEF IInv, Times, SinceInv
  <2>4. e.version \in Nat /\ e.expires \in Nat
    BY <2>2 DEF Entry, Versions
  <2>5. e.version < Current(k) => since[k][e.version + 1] \in Nat
    BY <2>3, <2>4 DEF Versions
  <2> HIDE DEF k, e
  <2>6. ~Outdated(k, e.version)
    BY <2>2, <2>3, <2>4, <2>5 DEF Outdated, EntryInv
  <2>7. QED BY <2>6 DEF k, e
<1>2. ASSUME IInv, NEW c \in Callers, Receive(c)
      PROVE  ~Outdated(Key(c), call[c].version)
  <2> DEFINE k == Key(c)
             r == call[c]
  <2>1. k \in Keys /\ r \in Call /\ CallInv(r) /\ r.at = "served"
    BY <1>2, AtWork DEF Receive
  <2>2. r.asked \in Nat /\ clock <= r.asked + Patience
        /\ r.version \in 1..Current(k)
        /\ (r.version < Current(k) => r.asked <= since[k][r.version + 1])
    BY <2>1, TimeAssumption DEF CallInv, GivenSince, Key, Call, Times
  <2>3. clock \in Nat /\ Patience \in Nat
        /\ Current(k) \in Versions /\ since[k] \in [1..Current(k) -> 0..clock]
    BY <1>2, <2>1, TimeAssumption DEF IInv, Times, SinceInv
  <2>4. r.version < Current(k) => since[k][r.version + 1] \in Nat
    BY <2>2, <2>3 DEF Versions
  <2> HIDE DEF k, r
  <2>5. ~Outdated(k, r.version)
    BY <2>2, <2>3, <2>4 DEF Outdated
  <2>6. QED BY <2>5 DEF k, r
<1>3. IInv => A
  BY <1>1, <1>2
<1> HIDE DEF A
<1>4. IInv /\ [Next]_vars => [A]_vars
  BY <1>3
<1>5. Spec => [][A]_vars
  BY <1>4, FetchInvariant, PTL DEF Spec
<1>6. QED BY <1>5 DEF A, FreshEnough

\* A call changes by steps of its own only.
LEMMA OwnSteps ==
    ASSUME IInv, [Next]_vars, NEW c \in Callers
    PROVE  call'[c] = call[c] \/ Work(c) \/ \E report \in Reports : Begin(c, report)
<1>1. ASSUME NEW d \in Callers, d # c, Work(d) PROVE call'[c] = call[c]
  BY <1>1 DEF Work, Hit, Ask, Serve, Receive, Fail, Abort, Obtain, TurnTo, IInv
<1>2. ASSUME NEW d \in Callers, d # c, NEW report \in Reports, Begin(d, report)
      PROVE  call'[c] = call[c]
  BY <1>2 DEF Begin, IInv
<1>3. QED BY <1>1, <1>2 DEF Next, vars, Publish, Forget, Tick

\* The steps that change a result: an answer, a failure, an abort, a new report.
LEMMA ResultSteps ==
    ASSUME IInv, NEW c \in Callers, Work(c)
    PROVE  \/ call'[c].result = call[c].result
           \/ Abort(c) /\ call'[c].result = "none"
           \/ \E answer \in {"record", "nothing", "failed"} :
                 /\ call[c].at # "idle"
                 /\ call'[c].result = Result(c, answer)
                 /\ answer = "nothing" /\ call[c].report.rule = "first" =>
                       \E n \in 1..Current(Key(c)) : <<Key(c), n>> \in Empty
<1>1. call[c] \in Call
  BY DEF IInv
<1>2. \A answer : TurnTo(c, answer) => call'[c].result = Result(c, answer)
  BY <1>1 DEF TurnTo, IInv, Call
<1>3. ASSUME NEW n \in 1..Current(Key(c)), Obtain(c, n), call[c].at # "idle"
      PROVE  \E answer \in {"record", "nothing", "failed"} :
                 /\ call[c].at # "idle"
                 /\ call'[c].result = Result(c, answer)
                 /\ answer = "nothing" /\ call[c].report.rule = "first" =>
                       \E v \in 1..Current(Key(c)) : <<Key(c), v>> \in Empty
  <2>1. CASE <<Key(c), n>> \in Empty
    BY <1>2, <1>3, <2>1 DEF Obtain
  <2>2. CASE <<Key(c), n>> \notin Empty
    BY <1>2, <1>3, <2>2 DEF Obtain
  <2>3. QED BY <2>1, <2>2
<1>4. CASE Hit(c)
  <2>1. call[c].at # "idle" /\ Obtain(c, cache[Key(c)].version)
        /\ cache[Key(c)].version \in 1..Current(Key(c))
    BY <1>4, HitAnswer DEF Hit
  <2>2. QED BY <2>1, <1>3
<1>5. CASE Receive(c)
  <2>1. call[c].at # "idle" /\ Obtain(c, call[c].version)
        /\ call[c].version \in 1..Current(Key(c))
    BY <1>5 DEF Receive, IInv, CallInv, GivenSince, Key
  <2>2. QED BY <2>1, <1>3
<1>6. CASE Fail(c)
  <2>1. CASE TurnTo(c, "failed")
    BY <1>2, <1>6, <2>1 DEF Fail
  <2>2. CASE Direct(c) /\ TurnTo(c, "nothing")
    <3>1. call[c].report.rule # "first"
      BY <2>2 DEF Direct
    <3>2. QED BY <1>2, <1>6, <2>2, <3>1 DEF Fail
  <2>3. QED BY <1>6, <2>1, <2>2 DEF Fail
<1>7. CASE Abort(c)
  BY <1>1, <1>7 DEF Abort, IInv, Call
<1>8. CASE Ask(c) \/ Serve(c)
  BY <1>1, <1>8 DEF Ask, Serve, IInv, Call
<1>9. QED BY <1>4, <1>5, <1>6, <1>7, <1>8 DEF Work

\* A search that gives up with "not found" has the last key before it and nothing under
\* the others.
LEMMA GivingUp ==
    ASSUME IInv, NEW c \in Callers, call[c].at # "idle", call[c].report.rule = "first",
           NEW answer \in {"record", "nothing", "failed"},
           Result(c, answer) = "not_found", call[c].result # "not_found",
           answer = "nothing" =>
              \E n \in 1..Current(Key(c)) : <<Key(c), n>> \in Empty
    PROVE  \A i \in DOMAIN call[c].report.keys :
              \E n \in 1..Current(call[c].report.keys[i]) : <<call[c].report.keys[i], n>> \in Empty
<1> DEFINE r == call[c]
<1>1. r.result = "none" /\ answer = "nothing" /\ Tail(r.plan) = <<>>
  BY DEF Result, Searching
<1>2. EmptySoFar(r) /\ r.plan \in Seq(Keys) /\ r.plan # <<>> /\ r.report.keys \in Seq(Keys)
  BY <1>1, AtWork DEF CallInv, Report
<1>3. Len(r.plan) = 1 /\ r.plan[1] = Key(c) /\ 1 \in DOMAIN r.plan
  <2> HIDE DEF r
  <2>1. Len(Tail(r.plan)) = Len(r.plan) - 1 /\ Len(r.plan) \in Nat /\ DOMAIN r.plan = 1..Len(r.plan)
    BY <1>2, HeadTailProperties, LenProperties
  <2>2. Len(r.plan) = 1
    <3>1. Len(<<>>) = 0
      OBVIOUS
    <3>2. Len(Tail(r.plan)) = 0
      BY <1>1, <3>1
    <3>3. QED BY <2>1, <3>2
  <2>3. Head(r.plan) = r.plan[1]
    BY <1>2
  <2>4. QED BY <2>1, <2>2, <2>3 DEF Key, r
<1>4. Len(r.report.keys) \in Nat /\ DOMAIN r.report.keys = 1..Len(r.report.keys)
  BY <1>2, LenProperties
<1>5. Behind(r) + 1 = Len(r.report.keys) /\ Key(c) = r.report.keys[Len(r.report.keys)]
  BY <1>2, <1>3, <1>4 DEF EmptySoFar, Behind
<1>6. ASSUME NEW i \in DOMAIN r.report.keys
      PROVE  \E n \in 1..Current(r.report.keys[i]) : <<r.report.keys[i], n>> \in Empty
  <2>1. CASE i = Len(r.report.keys)
    BY <2>1, <1>1, <1>5
  <2>2. CASE i # Len(r.report.keys)
    <3>1. i \in 1..Behind(r)
      BY <1>3, <1>4, <1>6, <2>2 DEF Behind
    <3>2. QED BY <1>2, <3>1 DEF EmptySoFar
  <2>3. QED BY <2>1, <2>2
<1>7. QED BY <1>6

\* "Not found" is said only when SGU has had, for each identifier, an answer without a
\* well.
THEOREM FetchNotFoundIsTrue == Spec => NotFoundIsTrue
<1> DEFINE A == \A c \in Callers :
                   call'[c].result = "not_found" /\ call[c].result # "not_found"
                      /\ call[c].report.rule = "first" =>
                   LET keys == call[c].report.keys
                   IN \A i \in DOMAIN keys :
                         \E n \in 1..Current(keys[i]) : <<keys[i], n>> \in Empty
<1>1. ASSUME IInv, [Next]_vars, NEW c \in Callers,
             call'[c].result = "not_found", call[c].result # "not_found",
             call[c].report.rule = "first"
      PROVE  \A i \in DOMAIN call[c].report.keys :
                \E n \in 1..Current(call[c].report.keys[i]) :
                   <<call[c].report.keys[i], n>> \in Empty
  <2>1. CASE Work(c)
    <3>1. PICK answer \in {"record", "nothing", "failed"} :
             /\ call[c].at # "idle"
             /\ call'[c].result = Result(c, answer)
             /\ answer = "nothing" /\ call[c].report.rule = "first" =>
                   \E n \in 1..Current(Key(c)) : <<Key(c), n>> \in Empty
      BY <1>1, <2>1, ResultSteps
    <3>2. QED BY <1>1, <3>1, GivingUp
  <2>2. ASSUME NEW report \in Reports, Begin(c, report) PROVE FALSE
    BY <1>1, <2>2 DEF Begin, IInv, Call
  <2>3. QED BY <1>1, <2>1, <2>2, OwnSteps
<1>2. IInv /\ [Next]_vars => A
  BY <1>1
<1> HIDE DEF A
<1>3. Spec => [][A]_vars
  BY <1>2, FetchInvariant, PTL DEF Spec
<1>4. QED BY <1>3 DEF A, NotFoundIsTrue

\* A well that was found is answered, whatever becomes of the request for its layers.
THEOREM FetchKeepsWell == Spec => WellKept
<1> DEFINE A == \A c \in Callers :
                   call[c].result = "well" /\ call[c].plan # <<>> =>
                      call'[c].result = "well" \/ Abort(c)
<1>1. ASSUME IInv, [Next]_vars, NEW c \in Callers, call[c].result = "well",
             call[c].plan # <<>>, ~Abort(c)
      PROVE  call'[c].result = "well"
  <2>1. ASSUME Work(c) PROVE call'[c].result = "well"
    <3>1. \A answer : Result(c, answer) = "well"
      BY <1>1 DEF Result, Searching
    <3>2. QED BY <1>1, <2>1, <3>1, ResultSteps
  <2>2. \A report : ~Begin(c, report)
    BY <1>1 DEF Begin
  <2>3. QED BY <1>1, <2>1, <2>2, OwnSteps
<1>2. IInv /\ [Next]_vars => A
  BY <1>1
<1> HIDE DEF A
<1>3. Spec => [][A]_vars
  BY <1>2, FetchInvariant, PTL DEF Spec
<1>4. QED BY <1>3 DEF A, WellKept
-----------------------------------------------------------------------------
\* What a call may still do: three steps for each key to read, the layers of the well it
\* is in search of among them, and what is left of the request under way.
ToCome(r) == IF r.report.rule # "all" /\ r.result = "none" THEN Len(r.report.layers) ELSE 0
UnderWay(r) == CASE r.at = "lookup" -> 2 [] r.at = "asked" -> 1 [] OTHER -> 0
Remaining(r) ==
    IF r.plan = <<>> THEN 0 ELSE 3 * (Len(r.plan) + ToCome(r)) + UnderWay(r)

\* While a report is made, every step of its call brings the end nearer; the other calls,
\* the source and the cache do not put it off.
RunsDown ==
    [][\A c \in Callers : call[c].plan # <<>> =>
          call'[c] = call[c] \/ Remaining(call'[c]) < Remaining(call[c])]_vars

LEMMA RemainingPositive ==
    ASSUME IInv, NEW c \in Callers, call[c].at # "idle"
    PROVE  /\ Len(call[c].plan) \in Nat /\ Len(call[c].plan) >= 1
           /\ ToCome(call[c]) \in Nat /\ UnderWay(call[c]) \in 0..2
           /\ Remaining(call[c]) = 3 * (Len(call[c].plan) + ToCome(call[c])) + UnderWay(call[c])
<1>1. /\ call[c].plan \in Seq(Keys) /\ call[c].plan # <<>>
      /\ call[c].report.layers \in Seq(Keys)
  BY AtWork
<1>2. Len(call[c].plan) \in Nat /\ Len(call[c].plan) >= 1 /\ Len(call[c].report.layers) \in Nat
  BY <1>1, LenProperties, EmptySeq
<1>3. ToCome(call[c]) \in Nat /\ UnderWay(call[c]) \in 0..2
  BY <1>2 DEF ToCome, UnderWay
<1>4. QED BY <1>1, <1>2, <1>3 DEF Remaining

\* With an answer, or without one, a call has one key less to read, or the layers only.
LEMMA TurnToRunsDown ==
    ASSUME IInv, NEW c \in Callers, call[c].at # "idle",
           NEW answer \in {"record", "nothing", "failed"}, TurnTo(c, answer)
    PROVE  Remaining(call'[c]) < Remaining(call[c])
<1> DEFINE r == call[c]
           n == call'[c]
<1>1. /\ r \in Call /\ r.plan \in Seq(Keys) /\ r.plan # <<>>
      /\ r.report.layers \in Seq(Keys)
      /\ call \in [Callers -> Call]
  BY AtWork DEF IInv
<1>2. /\ Len(r.plan) \in Nat /\ Len(r.plan) >= 1 /\ ToCome(r) \in Nat
      /\ Remaining(r) >= 3 * (Len(r.plan) + ToCome(r)) /\ Remaining(r) \in Nat
  <2>1. /\ Len(r.plan) \in Nat /\ Len(r.plan) >= 1 /\ ToCome(r) \in Nat /\ UnderWay(r) \in 0..2
        /\ Remaining(r) = 3 * (Len(r.plan) + ToCome(r)) + UnderWay(r)
    BY RemainingPositive
  <2> HIDE DEF r
  <2>2. QED BY <2>1
<1>3. /\ n.at = AtNextKey(c, answer) /\ n.plan = Ahead(c, answer)
      /\ n.result = Result(c, answer)
      /\ Ahead(c, answer) # <<>> => n.report = r.report
  BY <1>1 DEF TurnTo, Call
<1>4. CASE Ahead(c, answer) = <<>>
  <2>1. Remaining(n) = 0
    BY <1>3, <1>4 DEF Remaining
  <2> HIDE DEF r, n
  <2>2. Remaining(n) < Remaining(r)
    BY <1>2, <2>1
  <2>3. QED BY <2>2 DEF r, n
<1>5. CASE Ahead(c, answer) # <<>>
  <2>1. n.at = "lookup" /\ n.report = r.report /\ n.plan # <<>> /\ UnderWay(n) = 2
    BY <1>3, <1>5 DEF AtNextKey, UnderWay
  <2>2. Remaining(n) = 3 * (Len(n.plan) + ToCome(n)) + 2
    BY <2>1 DEF Remaining
  <2>3. CASE ~Searching(c) \/ answer = "nothing"
    <3>1. n.plan = Tail(r.plan) /\ n.result = r.result
      BY <1>3, <1>5, <2>3 DEF Ahead, Result
    <3>2. ToCome(n) = ToCome(r)
      BY <2>1, <3>1 DEF ToCome
    <3>3. Len(n.plan) = Len(r.plan) - 1
      BY <1>1, <3>1, HeadTailProperties
    <3> HIDE DEF r, n
    <3>4. Remaining(n) < Remaining(r)
      BY <1>2, <2>2, <3>2, <3>3
    <3>5. QED BY <3>4 DEF r, n
  <2>4. CASE Searching(c) /\ answer # "nothing"
    <3>1. answer = "record" /\ n.plan = r.report.layers /\ n.result = "well"
      BY <1>3, <1>5, <2>4 DEF Ahead, Result
    <3>2. ToCome(r) = Len(n.plan) /\ ToCome(n) = 0
      BY <2>4, <3>1 DEF ToCome, Searching
    <3>3. Remaining(n) = 3 * (ToCome(r) + 0) + 2
      BY <2>2, <3>2
    <3> HIDE DEF r, n
    <3>4. Remaining(n) < Remaining(r)
      BY <1>2, <3>3
    <3>5. QED BY <3>4 DEF r, n
  <2>5. QED BY <2>3, <2>4
<1>6. QED BY <1>4, <1>5

\* A report takes at most three steps for each of its keys and layers, and two more,
\* whatever fails, and whatever other calls and the source do to the cache.
THEOREM FetchRunsDown == Spec => RunsDown
<1> DEFINE A == \A c \in Callers : call[c].plan # <<>> =>
                   call'[c] = call[c] \/ Remaining(call'[c]) < Remaining(call[c])
<1>1. ASSUME IInv, [Next]_vars, NEW c \in Callers, call[c].plan # <<>>
      PROVE  call'[c] = call[c] \/ Remaining(call'[c]) < Remaining(call[c])
  <2>1. call[c].at # "idle" /\ call[c] \in Call /\ call \in [Callers -> Call]
    BY <1>1 DEF IInv, CallInv
  <2>2. /\ Len(call[c].plan) \in Nat /\ Len(call[c].plan) >= 1
        /\ ToCome(call[c]) \in Nat /\ UnderWay(call[c]) \in 0..2
        /\ Remaining(call[c]) = 3 * (Len(call[c].plan) + ToCome(call[c])) + UnderWay(call[c])
    BY <1>1, <2>1, RemainingPositive
  <2>3. ASSUME Hit(c) \/ Receive(c) PROVE Remaining(call'[c]) < Remaining(call[c])
    <3>1. TurnTo(c, "nothing") \/ TurnTo(c, "record")
      BY <2>3 DEF Hit, Receive, Obtain
    <3>2. QED BY <1>1, <2>1, <3>1, TurnToRunsDown
  <2>4. ASSUME Fail(c) PROVE Remaining(call'[c]) < Remaining(call[c])
    BY <1>1, <2>1, <2>4, TurnToRunsDown DEF Fail
  <2>5. ASSUME Abort(c) PROVE Remaining(call'[c]) < Remaining(call[c])
    <3>1. Remaining(call'[c]) = 0
      BY <2>1, <2>5 DEF Abort, Call, Remaining
    <3>2. QED BY <2>2, <3>1
  <2>6. ASSUME NEW from, NEW to, NEW more, call'[c] = more,
               /\ call[c].at = from /\ more.at = to
               /\ <<from, to>> \in {<<"lookup", "asked">>, <<"asked", "served">>},
               more.plan = call[c].plan, more.report = call[c].report,
               more.result = call[c].result
        PROVE  Remaining(call'[c]) < Remaining(call[c])
    <3>1. UnderWay(more) = UnderWay(call[c]) - 1 /\ ToCome(more) = ToCome(call[c])
      BY <2>6 DEF UnderWay, ToCome
    <3>2. Remaining(more) = 3 * (Len(call[c].plan) + ToCome(call[c])) + UnderWay(more)
      BY <1>1, <2>6, <3>1 DEF Remaining
    <3>3. QED BY <2>2, <2>6, <3>1, <3>2
  <2>7. ASSUME Ask(c) PROVE Remaining(call'[c]) < Remaining(call[c])
    <3>1. /\ call[c].at = "lookup" /\ call'[c].at = "asked" /\ call'[c].plan = call[c].plan
          /\ call'[c].report = call[c].report /\ call'[c].result = call[c].result
      BY <2>1, <2>7 DEF Ask, Call
    <3>2. QED BY <2>6, <3>1
  <2>8. ASSUME Serve(c) PROVE Remaining(call'[c]) < Remaining(call[c])
    <3>1. /\ call[c].at = "asked" /\ call'[c].at = "served" /\ call'[c].plan = call[c].plan
          /\ call'[c].report = call[c].report /\ call'[c].result = call[c].result
      BY <2>1, <2>8 DEF Serve, Call
    <3>2. QED BY <2>6, <3>1
  <2>9. \A report : ~Begin(c, report)
    BY <1>1 DEF Begin
  <2>10. QED BY <1>1, <2>3, <2>4, <2>5, <2>7, <2>8, <2>9, OwnSteps DEF Work
<1>2. IInv /\ [Next]_vars => A
  BY <1>1
<1> HIDE DEF A
<1>3. Spec => [][A]_vars
  BY <1>2, FetchInvariant, PTL DEF Spec
<1>4. QED BY <1>3 DEF A, RunsDown
=============================================================================
