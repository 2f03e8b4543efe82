--------------------------- MODULE GetItemsProofs ---------------------------
(***************************************************************************)
(* TLAPS proofs about GetItems, for any pages linked in any way, any       *)
(* limits and any number of calls: what a walk returns is distinct, within *)
(* its limit, the whole of what its links lead to unless it is flagged,    *)
(* and what another walk from the same URL returns; and a walk is finite.  *)
(***************************************************************************)
EXTENDS GetItems, WellFoundedInduction, SequenceTheorems, FiniteSetTheorems, TLAPS

Feature == Ids \cup {NoId}

\* Induction over the naturals, for a set instead of a predicate: a number outside
\* it would have a least one.
LEMMA NatLessWellFounded == IsWellFoundedOn({p \in Nat \X Nat : p[1] < p[2]}, Nat)
BY NatLessThanWellFounded DEF OpToRel

LEMMA SetInduction ==
    ASSUME NEW S, 0 \in S, \A n \in Nat : n \in S => n + 1 \in S
    PROVE  \A n \in Nat : n \in S
<1> SUFFICES ASSUME Nat \ S # {} PROVE FALSE
  OBVIOUS
<1>1. PICK x \in Nat \ S : \A y \in Nat \ S : <<y, x>> \notin {p \in Nat \X Nat : p[1] < p[2]}
  BY NatLessWellFounded, WFMin
<1>2. x # 0 /\ x - 1 \in Nat /\ x - 1 < x /\ (x - 1) + 1 = x
  OBVIOUS
<1>3. <<x - 1, x>> \in {p \in Nat \X Nat : p[1] < p[2]}
  BY <1>2
<1>4. x - 1 \in S
  BY <1>1, <1>2, <1>3
<1>5. QED BY <1>2, <1>4

\* The recursive function in Deduped exists, so that it is what it is defined to be.
LEMMA DedupedSteps ==
    ASSUME NEW records, NEW features \in Seq(Feature)
    PROVE  \E taken : /\ taken[0] = records
                      /\ \A n \in 1..Len(features) : taken[n] = Added(taken[n - 1], features[n])
                      /\ Deduped(records, features) = taken[Len(features)]
<1> DEFINE Taken(f, n) == f = [m \in 0..n |-> IF m = 0 THEN records
                                               ELSE Added(f[m - 1], features[m])]
           S == {n \in Nat : \E f : Taken(f, n)}
<1>1. 0 \in S
  <2> DEFINE f == [m \in 0..0 |-> records]
  <2>1. Taken(f, 0)
    OBVIOUS
  <2>2. QED BY <2>1
<1>2. ASSUME NEW n \in Nat, n \in S PROVE n + 1 \in S
  <2>1. PICK f : Taken(f, n)
    BY <1>2
  <2> DEFINE g == [m \in 0..n + 1 |-> IF m <= n THEN f[m] ELSE Added(f[n], features[n + 1])]
  <2>2. \A m \in 0..n + 1 : g[m] = IF m = 0 THEN records ELSE Added(g[m - 1], features[m])
    <3> TAKE m \in 0..n + 1
    <3>1. CASE m = 0
      BY <2>1, <3>1
    <3>2. CASE m \in 1..n
      <4>1. m - 1 \in 0..n /\ m \in 0..n /\ m # 0 /\ m \in 0..n + 1 /\ m - 1 \in 0..n + 1
            /\ m <= n /\ m - 1 <= n
        BY <3>2
      <4>2. f[m] = Added(f[m - 1], features[m])
        BY <2>1, <4>1
      <4>3. g[m] = f[m] /\ g[m - 1] = f[m - 1]
        BY <4>1
      <4>4. QED BY <4>1, <4>2, <4>3
    <3>3. CASE m = n + 1
      <4>1. m # 0 /\ ~(m <= n) /\ m - 1 = n /\ n \in 0..n + 1
        BY <3>3
      <4>2. QED BY <3>3, <4>1
    <3>4. QED BY <3>1, <3>2, <3>3
  <2>3. Taken(g, n + 1)
    BY <2>2
  <2> HIDE DEF g
  <2>4. \E h : Taken(h, n + 1)
    BY <2>3
  <2>5. QED BY <2>4
<1>3. Len(features) \in S
  <2> HIDE DEF S
  <2>1. \A n \in Nat : n \in S
    BY <1>1, <1>2, SetInduction
  <2>2. QED BY <2>1
<1>4. Taken((CHOOSE f : Taken(f, Len(features))), Len(features))
  BY <1>3
<1> DEFINE taken == CHOOSE f : Taken(f, Len(features))
<1>5. Deduped(records, features) = taken[Len(features)]
  BY DEF Deduped
<1>6. taken = [m \in 0..Len(features) |-> IF m = 0 THEN records
                                          ELSE Added(taken[m - 1], features[m])]
  BY <1>4
<1> HIDE DEF taken
<1>7. \A m \in 0..Len(features) :
         taken[m] = IF m = 0 THEN records ELSE Added(taken[m - 1], features[m])
  BY <1>6
<1>8. taken[0] = records /\ \A n \in 1..Len(features) : taken[n] = Added(taken[n - 1], features[n])
  <2>1. Len(features) \in Nat
    OBVIOUS
  <2>2. 0 \in 0..Len(features) /\ \A n \in 1..Len(features) : n \in 0..Len(features) /\ n # 0
    BY <2>1
  <2>3. QED BY <1>7, <2>2
<1>9. QED BY <1>5, <1>8

\* No id twice; features without an id are not compared.
Distinct(got) == \A i, j \in 1..Len(got) : got[i] = got[j] /\ got[i] # NoId => i = j

\* One list begins with another.
Begins(new, got) == Len(got) <= Len(new) /\ \A i \in 1..Len(got) : new[i] = got[i]

LEMMA BeginsTransitive ==
    ASSUME NEW a \in Seq(Feature), NEW b \in Seq(Feature), NEW c \in Seq(Feature),
           Begins(c, b), Begins(b, a)
    PROVE  Begins(c, a)
BY DEF Begins

LEMMA BeginsHas ==
    ASSUME NEW a \in Seq(Feature), NEW b \in Seq(Feature), Begins(b, a)
    PROVE  ToSet(a) \subseteq ToSet(b)
BY DEF Begins, ToSet

\* Adding one feature keeps what there is, and it is then there, once.
LEMMA AddedGets ==
    ASSUME NEW got \in Seq(Feature), NEW f \in Feature
    PROVE  /\ Added(got, f) \in Seq(Feature)
           /\ Distinct(got) => Distinct(Added(got, f))
           /\ ToSet(got) \subseteq ToSet(Added(got, f))
           /\ ToSet(Added(got, f)) \subseteq ToSet(got) \cup {f}
           /\ f # NoId => f \in ToSet(Added(got, f))
           /\ Begins(Added(got, f), got)
<1>1. CASE f # NoId /\ Contains(got, f)
  <2>1. Added(got, f) = got
    BY <1>1 DEF Added
  <2>2. f \in ToSet(got)
    BY <1>1 DEF Contains, ToSet
  <2>3. Begins(got, got)
    BY DEF Begins
  <2>4. QED BY <2>1, <2>2, <2>3
<1>2. CASE ~(f # NoId /\ Contains(got, f))
  <2>1. Added(got, f) = Append(got, f)
    BY <1>2 DEF Added
  <2>2. /\ Append(got, f) \in Seq(Feature) /\ Len(Append(got, f)) = Len(got) + 1
        /\ \A i \in 1..Len(got) : Append(got, f)[i] = got[i]
        /\ Append(got, f)[Len(got) + 1] = f
    OBVIOUS
  <2>3. ToSet(got) \subseteq ToSet(Append(got, f)) /\ f \in ToSet(Append(got, f))
        /\ ToSet(Append(got, f)) \subseteq ToSet(got) \cup {f}
    BY <2>2 DEF ToSet
  <2>4. ASSUME Distinct(got), NEW i \in 1..Len(got) + 1, NEW j \in 1..Len(got) + 1,
               Append(got, f)[i] = Append(got, f)[j], Append(got, f)[i] # NoId
        PROVE  i = j
    <3>1. CASE i \in 1..Len(got) /\ j \in 1..Len(got)
      BY <2>2, <2>4, <3>1 DEF Distinct
    <3>2. CASE i = Len(got) + 1 /\ j \in 1..Len(got)
      BY <1>2, <2>2, <2>4, <3>2 DEF Contains
    <3>3. CASE j = Len(got) + 1 /\ i \in 1..Len(got)
      BY <1>2, <2>2, <2>4, <3>3 DEF Contains
    <3>4. QED BY <3>1, <3>2, <3>3
  <2>5. Distinct(got) => Distinct(Append(got, f))
    BY <2>2, <2>4 DEF Distinct
  <2>6. Begins(Append(got, f), got)
    BY <2>2 DEF Begins
  <2>7. QED BY <2>1, <2>2, <2>3, <2>5, <2>6
<1>3. QED BY <1>1, <1>2

\* After a page the list has what it had and the features of the page, and nothing
\* else, no id twice.
LEMMA DedupedGets ==
    ASSUME NEW records \in Seq(Feature), NEW features \in Seq(Feature)
    PROVE  /\ Deduped(records, features) \in Seq(Feature)
           /\ Distinct(records) => Distinct(Deduped(records, features))
           /\ ToSet(records) \subseteq ToSet(Deduped(records, features))
           /\ ToSet(features) \ {NoId} \subseteq ToSet(Deduped(records, features))
           /\ ToSet(Deduped(records, features)) \subseteq ToSet(records) \cup ToSet(features)
           /\ Begins(Deduped(records, features), records)
<1>1. PICK taken : /\ taken[0] = records
                   /\ \A n \in 1..Len(features) : taken[n] = Added(taken[n - 1], features[n])
                   /\ Deduped(records, features) = taken[Len(features)]
  BY DedupedSteps
<1> DEFINE Good(n) == /\ taken[n] \in Seq(Feature)
                      /\ Distinct(records) => Distinct(taken[n])
                      /\ ToSet(records) \subseteq ToSet(taken[n])
                      /\ \A i \in 1..n : features[i] # NoId => features[i] \in ToSet(taken[n])
                      /\ ToSet(taken[n]) \subseteq ToSet(records) \cup ToSet(features)
                      /\ Begins(taken[n], records)
           S == {n \in Nat : n <= Len(features) => Good(n)}
<1>2. 0 \in S
  BY <1>1 DEF Begins
<1>3. ASSUME NEW n \in Nat, n \in S PROVE n + 1 \in S
  <2> SUFFICES ASSUME n + 1 <= Len(features) PROVE Good(n + 1)
    OBVIOUS
  <2>1. Len(features) \in Nat /\ n <= Len(features) /\ n + 1 \in 1..Len(features)
        /\ (n + 1) - 1 = n
    OBVIOUS
  <2>2. Good(n)
    BY <1>3, <2>1
  <2>3. PICK f \in Feature : f = features[n + 1] /\ taken[n + 1] = Added(taken[n], f)
    BY <1>1, <2>1
  <2>4. /\ taken[n + 1] \in Seq(Feature)
        /\ Distinct(taken[n]) => Distinct(taken[n + 1])
        /\ ToSet(taken[n]) \subseteq ToSet(taken[n + 1])
        /\ f # NoId => f \in ToSet(taken[n + 1])
        /\ ToSet(taken[n + 1]) \subseteq ToSet(taken[n]) \cup {f}
        /\ Begins(taken[n + 1], taken[n])
    <3>1. taken[n] \in Seq(Feature)
      BY <2>2
    <3>2. /\ Added(taken[n], f) \in Seq(Feature)
          /\ Distinct(taken[n]) => Distinct(Added(taken[n], f))
          /\ ToSet(taken[n]) \subseteq ToSet(Added(taken[n], f))
          /\ ToSet(Added(taken[n], f)) \subseteq ToSet(taken[n]) \cup {f}
          /\ f # NoId => f \in ToSet(Added(taken[n], f))
          /\ Begins(Added(taken[n], f), taken[n])
      BY <3>1, AddedGets
    <3>3. QED BY <2>3, <3>2
  <2>5. \A i \in 1..n + 1 : i \in 1..n \/ i = n + 1
    OBVIOUS
  <2>6. f \in ToSet(features)
    BY <2>1, <2>3 DEF ToSet
  <2>7. Begins(taken[n + 1], records)
    BY <2>2, <2>4, BeginsTransitive
  <2>8. QED BY <2>2, <2>3, <2>4, <2>5, <2>6, <2>7
<1>4. Good(Len(features))
  <2> HIDE DEF Good
  <2> HIDE DEF S
  <2>1. \A n \in Nat : n \in S
    BY <1>2, <1>3, SetInduction
  <2>2. Len(features) \in S /\ Len(features) \in Nat
    BY <2>1
  <2>3. QED BY <2>2 DEF S
<1>5. ToSet(features) \ {NoId} \subseteq ToSet(taken[Len(features)])
  BY <1>4 DEF ToSet
<1>6. QED BY <1>1, <1>4, <1>5
-----------------------------------------------------------------------------
\* The URLs a call has come by.
Seen(r) == r.followed \cup {r.start}

\* What lies where the links of a call lead to.
Findable(r) == UNION {ToSet(site[u].features) : u \in Reachable(r.start)}

\* The page at u is in the list, and its next link, if any, is followed.
Covered(r, u) == /\ ToSet(site[u].features) \ {NoId} \subseteq ToSet(r.records)
                 /\ site[u].next \in Seen(r) \cup {None}

\* What is true of each call between two steps.  Of the URLs it has come by, only the
\* one it is at may be open; this holds also when a link leads back to its first URL,
\* which is not among those followed.
WalkInv(r) ==
    /\ Distinct(r.records)
    /\ r.at \in {"lookup", "fetch", "done"} => \A u \in Seen(r) \ {r.url} : Covered(r, u)
    /\ r.at \in {"lookup", "fetch"} => Len(r.records) < r.max
    /\ r.at \in {"lookup", "fetch", "done"} => r.url \in Urls /\ r.start \in Urls /\ r.max \in Limits
    /\ r.at \in {"lookup", "fetch", "done"} => Seen(r) \subseteq Reachable(r.start)
    /\ ToSet(r.records) \subseteq Findable(r)
    /\ r.at = "done" => Len(r.records) <= r.max
    /\ r.at = "done" /\ ~r.truncated => \A u \in Seen(r) : Covered(r, u)
IInv == TypeOK /\ \A c \in Calls : WalkInv(call[c])

\* Links lead from a URL to itself and, from what they lead to, to the next.
LEMMA ReachableSteps ==
    /\ \A u \in Urls : u \in Reachable(u)
    /\ \A u \in Urls : \A v \in Reachable(u) :
          site[v].next \in Urls \ {None} => site[v].next \in Reachable(u)
<1>1. \A u \in Urls : u \in Reachable(u)
  BY DEF Reachable
<1>2. ASSUME NEW u \in Urls, NEW v \in Reachable(u), site[v].next \in Urls \ {None}
      PROVE  site[v].next \in Reachable(u)
  BY <1>2 DEF Reachable
<1>3. QED BY <1>1, <1>2

\* A step of one call keeps the invariant if it does so for this call.
LEMMA OneCall ==
    ASSUME IInv, NEW c \in Calls, NEW r \in Call, call' = [call EXCEPT ![c] = r],
           UNCHANGED site, cache' \in [Urls -> BOOLEAN \cup {None}],
           r.url \in Seen(r), WalkInv(r)
    PROVE  IInv'
<1>1. call' \in [Calls -> Call] /\ call'[c] = r /\ \A d \in Calls \ {c} : call'[d] = call[d]
  BY DEF IInv, TypeOK
<1>2. TypeOK'
  BY <1>1 DEF IInv, TypeOK, Seen
<1>3. \A d \in Calls : WalkInv(call'[d])
  BY <1>1 DEF IInv
<1>4. \A d \in Calls : WalkInv(call[d])'
  <2> TAKE d \in Calls
  <2>1. WalkInv(call'[d])
    BY <1>3
  <2>2. QED BY <2>1 DEF WalkInv, Covered, Seen, Findable, Reachable
<1>5. QED BY <1>2, <1>4 DEF IInv

\* The invariant does not depend on what is cached.
LEMMA CallsUnchanged ==
    ASSUME IInv, UNCHANGED site, UNCHANGED call, cache' \in [Urls -> BOOLEAN \cup {None}]
    PROVE  IInv'
<1>1. TypeOK'
  BY DEF IInv, TypeOK
<1>2. \A c \in Calls : WalkInv(call'[c])
  BY DEF IInv
<1>3. \A c \in Calls : WalkInv(call[c])'
  <2> TAKE c \in Calls
  <2>1. WalkInv(call'[c])
    BY <1>2
  <2>2. QED BY <2>1 DEF WalkInv, Covered, Seen, Findable, Reachable
<1>4. QED BY <1>1, <1>3 DEF IInv

LEMMA StartInv ==
    ASSUME IInv, NEW c \in Calls, NEW u \in Urls, NEW m \in Limits, Start(c, u, m)
    PROVE  IInv'
<1> DEFINE r == [at |-> "lookup", url |-> u, max |-> m, records |-> <<>>, followed |-> {},
                 truncated |-> FALSE, start |-> u, cut |-> FALSE]
<1>1. r \in Call /\ r.url \in Seen(r)
  BY DEF Call, Seen
<1>2. WalkInv(r)
  <2>1. Seen(r) = {u} /\ u \in Reachable(u) /\ ToSet(r.records) = {}
    BY ReachableSteps DEF Seen, ToSet
  <2>2. Distinct(r.records)
    BY DEF Distinct
  <2>3. r.at = "lookup" /\ r.url = u /\ r.start = u /\ r.max = m /\ Len(r.records) < r.max
    BY LimitsAssumption
  <2> HIDE DEF r
  <2>4. QED BY <2>1, <2>2, <2>3 DEF WalkInv
<1>3. call' = [call EXCEPT ![c] = r] /\ UNCHANGED <<site, cache>>
  BY DEF Start
<1>4. cache' \in [Urls -> BOOLEAN \cup {None}]
  BY <1>3 DEF IInv, TypeOK
<1> HIDE DEF r
<1>5. QED BY <1>1, <1>2, <1>3, <1>4, OneCall

\* The page a call is at is added, and the call stops or goes on.
LEMMA TakePageInv ==
    ASSUME IInv, NEW c \in Calls, call[c].at \in {"lookup", "fetch"},
           NEW flagged \in BOOLEAN, TakePage(c, flagged)
    PROVE  IInv'
<1> DEFINE r == call[c]
           page == site[call[c].url]
           got == Deduped(call[c].records, site[call[c].url].features)
<1>1. r \in Call /\ WalkInv(r) /\ r.url \in Urls /\ r.start \in Urls /\ r.max \in Limits
      /\ r.url \in Seen(r)
  BY DEF IInv, TypeOK, WalkInv, Seen
<1>2. page \in Page
  BY <1>1, SitesAssumption DEF IInv, TypeOK
<1>3. r.records \in Seq(Feature) /\ page.features \in Seq(Feature)
      /\ page.next \in Urls \cup {None} /\ r.max \in Nat \ {0} /\ r.followed \subseteq Urls
  BY <1>1, <1>2, LimitsAssumption DEF Call, Page, Feature
<1>4. /\ got \in Seq(Feature) /\ Distinct(got)
      /\ ToSet(r.records) \subseteq ToSet(got)
      /\ ToSet(page.features) \ {NoId} \subseteq ToSet(got)
      /\ ToSet(got) \subseteq ToSet(r.records) \cup ToSet(page.features)
      /\ Begins(got, r.records)
  BY <1>1, <1>3, DedupedGets DEF WalkInv
<1>5. \A u \in Seen(r) \ {r.url} :
         /\ ToSet(site[u].features) \ {NoId} \subseteq ToSet(got)
         /\ site[u].next \in Seen(r) \cup {None}
  BY <1>1, <1>4 DEF WalkInv, Covered
<1> HIDE DEF got
<1>6. ToSet(got) \subseteq Findable(r) /\ Seen(r) \subseteq Reachable(r.start)
  <2>1. r.url \in Reachable(r.start) /\ Seen(r) \subseteq Reachable(r.start)
    BY <1>1 DEF WalkInv
  <2>2. ToSet(page.features) \subseteq Findable(r)
    BY <2>1 DEF Findable
  <2>3. QED BY <1>1, <1>4, <2>1, <2>2 DEF WalkInv
<1>7. \A b \in BOOLEAN : [cache EXCEPT ![r.url] = b] \in [Urls -> BOOLEAN \cup {None}]
  BY DEF IInv, TypeOK
<1>8. UNCHANGED site
  BY DEF TakePage
<1>9. CASE StopFull(c, got, flagged)
  <2> DEFINE cutAt == SubSeq(got, 1, r.max)
             n == [r EXCEPT !.at = "done", !.cut = TRUE, !.truncated = TRUE, !.records = cutAt]
  <2>1. r.max <= Len(got) /\ Len(got) \in Nat
    BY <1>3, <1>4, <1>9 DEF StopFull
  <2>2. cutAt \in Seq(Feature) /\ Len(cutAt) = r.max /\ \A i \in 1..r.max : cutAt[i] = got[i]
    BY <1>3, <1>4, <2>1
  <2>3. ToSet(cutAt) \subseteq ToSet(got)
    BY <1>3, <1>4, <2>1, <2>2 DEF ToSet
  <2>4. Distinct(cutAt)
    BY <1>3, <1>4, <2>1, <2>2 DEF Distinct
  <2>5. ToSet(r.records) \subseteq ToSet(cutAt)
    <3>1. Len(r.records) < r.max
      BY <1>1 DEF WalkInv
    <3>2. Begins(cutAt, r.records)
      BY <1>3, <1>4, <2>1, <2>2, <3>1 DEF Begins
    <3>3. QED BY <1>3, <2>2, <3>2, BeginsHas
  <2> HIDE DEF cutAt
  <2>6. n \in Call /\ n.url \in Seen(n)
    BY <1>1, <2>2 DEF Call, Seen, Feature
  <2>7. \A u \in Seen(n) \ {n.url} : Covered(n, u)
    BY <1>1, <2>5 DEF WalkInv, Covered, Seen
  <2>8. WalkInv(n)
    BY <1>1, <1>3, <1>6, <2>2, <2>4, <2>3, <2>7 DEF WalkInv, Findable, Seen
  <2>9. call' = [call EXCEPT ![c] = n] /\ cache' = [cache EXCEPT ![r.url] = TRUE]
    BY <1>9 DEF StopFull, cutAt
  <2> HIDE DEF n
  <2>10. QED BY <1>7, <1>8, <2>6, <2>8, <2>9, OneCall
<1>10. CASE StopAtEnd(c, got, flagged)
  <2> DEFINE n == [r EXCEPT !.at = "done", !.truncated = flagged, !.records = got]
  <2>1. Len(got) < r.max /\ page.next = None
    BY <1>10 DEF StopAtEnd
  <2>2. n \in Call /\ n.url \in Seen(n)
    BY <1>1, <1>4 DEF Call, Seen, Feature
  <2>3. \A u \in Seen(n) : Covered(n, u)
    BY <1>1, <1>4, <1>5, <2>1 DEF Covered, Seen
  <2>4. Len(got) <= r.max
    BY <1>3, <1>4, <2>1
  <2>5. WalkInv(n)
    BY <1>1, <1>4, <1>6, <2>3, <2>4 DEF WalkInv, Findable, Seen
  <2>6. call' = [call EXCEPT ![c] = n] /\ cache' = [cache EXCEPT ![r.url] = flagged]
    BY <1>10 DEF StopAtEnd
  <2> HIDE DEF n
  <2>7. QED BY <1>7, <1>8, <2>2, <2>5, <2>6, OneCall
<1>11. CASE StopAtRepeat(c, got, flagged)
  <2> DEFINE n == [r EXCEPT !.at = "done", !.cut = TRUE, !.truncated = TRUE, !.records = got]
  <2>1. Len(got) < r.max
    BY <1>11 DEF StopAtRepeat
  <2>2. n \in Call /\ n.url \in Seen(n)
    BY <1>1, <1>4 DEF Call, Seen, Feature
  <2>3. Len(got) <= r.max
    BY <1>3, <1>4, <2>1
  <2>4. \A u \in Seen(n) \ {n.url} : Covered(n, u)
    BY <1>1, <1>4, <1>5 DEF Covered, Seen
  <2>5. WalkInv(n)
    BY <1>1, <1>4, <1>6, <2>3, <2>4 DEF WalkInv, Findable, Seen
  <2>6. call' = [call EXCEPT ![c] = n] /\ cache' = [cache EXCEPT ![r.url] = TRUE]
    BY <1>11 DEF StopAtRepeat
  <2> HIDE DEF n
  <2>7. QED BY <1>7, <1>8, <2>2, <2>5, <2>6, OneCall
<1>12. CASE Follow(c, got, flagged)
  <2> DEFINE n == [r EXCEPT !.at = "lookup", !.url = page.next, !.records = got,
                            !.followed = @ \cup {page.next}]
  <2>1. page.next \in Urls
    BY <1>3, <1>12 DEF Follow
  <2>2. n \in Call /\ n.url \in Seen(n) /\ Seen(n) = Seen(r) \cup {page.next}
    BY <1>1, <1>3, <1>4, <2>1 DEF Call, Seen, Feature
  <2>3. \A u \in Seen(n) \ {n.url} : Covered(n, u)
    BY <1>1, <1>4, <1>5, <2>2 DEF Covered
  <2>4. page.next \in Reachable(r.start)
    BY <1>1, <1>12, <1>6, <2>1, ReachableSteps DEF Follow
  <2>5. n.at = "lookup" /\ n.records = got /\ n.start = r.start /\ n.max = r.max /\ n.url = page.next
    BY <1>1 DEF Call
  <2>6. Len(n.records) < n.max
    BY <1>12, <2>5 DEF Follow
  <2>7. WalkInv(n)
    BY <1>1, <1>4, <1>6, <2>1, <2>2, <2>3, <2>4, <2>5, <2>6 DEF WalkInv, Findable
  <2>8. call' = [call EXCEPT ![c] = n] /\ cache' = [cache EXCEPT ![r.url] = flagged]
    BY <1>12 DEF Follow
  <2> HIDE DEF n
  <2>9. QED BY <1>7, <1>8, <2>2, <2>7, <2>8, OneCall
<1>13. QED BY <1>9, <1>10, <1>11, <1>12 DEF TakePage, got

\* A request is sent, or fails.
LEMMA MissInv == ASSUME IInv, NEW c \in Calls, Miss(c) PROVE IInv'
<1> DEFINE r == call[c]
           n == [r EXCEPT !.at = "fetch"]
<1>1. r \in Call /\ WalkInv(r) /\ r.at = "lookup" /\ r.url \in Seen(r)
  BY DEF IInv, TypeOK, Miss, Seen
<1>2. n \in Call /\ n.url \in Seen(n)
  BY <1>1 DEF Call, Seen
<1>3. WalkInv(n)
  BY <1>1 DEF WalkInv, Covered, Seen, Findable
<1>4. call' = [call EXCEPT ![c] = n] /\ UNCHANGED <<site, cache>>
  BY DEF Miss
<1> HIDE DEF n
<1>5. QED BY <1>2, <1>3, <1>4, OneCall DEF IInv, TypeOK

LEMMA FailInv == ASSUME IInv, NEW c \in Calls, Fail(c) PROVE IInv'
<1> DEFINE r == call[c]
           n == [r EXCEPT !.at = "failed", !.records = <<>>]
<1>1. r \in Call /\ r.url \in Seen(r)
  BY DEF IInv, TypeOK, Seen
<1>2. n \in Call /\ n.url \in Seen(n)
  <2>1. <<>> \in Seq(Ids \cup {NoId})
    OBVIOUS
  <2>2. n.records = <<>> /\ n.at = "failed" /\ n.url = r.url /\ Seen(n) = Seen(r)
    BY <1>1 DEF Call, Seen
  <2>3. QED BY <1>1, <2>1, <2>2 DEF Call
<1>3. WalkInv(n)
  <2>1. n.records = <<>> /\ n.at = "failed" /\ ToSet(<<>>) = {}
    BY <1>1 DEF Call, ToSet
  <2>2. QED BY <2>1 DEF WalkInv, Distinct
<1>4. call' = [call EXCEPT ![c] = n] /\ UNCHANGED <<site, cache>>
  BY DEF Fail
<1> HIDE DEF n
<1>5. QED BY <1>2, <1>3, <1>4, OneCall DEF IInv, TypeOK

\* Whichever calls fail when the process restarts, the invariant survives it.
Failed(r) == [r EXCEPT !.at = "failed", !.records = <<>>]
LEMMA FailedInv ==
    ASSUME IInv, UNCHANGED site, cache' \in [Urls -> BOOLEAN \cup {None}],
           NEW S \in SUBSET Calls,
           call' = [c \in Calls |-> IF c \in S THEN Failed(call[c]) ELSE call[c]]
    PROVE  IInv'
<1>1. ASSUME NEW c \in Calls
      PROVE  /\ Failed(call[c]) \in Call /\ WalkInv(Failed(call[c]))
             /\ Failed(call[c]).url \in Seen(Failed(call[c]))
  <2> DEFINE r == call[c]
             n == Failed(r)
  <2>1. r \in Call /\ r.url \in Seen(r)
    BY DEF IInv, TypeOK, Seen
  <2>2. <<>> \in Seq(Ids \cup {NoId}) /\ ToSet(<<>>) = {}
    BY DEF ToSet
  <2>3. n.records = <<>> /\ n.at = "failed" /\ n.url = r.url /\ Seen(n) = Seen(r)
    BY <2>1 DEF Call, Seen, Failed
  <2>4. n \in Call
    BY <2>1, <2>2 DEF Call, Failed
  <2>5. WalkInv(n)
    BY <2>2, <2>3 DEF WalkInv, Distinct
  <2>6. QED BY <2>1, <2>3, <2>4, <2>5
<1>2. \A c \in Calls : call'[c] \in Call /\ WalkInv(call'[c]) /\ call'[c].url \in Seen(call'[c])
  BY <1>1 DEF IInv, TypeOK, Seen
<1>3. TypeOK'
  BY <1>2 DEF IInv, TypeOK, Seen
<1>4. \A c \in Calls : WalkInv(call[c])'
  <2> TAKE c \in Calls
  <2>1. WalkInv(call'[c])
    BY <1>2
  <2>2. QED BY <2>1 DEF WalkInv, Covered, Seen, Findable, Reachable
<1>5. QED BY <1>3, <1>4 DEF IInv

LEMMA RestartInv == ASSUME IInv, NEW lost \in SUBSET Calls, Restart(lost) PROVE IInv'
<1>1. cache' \in [Urls -> BOOLEAN \cup {None}]
  BY DEF Restart
<1>2. call' = [c \in Calls |-> IF c \in lost THEN Failed(call[c]) ELSE call[c]]
  BY DEF Restart, Failed
<1>3. QED BY <1>1, <1>2, FailedInv DEF Restart

\* No call has begun at the start.
LEMMA Initial == Init => IInv
<1> SUFFICES ASSUME Init PROVE IInv
  OBVIOUS
<1>1. TypeOK
  BY DEF Init, TypeOK, Call
<1>2. \A c \in Calls : WalkInv(call[c])
  <2>1. ToSet(<<>>) = {}
    BY DEF ToSet
  <2>2. QED BY <2>1 DEF Init, WalkInv, Distinct
<1>3. QED BY <1>1, <1>2 DEF IInv

\* The inductive step: one case per action.
LEMMA Inductive == IInv /\ [Next]_vars => IInv'
<1> SUFFICES ASSUME IInv, [Next]_vars PROVE IInv'
  OBVIOUS
<1>1. ASSUME NEW c \in Calls, Hit(c) PROVE IInv'
  <2>1. call[c].url \in Urls
    BY <1>1 DEF Hit, IInv, WalkInv
  <2>2. cache[call[c].url] \in BOOLEAN
    BY <1>1, <2>1 DEF Hit, IInv, TypeOK
  <2>3. QED BY <1>1, <2>2, TakePageInv DEF Hit
<1>2. ASSUME NEW c \in Calls, Receive(c) PROVE IInv'
  BY <1>2, TakePageInv DEF Receive
<1>3. ASSUME NEW u \in Urls, Expire(u) PROVE IInv'
  <2>1. cache' \in [Urls -> BOOLEAN \cup {None}]
    BY <1>3 DEF Expire, IInv, TypeOK
  <2>2. QED BY <1>3, <2>1, CallsUnchanged DEF Expire
<1>4. CASE UNCHANGED vars
  BY <1>4, CallsUnchanged DEF vars, IInv, TypeOK
<1>5. QED BY <1>1, <1>2, <1>3, <1>4, StartInv, MissInv, FailInv, RestartInv DEF Next, Work

\* In every reachable state the pages a call has come by are in its list, but for the
\* one it is at.
THEOREM ItemsInvariant == Spec => []IInv
BY Initial, Inductive, PTL DEF Spec

\* The local variables of each call keep their types.
THEOREM ItemsTypes == Spec => []TypeOK
<1>1. IInv => TypeOK
  BY DEF IInv
<1>2. QED BY ItemsInvariant, <1>1, PTL

\* A call returns no more features than its limit, and no id twice.
LEMMA InvBounds == IInv => ResultsDistinctAndBounded
BY DEF IInv, WalkInv, Distinct, ResultsDistinctAndBounded, Done

\* A result that is not flagged holds the features of every page its links lead to.
LEMMA InvLosesNothing == IInv => NoSilentLoss
<1> SUFFICES ASSUME IInv, NEW c \in Done, ~call[c].truncated,
                    NEW v \in Reachable(call[c].start)
             PROVE  ToSet(site[v].features) \ {NoId} \subseteq ToSet(call[c].records)
  BY DEF NoSilentLoss
<1> DEFINE S == Seen(call[c])
<1>1. call[c] \in Call /\ WalkInv(call[c]) /\ call[c].at = "done" /\ call[c].start \in Urls
  BY DEF IInv, TypeOK, Done, WalkInv
<1>2. \A u \in S : Covered(call[c], u)
  BY <1>1 DEF WalkInv
<1>3. S \in SUBSET Urls /\ call[c].start \in S
  BY <1>1 DEF Seen, Call
<1>4. \A w \in S : site[w].next \in S \cup {None}
  BY <1>2 DEF Covered
<1>5. v \in S
  BY <1>3, <1>4 DEF Reachable
<1>6. QED BY <1>2, <1>5 DEF Covered

\* What a walk leaves out, if its last page is in its list, lies where the next link of
\* that page leads (for the modules that compose this one).
LEMMA InvGoesOn ==
    ASSUME IInv, NEW c \in Done, NEW next, next = site[call[c].url].next,
           ToSet(site[call[c].url].features) \ {NoId} \subseteq ToSet(call[c].records),
           NEW v \in Reachable(call[c].start)
    PROVE  \/ ToSet(site[v].features) \ {NoId} \subseteq ToSet(call[c].records)
           \/ next # None /\ v \in Reachable(next)
<1> DEFINE r == call[c]
           Beyond == IF next = None THEN {} ELSE Reachable(next)
           S == Seen(r) \cup Beyond
<1>1. r \in Call /\ WalkInv(r) /\ r.at = "done" /\ r.url \in Urls /\ r.start \in Urls
  BY DEF IInv, TypeOK, Done, WalkInv
<1>2. \A w \in Urls : site[w].next \in Urls \cup {None}
  BY SitesAssumption DEF IInv, TypeOK, Page
<1>3. \A w \in Beyond : w \in Urls /\ site[w].next \in Beyond \cup {None}
  <2>1. CASE next # None
    <3>1. next \in Urls
      BY <1>1, <1>2, <2>1
    <3>2. QED BY <1>2, <2>1, <3>1, ReachableSteps DEF Reachable
  <2>2. QED BY <2>1
<1>4. \A u \in Seen(r) \ {r.url} : Covered(r, u)
  BY <1>1 DEF WalkInv
<1>5. next \in Beyond \cup {None}
  BY <1>1, <1>2, ReachableSteps
<1>6. S \in SUBSET Urls /\ r.start \in S
  BY <1>1, <1>3 DEF Seen, Call
<1>7. \A w \in S : site[w].next \in S \cup {None}
  <2> TAKE w \in S
  <2>1. CASE w \in Beyond
    BY <1>3, <2>1
  <2>2. CASE w = r.url
    BY <1>5, <2>2
  <2>3. CASE w \in Seen(r) \ {r.url}
    BY <1>4, <2>3 DEF Covered
  <2>4. QED BY <2>1, <2>2, <2>3
<1>8. v \in S
  <2> HIDE DEF S
  <2>1. QED BY <1>6, <1>7 DEF Reachable
<1>9. QED BY <1>4, <1>8 DEF Covered

\* However pages overlap and links run, a result keeps to its limit and repeats no id.
THEOREM ItemsDistinctAndBounded == Spec => []ResultsDistinctAndBounded
BY ItemsInvariant, InvBounds, PTL

\* Whatever other calls write into the cache, a result without the flag is whole.
THEOREM ItemsLoseNothingSilently == Spec => []NoSilentLoss
BY ItemsInvariant, InvLosesNothing, PTL
-----------------------------------------------------------------------------
\* The way of a call: the URLs it came to, after n links, and what it had in its list
\* when it came to each.  It went on from each of them but the last.
Trail(r, n, urls, lists) ==
    /\ n \in Nat /\ urls \in [0..n -> Urls] /\ lists \in [0..n -> Seq(Feature)]
    /\ urls[0] = r.start /\ urls[n] = r.url
    /\ lists[0] = <<>>
    /\ r.followed = {urls[k] : k \in 1..n}
    /\ \A k \in 0..n - 1 :
          /\ urls[k + 1] = site[urls[k]].next
          /\ lists[k + 1] = Deduped(lists[k], site[urls[k]].features)
          /\ Len(lists[k + 1]) < r.max
          /\ urls[k + 1] \notin {urls[j] : j \in 1..k} \cup {None}

\* Where it stopped: at the limit, or where there is nothing new to follow.
Stopped(r, got, next) ==
    \/ Len(got) >= r.max /\ r.records = SubSeq(got, 1, r.max)
    \/ Len(got) < r.max /\ r.records = got /\ next \in r.followed \cup {None}

WayInv(r) ==
    r.at \in {"lookup", "fetch", "done"} =>
        \E n, urls, lists :
            /\ Trail(r, n, urls, lists)
            /\ r.at # "done" => r.records = lists[n]
            /\ r.at = "done" => Stopped(r, Deduped(lists[n], site[r.url].features), site[r.url].next)

\* The way of a call depends on its local variables and on the site only.
LEMMA WayAfter ==
    ASSUME NEW d \in Calls, WayInv(call'[d]), UNCHANGED site
    PROVE  WayInv(call[d])'
<1> SUFFICES ASSUME call'[d].at \in {"lookup", "fetch", "done"}
             PROVE  \E n, urls, lists :
                        /\ Trail(call[d], n, urls, lists)'
                        /\ call'[d].at # "done" => call'[d].records = lists[n]
                        /\ call'[d].at = "done" =>
                              Stopped(call'[d], Deduped(lists[n], site'[call'[d].url].features),
                                      site'[call'[d].url].next)
  BY DEF WayInv, Stopped
<1>1. PICK n, urls, lists :
         /\ Trail(call'[d], n, urls, lists)
         /\ call'[d].at # "done" => call'[d].records = lists[n]
         /\ call'[d].at = "done" =>
               Stopped(call'[d], Deduped(lists[n], site[call'[d].url].features),
                       site[call'[d].url].next)
  BY DEF WayInv
<1>2. site' = site
  OBVIOUS
<1>3. Trail(call[d], n, urls, lists)'
  BY <1>1, <1>2 DEF Trail
<1>4. QED BY <1>1, <1>2, <1>3

\* A step of one call keeps the ways of all if it does so for this call.
LEMMA OneWay ==
    ASSUME IInv, \A c \in Calls : WayInv(call[c]), NEW c \in Calls, NEW r,
           call' = [call EXCEPT ![c] = r], UNCHANGED site, WayInv(r)
    PROVE  \A d \in Calls : WayInv(call[d])'
<1>1. call'[c] = r /\ \A d \in Calls \ {c} : call'[d] = call[d]
  BY DEF IInv, TypeOK
<1>2. \A d \in Calls : WayInv(call'[d])
  BY <1>1
<1>3. QED BY <1>2, WayAfter

\* A call takes the page it is at: the trail stays, and ends here or grows by a link.
LEMMA TakePageWay ==
    ASSUME IInv, \A c \in Calls : WayInv(call[c]), NEW c \in Calls,
           call[c].at \in {"lookup", "fetch"}, NEW flagged \in BOOLEAN, TakePage(c, flagged)
    PROVE  \A d \in Calls : WayInv(call[d])'
<1> DEFINE r == call[c]
           page == site[call[c].url]
           got == Deduped(call[c].records, site[call[c].url].features)
<1>1. r \in Call /\ WalkInv(r) /\ r.url \in Urls /\ UNCHANGED site
  BY DEF IInv, TypeOK, WalkInv, TakePage
<1>2. page.features \in Seq(Feature) /\ page.next \in Urls \cup {None}
  BY <1>1, SitesAssumption DEF IInv, TypeOK, Page, Feature
<1>3. PICK n, urls, lists : Trail(r, n, urls, lists) /\ r.records = lists[n]
  BY <1>1 DEF WayInv
<1>4. n \in Nat /\ lists[n] \in Seq(Feature) /\ got \in Seq(Feature) /\ got = Deduped(lists[n], page.features)
  BY <1>2, <1>3, DedupedGets DEF Trail
<1> HIDE DEF got
<1>5. ASSUME NEW t, t \in Call, t.at = "done", t.start = r.start, t.url = r.url, t.max = r.max,
             t.followed = r.followed, Stopped(t, got, page.next), call' = [call EXCEPT ![c] = t]
      PROVE  \A d \in Calls : WayInv(call[d])'
  <2>1. Trail(t, n, urls, lists)
    BY <1>3, <1>5 DEF Trail
  <2>2. WayInv(t)
    BY <1>4, <1>5, <2>1 DEF WayInv
  <2>3. QED BY <1>1, <1>5, <2>2, OneWay
<1>6. CASE StopFull(c, got, flagged)
  <2> DEFINE t == [r EXCEPT !.at = "done", !.cut = TRUE, !.truncated = TRUE,
                            !.records = SubSeq(got, 1, r.max)]
  <2>1. r.max \in Nat /\ r.max <= Len(got)
    BY <1>1, <1>6, LimitsAssumption DEF Call, StopFull
  <2>2. SubSeq(got, 1, r.max) \in Seq(Feature)
    BY <1>4, <2>1
  <2>3. t \in Call /\ Stopped(t, got, page.next)
    BY <1>1, <1>6, <2>2 DEF Call, Stopped, StopFull, Feature
  <2>4. t.at = "done" /\ t.start = r.start /\ t.url = r.url /\ t.max = r.max /\ t.followed = r.followed
    BY <1>1 DEF Call
  <2>5. call' = [call EXCEPT ![c] = t]
    BY <1>6 DEF StopFull
  <2> HIDE DEF t
  <2>6. QED BY <1>5, <2>3, <2>4, <2>5
<1>7. CASE StopAtEnd(c, got, flagged)
  <2> DEFINE t == [r EXCEPT !.at = "done", !.truncated = flagged, !.records = got]
  <2>1. t \in Call /\ Stopped(t, got, page.next)
    BY <1>1, <1>4, <1>7 DEF Call, Stopped, StopAtEnd, Feature
  <2>2. t.at = "done" /\ t.start = r.start /\ t.url = r.url /\ t.max = r.max /\ t.followed = r.followed
    BY <1>1 DEF Call
  <2>3. call' = [call EXCEPT ![c] = t]
    BY <1>7 DEF StopAtEnd
  <2> HIDE DEF t
  <2>4. QED BY <1>5, <2>1, <2>2, <2>3
<1>8. CASE StopAtRepeat(c, got, flagged)
  <2> DEFINE t == [r EXCEPT !.at = "done", !.cut = TRUE, !.truncated = TRUE, !.records = got]
  <2>1. t \in Call /\ Stopped(t, got, page.next)
    BY <1>1, <1>4, <1>8 DEF Call, Stopped, StopAtRepeat, Feature
  <2>2. t.at = "done" /\ t.start = r.start /\ t.url = r.url /\ t.max = r.max /\ t.followed = r.followed
    BY <1>1 DEF Call
  <2>3. call' = [call EXCEPT ![c] = t]
    BY <1>8 DEF StopAtRepeat
  <2> HIDE DEF t
  <2>4. QED BY <1>5, <2>1, <2>2, <2>3
<1>9. CASE Follow(c, got, flagged)
  <2> DEFINE t == [r EXCEPT !.at = "lookup", !.url = page.next, !.records = got,
                            !.followed = @ \cup {page.next}]
             further == [k \in 0..n + 1 |-> IF k = n + 1 THEN page.next ELSE urls[k]]
             more == [k \in 0..n + 1 |-> IF k = n + 1 THEN got ELSE lists[k]]
  <2>1. /\ page.next \in Urls /\ page.next \notin r.followed \cup {None} /\ Len(got) < r.max
        /\ call' = [call EXCEPT ![c] = t]
    BY <1>2, <1>9 DEF Follow
  <2>2. /\ further \in [0..n + 1 -> Urls] /\ more \in [0..n + 1 -> Seq(Feature)]
        /\ further[n + 1] = page.next /\ more[n + 1] = got
        /\ \A k \in 0..n : further[k] = urls[k] /\ more[k] = lists[k]
    <3>1. \A k \in 0..n : k \in 0..n + 1 /\ k # n + 1
      BY <1>4
    <3>2. \A k \in 0..n + 1 : k \in 0..n \/ k = n + 1
      BY <1>4
    <3>3. n + 1 \in 0..n + 1 /\ urls \in [0..n -> Urls] /\ lists \in [0..n -> Seq(Feature)]
      BY <1>3, <1>4 DEF Trail
    <3>4. QED BY <1>4, <2>1, <3>1, <3>2, <3>3
  <2>3. /\ t.start = r.start /\ t.url = page.next /\ t.at = "lookup" /\ t.max = r.max
        /\ t.records = got /\ t.followed = r.followed \cup {page.next}
    BY <1>1 DEF Call
  <2> HIDE DEF t, further, more
  <2>4. t.followed = {further[k] : k \in 1..n + 1}
    <3>1. \A k \in 1..n : k \in 0..n /\ k \in 1..n + 1
      BY <1>4
    <3>2. \A k \in 1..n + 1 : k \in 1..n \/ k = n + 1
      BY <1>4
    <3>3. n + 1 \in 1..n + 1
      BY <1>4
    <3>4. r.followed = {urls[k] : k \in 1..n}
      BY <1>3 DEF Trail
    <3>5. QED BY <2>2, <2>3, <3>1, <3>2, <3>3, <3>4
  <2>5. ASSUME NEW k \in 0..n
        PROVE  /\ further[k + 1] = site[further[k]].next
               /\ more[k + 1] = Deduped(more[k], site[further[k]].features)
               /\ Len(more[k + 1]) < t.max
               /\ further[k + 1] \notin {further[j] : j \in 1..k} \cup {None}
    <3>1. \A j \in 1..k : j \in 0..n /\ j \in 1..n
      BY <1>4
    <3>2. {further[j] : j \in 1..k} = {urls[j] : j \in 1..k}
      BY <2>2, <3>1
    <3>3. CASE k = n
      <4>1. further[k] = r.url /\ more[k] = lists[n] /\ r.followed = {urls[j] : j \in 1..n}
        BY <1>3, <1>4, <2>2, <3>3 DEF Trail
      <4>2. QED BY <1>4, <2>1, <2>2, <2>3, <3>2, <3>3, <4>1
    <3>4. CASE k # n
      <4>1. k \in 0..n - 1 /\ k + 1 \in 0..n /\ k \in 0..n
        BY <1>4, <3>4
      <4>2. /\ urls[k + 1] = site[urls[k]].next
            /\ lists[k + 1] = Deduped(lists[k], site[urls[k]].features)
            /\ Len(lists[k + 1]) < r.max
            /\ urls[k + 1] \notin {urls[j] : j \in 1..k} \cup {None}
        BY <1>3, <4>1 DEF Trail
      <4>3. QED BY <2>2, <2>3, <3>2, <4>1, <4>2
    <3>5. QED BY <3>3, <3>4
  <2>6. Trail(t, n + 1, further, more)
    <3>1. n + 1 \in Nat /\ (n + 1) - 1 = n /\ 0 \in 0..n
      BY <1>4
    <3>2. further[0] = t.start /\ more[0] = <<>>
      BY <1>3, <2>2, <2>3, <3>1 DEF Trail
    <3>3. QED BY <2>2, <2>3, <2>4, <2>5, <3>1, <3>2 DEF Trail
  <2>7. WayInv(t)
    BY <2>2, <2>3, <2>6 DEF WayInv
  <2>8. QED BY <1>1, <2>1, <2>7, OneWay
<1>10. QED BY <1>6, <1>7, <1>8, <1>9 DEF TakePage, got

LEMMA StartWay ==
    ASSUME IInv, \A c \in Calls : WayInv(call[c]), NEW c \in Calls, NEW u \in Urls,
           NEW m \in Limits, Start(c, u, m)
    PROVE  \A d \in Calls : WayInv(call[d])'
<1> DEFINE r == [at |-> "lookup", url |-> u, max |-> m, records |-> <<>>, followed |-> {},
                 truncated |-> FALSE, start |-> u, cut |-> FALSE]
           urls == [k \in 0..0 |-> u]
           lists == [k \in 0..0 |-> <<>>]
<1>1. urls \in [0..0 -> Urls] /\ lists \in [0..0 -> Seq(Feature)] /\ urls[0] = u /\ lists[0] = <<>>
  OBVIOUS
<1>2. /\ r.start = u /\ r.url = u /\ r.followed = {} /\ r.at = "lookup" /\ r.records = <<>>
      /\ call' = [call EXCEPT ![c] = r] /\ UNCHANGED site
  BY DEF Start
<1> HIDE DEF r, urls, lists
<1>3. Trail(r, 0, urls, lists)
  BY <1>1, <1>2 DEF Trail
<1>4. WayInv(r)
  BY <1>1, <1>2, <1>3 DEF WayInv
<1>5. QED BY <1>2, <1>4, OneWay

LEMMA MissWay ==
    ASSUME IInv, \A c \in Calls : WayInv(call[c]), NEW c \in Calls, Miss(c)
    PROVE  \A d \in Calls : WayInv(call[d])'
<1> DEFINE r == call[c]
           t == [r EXCEPT !.at = "fetch"]
<1>1. r \in Call /\ r.at = "lookup"
  BY DEF IInv, TypeOK, Miss
<1>2. PICK n, urls, lists : Trail(r, n, urls, lists) /\ r.records = lists[n]
  BY <1>1 DEF WayInv
<1>3. /\ t.at = "fetch" /\ t.start = r.start /\ t.url = r.url /\ t.max = r.max
      /\ t.followed = r.followed /\ t.records = r.records
      /\ call' = [call EXCEPT ![c] = t] /\ UNCHANGED site
  BY <1>1 DEF Call, Miss
<1> HIDE DEF t
<1>4. Trail(t, n, urls, lists)
  BY <1>2, <1>3 DEF Trail
<1>5. WayInv(t)
  BY <1>2, <1>3, <1>4 DEF WayInv
<1>6. QED BY <1>3, <1>5, OneWay

LEMMA FailWay ==
    ASSUME IInv, \A c \in Calls : WayInv(call[c]), NEW c \in Calls, Fail(c)
    PROVE  \A d \in Calls : WayInv(call[d])'
<1> DEFINE t == [call[c] EXCEPT !.at = "failed", !.records = <<>>]
<1>1. t.at = "failed" /\ call' = [call EXCEPT ![c] = t] /\ UNCHANGED site
  BY DEF IInv, TypeOK, Call, Fail
<1> HIDE DEF t
<1>2. WayInv(t)
  BY <1>1 DEF WayInv
<1>3. QED BY <1>1, <1>2, OneWay

\* A restart, and a step that leaves the calls alone, change no call's way.
LEMMA WaysStay ==
    ASSUME \A c \in Calls : WayInv(call[c]), UNCHANGED site,
           \A c \in Calls : call'[c] = call[c] \/ call'[c].at = "failed"
    PROVE  \A d \in Calls : WayInv(call[d])'
<1>1. ASSUME NEW d \in Calls, call'[d].at = "failed" PROVE WayInv(call[d])'
  BY <1>1 DEF WayInv
<1>2. ASSUME NEW d \in Calls, call'[d] = call[d] PROVE WayInv(call[d])'
  <2>1. WayInv(call'[d])
    BY <1>2
  <2>2. QED BY <2>1, WayAfter
<1>3. QED BY <1>1, <1>2

LEMMA RestartWay ==
    ASSUME IInv, \A c \in Calls : WayInv(call[c]), NEW lost \in SUBSET Calls, Restart(lost)
    PROVE  \A d \in Calls : WayInv(call[d])'
<1>1. \A c \in Calls : call'[c] = call[c] \/ call'[c].at = "failed"
  BY DEF IInv, TypeOK, Call, Restart
<1>2. QED BY <1>1, WaysStay DEF Restart

\* The ways of the calls under way, and of those that are done, are as said.
LEMMA ItemsWays == Spec => [](\A c \in Calls : WayInv(call[c]))
<1> DEFINE Ways == \A c \in Calls : WayInv(call[c])
<1>1. Init => Ways
  BY DEF Init, WayInv
<1>2. IInv /\ Ways /\ [Next]_vars => Ways'
  <2> SUFFICES ASSUME IInv, Ways, [Next]_vars PROVE Ways'
    OBVIOUS
  <2>1. ASSUME NEW c \in Calls, Hit(c) PROVE Ways'
    <3>1. call[c].url \in Urls
      BY <2>1 DEF Hit, IInv, WalkInv
    <3>2. cache[call[c].url] \in BOOLEAN
      BY <2>1, <3>1 DEF Hit, IInv, TypeOK
    <3>3. QED BY <2>1, <3>2, TakePageWay DEF Hit
  <2>2. ASSUME NEW c \in Calls, Receive(c) PROVE Ways'
    BY <2>2, TakePageWay DEF Receive
  <2>3. ASSUME NEW u \in Urls, Expire(u) PROVE Ways'
    BY <2>3, WaysStay DEF Expire
  <2>4. CASE UNCHANGED vars
    BY <2>4, WaysStay DEF vars
  <2>5. QED BY <2>1, <2>2, <2>3, <2>4, StartWay, MissWay, FailWay, RestartWay DEF Next, Work
<1>3. QED BY <1>1, <1>2, ItemsInvariant, PTL DEF Spec

\* Calls with one start have one way, as far as both of them went.
LEMMA TrailsAgree ==
    ASSUME NEW p, NEW q, p.start = q.start,
           NEW n, NEW urls, NEW lists, Trail(p, n, urls, lists),
           NEW m, NEW urls2, NEW lists2, Trail(q, m, urls2, lists2),
           NEW k \in Nat, k <= n, k <= m
    PROVE  urls[k] = urls2[k] /\ lists[k] = lists2[k]
<1> DEFINE S == {i \in Nat : i <= n /\ i <= m => urls[i] = urls2[i] /\ lists[i] = lists2[i]}
<1>1. 0 \in S
  BY DEF Trail
<1>2. ASSUME NEW i \in Nat, i \in S PROVE i + 1 \in S
  <2> SUFFICES ASSUME i + 1 <= n, i + 1 <= m
               PROVE  urls[i + 1] = urls2[i + 1] /\ lists[i + 1] = lists2[i + 1]
    OBVIOUS
  <2>1. i <= n /\ i <= m /\ i \in 0..n - 1 /\ i \in 0..m - 1
    BY DEF Trail
  <2>2. urls[i] = urls2[i] /\ lists[i] = lists2[i]
    BY <1>2, <2>1
  <2>3. urls[i + 1] = site[urls[i]].next /\ lists[i + 1] = Deduped(lists[i], site[urls[i]].features)
    BY <2>1 DEF Trail
  <2>4. urls2[i + 1] = site[urls2[i]].next /\ lists2[i + 1] = Deduped(lists2[i], site[urls2[i]].features)
    BY <2>1 DEF Trail
  <2>5. QED BY <2>2, <2>3, <2>4
<1> HIDE DEF S
<1>3. \A i \in Nat : i \in S
  BY <1>1, <1>2, SetInduction
<1>4. QED BY <1>3 DEF S

\* A list only grows at its end along the way.
LEMMA TrailGrows ==
    ASSUME site \in Sites, NEW p, NEW n, NEW urls, NEW lists, Trail(p, n, urls, lists),
           NEW i \in 0..n, NEW j \in i..n
    PROVE  Begins(lists[j], lists[i])
<1> DEFINE S == {k \in Nat : i + k <= n => Begins(lists[i + k], lists[i])}
<1>1. n \in Nat /\ i \in Nat /\ j \in Nat /\ \A k \in 0..n : lists[k] \in Seq(Feature) /\ urls[k] \in Urls
  BY DEF Trail
<1>2. 0 \in S
  BY <1>1 DEF Begins
<1>3. ASSUME NEW k \in Nat, k \in S PROVE k + 1 \in S
  <2> SUFFICES ASSUME i + (k + 1) <= n PROVE Begins(lists[i + (k + 1)], lists[i])
    OBVIOUS
  <2>1. i + (k + 1) = (i + k) + 1 /\ i + k \in 0..n - 1 /\ i + k \in 0..n /\ i + k + 1 \in 0..n /\ i + k <= n
    BY <1>1
  <2>2. Begins(lists[i + k], lists[i])
    BY <1>3, <2>1
  <2>3. lists[(i + k) + 1] = Deduped(lists[i + k], site[urls[i + k]].features)
    BY <2>1 DEF Trail
  <2>4. site[urls[i + k]].features \in Seq(Feature)
    BY <1>1, <2>1, SitesAssumption DEF Page, Feature
  <2>5. Begins(lists[(i + k) + 1], lists[i + k])
    BY <1>1, <2>1, <2>3, <2>4, DedupedGets
  <2>6. QED BY <1>1, <2>1, <2>2, <2>5, BeginsTransitive
<1> HIDE DEF S
<1>4. \A k \in Nat : k \in S
  BY <1>2, <1>3, SetInduction
<1>5. j - i \in S /\ i + (j - i) = j /\ j <= n
  BY <1>1, <1>4
<1>6. QED BY <1>5 DEF S
\* A call that was at a place another went on from, at another limit, stopped there for
\* its limit: there was a next link, new to both.
LEMMA StoppedForLimit ==
    ASSUME site \in Sites, NEW p, NEW q, p.start = q.start,
           NEW n, NEW urls, NEW lists, Trail(p, n, urls, lists),
           NEW m, NEW urls2, NEW lists2, Trail(q, m, urls2, lists2), n < m,
           Stopped(p, Deduped(lists[n], site[p.url].features), site[p.url].next)
    PROVE  /\ Len(lists2[n + 1]) >= p.max /\ Len(lists2[n + 1]) < q.max
           /\ p.records = SubSeq(lists2[n + 1], 1, p.max)
<1>1. n \in Nat /\ m \in Nat /\ n \in 0..n /\ n \in 0..m - 1 /\ n + 1 \in 0..m
  BY DEF Trail
<1>2. \A k \in 0..n : urls[k] = urls2[k] /\ lists[k] = lists2[k]
  BY <1>1, TrailsAgree
<1>3. p.url = urls2[n] /\ lists[n] = lists2[n]
  BY <1>1, <1>2 DEF Trail
<1>4. /\ lists2[n + 1] = Deduped(lists[n], site[p.url].features) /\ Len(lists2[n + 1]) < q.max
      /\ site[p.url].next \notin {urls2[k] : k \in 1..n} \cup {None}
  BY <1>1, <1>3 DEF Trail
<1>5. p.followed = {urls2[k] : k \in 1..n}
  <2>1. \A k \in 1..n : urls[k] = urls2[k]
    BY <1>1, <1>2
  <2>2. p.followed = {urls[k] : k \in 1..n}
    BY DEF Trail
  <2>3. QED BY <2>1, <2>2
<1>6. QED BY <1>4, <1>5 DEF Stopped

\* The first k features of a list.
LEMMA Cut ==
    ASSUME NEW got \in Seq(Feature), NEW k \in Nat, k <= Len(got)
    PROVE  /\ SubSeq(got, 1, k) \in Seq(Feature) /\ Len(SubSeq(got, 1, k)) = k
           /\ \A i \in 1..k : SubSeq(got, 1, k)[i] = got[i]
OBVIOUS

\* Calls of one start give lists of which one begins with the other.
LEMMA WaysGiveAgreement ==
    IInv /\ (\A c \in Calls : WayInv(call[c])) => ResultsAgree
<1> SUFFICES ASSUME IInv, \A c \in Calls : WayInv(call[c]), NEW c \in Done, NEW d \in Done,
                    call[c].start = call[d].start, call[c].max <= call[d].max
             PROVE  IsPrefix(call[c].records, call[d].records)
  BY DEF ResultsAgree
<1> DEFINE p == call[c]
           q == call[d]
<1>1. /\ site \in Sites /\ p \in Call /\ q \in Call /\ p.at = "done" /\ q.at = "done"
      /\ p.max \in Nat /\ q.max \in Nat /\ p.max <= q.max /\ p.start = q.start
      /\ p.records \in Seq(Feature) /\ q.records \in Seq(Feature)
  <2>1. c \in Calls /\ d \in Calls /\ p.at = "done" /\ q.at = "done"
    BY DEF Done
  <2>2. p \in Call /\ q \in Call /\ site \in Sites
    BY <2>1 DEF IInv, TypeOK
  <2> HIDE DEF p, q
  <2>3. p.max \in Nat /\ q.max \in Nat /\ p.records \in Seq(Feature) /\ q.records \in Seq(Feature)
    <3>1. p.max \in Limits \cup {0} /\ q.max \in Limits \cup {0}
      BY <2>2 DEF Call
    <3>2. p.records \in Seq(Feature) /\ q.records \in Seq(Feature)
      BY <2>2 DEF Call, Feature
    <3>3. Limits \cup {0} \subseteq Nat
      BY LimitsAssumption
    <3>4. QED BY <3>1, <3>2, <3>3
  <2>4. QED BY <2>1, <2>2, <2>3 DEF p, q
<1>2. PICK n, urls, lists :
         /\ Trail(p, n, urls, lists)
         /\ Stopped(p, Deduped(lists[n], site[p.url].features), site[p.url].next)
  BY <1>1 DEF WayInv, Done
<1>3. PICK m, urls2, lists2 :
         /\ Trail(q, m, urls2, lists2)
         /\ Stopped(q, Deduped(lists2[m], site[q.url].features), site[q.url].next)
  BY <1>1 DEF WayInv, Done
<1> HIDE DEF p, q
<1> DEFINE got == Deduped(lists[n], site[p.url].features)
           got2 == Deduped(lists2[m], site[q.url].features)
<1>4. /\ n \in Nat /\ m \in Nat /\ lists[n] \in Seq(Feature) /\ lists2[m] \in Seq(Feature)
      /\ p.url \in Urls /\ q.url \in Urls
  BY <1>2, <1>3 DEF Trail
<1>5. got \in Seq(Feature) /\ got2 \in Seq(Feature) /\ Begins(got2, lists2[m])
  <2>1. site[p.url].features \in Seq(Feature) /\ site[q.url].features \in Seq(Feature)
    BY <1>1, <1>4, SitesAssumption DEF Page, Feature
  <2>2. QED BY <1>4, <2>1, DedupedGets
<1>6. Begins(q.records, p.records)
  <2>1. CASE n = m
    <3>1. lists[n] = lists2[m] /\ p.url = q.url
      <4>1. urls[n] = urls2[n] /\ lists[n] = lists2[n]
        BY <1>1, <1>2, <1>3, <1>4, <2>1, TrailsAgree
      <4>2. QED BY <1>2, <1>3, <2>1, <4>1 DEF Trail
    <3>2. got = got2
      BY <3>1
    <3>3. \/ Len(got) >= p.max /\ p.records = SubSeq(got, 1, p.max)
          \/ Len(got) < p.max /\ p.records = got
      BY <1>2 DEF Stopped
    <3>4. \/ Len(got) >= q.max /\ q.records = SubSeq(got, 1, q.max)
          \/ Len(got) < q.max /\ q.records = got
      BY <1>3, <3>2 DEF Stopped
    <3> HIDE DEF got, got2
    <3>5. CASE Len(got) < p.max
      <4>1. p.records = got /\ q.records = got
        BY <1>1, <1>5, <3>3, <3>4, <3>5
      <4>2. QED BY <1>5, <4>1 DEF Begins
    <3>6. CASE Len(got) >= p.max /\ Len(got) < q.max
      <4>1. p.records = SubSeq(got, 1, p.max) /\ q.records = got
        BY <1>1, <1>5, <3>3, <3>4, <3>6
      <4>2. QED BY <1>1, <1>5, <3>6, <4>1, Cut DEF Begins
    <3>7. CASE Len(got) >= q.max
      <4>1. p.records = SubSeq(got, 1, p.max) /\ q.records = SubSeq(got, 1, q.max)
            /\ p.max <= Len(got)
        BY <1>1, <1>5, <3>3, <3>4, <3>7
      <4>2. QED BY <1>1, <1>5, <3>7, <4>1, Cut DEF Begins
    <3>8. QED BY <1>1, <1>5, <3>5, <3>6, <3>7
  <2>2. CASE n < m
    <3>1. /\ Len(lists2[n + 1]) >= p.max /\ Len(lists2[n + 1]) < q.max
          /\ p.records = SubSeq(lists2[n + 1], 1, p.max)
      BY <1>1, <1>2, <1>3, <2>2, StoppedForLimit
    <3>2. n + 1 \in 0..m /\ m \in (n + 1)..m /\ m \in 0..m /\ m - 1 \in 0..m - 1
      BY <1>4, <2>2
    <3>3. lists2[n + 1] \in Seq(Feature)
      BY <1>3, <3>2 DEF Trail
    <3>4. Begins(lists2[m], lists2[n + 1])
      BY <1>1, <1>3, <3>2, TrailGrows
    <3>5. Begins(got2, lists2[n + 1])
      BY <1>4, <1>5, <3>3, <3>4, BeginsTransitive
    <3>6. \/ Len(got2) >= q.max /\ q.records = SubSeq(got2, 1, q.max)
          \/ Len(got2) < q.max /\ q.records = got2
      BY <1>3 DEF Stopped
    <3> HIDE DEF got, got2
    <3>7. /\ Len(p.records) = p.max
          /\ \A i \in 1..p.max : p.records[i] = lists2[n + 1][i]
      BY <1>1, <3>1, <3>3, Cut
    <3>8. \A i \in 1..p.max : lists2[n + 1][i] = got2[i]
      BY <1>1, <3>1, <3>3, <3>5 DEF Begins
    <3>9. Len(q.records) >= p.max /\ \A i \in 1..p.max : q.records[i] = got2[i]
      <4>1. CASE Len(got2) >= q.max /\ q.records = SubSeq(got2, 1, q.max)
        BY <1>1, <1>5, <4>1, Cut
      <4>2. CASE Len(got2) < q.max /\ q.records = got2
        BY <1>1, <1>5, <3>1, <3>3, <3>5, <4>2 DEF Begins
      <4>3. QED BY <3>6, <4>1, <4>2
    <3>10. QED BY <1>1, <3>7, <3>8, <3>9 DEF Begins
  <2>3. CASE m < n
    <3>1. Len(lists[m + 1]) >= q.max /\ Len(lists[m + 1]) < p.max
      BY <1>1, <1>2, <1>3, <2>3, StoppedForLimit
    <3>2. lists[m + 1] \in Seq(Feature)
      BY <1>2, <1>4, <2>3 DEF Trail
    <3>3. QED BY <1>1, <3>1, <3>2
  <2>4. QED BY <1>4, <2>1, <2>2, <2>3
<1>7. QED BY <1>1, <1>6 DEF Begins, IsPrefix, p, q

\* Whatever hits and misses two calls of one start came by, and whatever a restart threw
\* away in between, the shorter answer is the beginning of the longer.
THEOREM ItemsAgree == Spec => []ResultsAgree
BY ItemsInvariant, ItemsWays, WaysGiveAgreement, PTL
-----------------------------------------------------------------------------
\* The steps a call under way has before it at the most: two for each link it can still
\* follow, and those of the page it is at.
Remaining(r) ==
    LET ahead == 2 * Cardinality(Urls \ r.followed)
    IN CASE r.at = "lookup" -> ahead + 2
         [] r.at = "fetch" -> ahead + 1
         [] OTHER -> 0

\* Whatever a call under way does, or is done to it, brings it nearer to its end.
RunsDown == [][\A c \in UnderWay :
                  call'[c] = call[c] \/ Remaining(call'[c]) < Remaining(call[c])]_vars

\* A page taken ends the walk or uses up a link.
LEMMA TakePageRunsDown ==
    ASSUME IsFiniteSet(Urls), IInv, NEW c \in UnderWay, NEW flagged, TakePage(c, flagged)
    PROVE  Remaining(call'[c]) < Remaining(call[c])
<1> DEFINE r == call[c]
           got == Deduped(r.records, site[r.url].features)
           left == Cardinality(Urls \ r.followed)
<1>1. r \in Call /\ c \in Calls /\ r.at \in {"lookup", "fetch"} /\ call \in [Calls -> Call]
      /\ r.url \in Urls /\ site \in Sites
  BY DEF IInv, TypeOK, UnderWay, WalkInv
<1>2. IsFiniteSet(Urls \ r.followed) /\ left \in Nat
  <2>1. IsFiniteSet(Urls \ r.followed)
    BY FS_Subset
  <2>2. QED BY <2>1, FS_CardinalityType
<1>3. Remaining(r) >= 2 * left + 1 /\ Remaining(r) \in Nat
  BY <1>1, <1>2 DEF Remaining
<1>4. ASSUME call'[c].at = "done" PROVE Remaining(call'[c]) < Remaining(call[c])
  BY <1>2, <1>3, <1>4 DEF Remaining
<1>5. CASE StopFull(c, got, flagged)
  BY <1>1, <1>4, <1>5 DEF StopFull, Call
<1>6. CASE StopAtEnd(c, got, flagged)
  BY <1>1, <1>4, <1>6 DEF StopAtEnd, Call
<1>7. CASE StopAtRepeat(c, got, flagged)
  BY <1>1, <1>4, <1>7 DEF StopAtRepeat, Call
<1>8. CASE Follow(c, got, flagged)
  <2> DEFINE next == site[r.url].next
  <2>1. next \in Urls \ r.followed
    <3>1. next \in Urls \cup {None}
      BY <1>1, SitesAssumption DEF Page
    <3>2. QED BY <1>8, <3>1 DEF Follow
  <2>2. call'[c].at = "lookup" /\ call'[c].followed = r.followed \cup {next}
    BY <1>1, <1>8 DEF Follow, Call
  <2>3. Urls \ call'[c].followed = (Urls \ r.followed) \ {next}
    BY <2>2
  <2>4. Cardinality(Urls \ call'[c].followed) = left - 1
    <3> DEFINE S == Urls \ r.followed
    <3>1. IsFiniteSet(S) /\ next \in S
      BY <1>2, <2>1
    <3> HIDE DEF S, next
    <3>2. Cardinality(S \ {next}) = Cardinality(S) - 1
      BY <3>1, FS_RemoveElement
    <3>3. QED BY <2>3, <3>2 DEF S
  <2>5. Remaining(call'[c]) = 2 * (left - 1) + 2
    BY <2>2, <2>4 DEF Remaining
  <2>6. QED BY <1>2, <1>3, <2>5
<1>9. QED BY <1>5, <1>6, <1>7, <1>8 DEF TakePage

\* A call is over after at most two steps for each URL, and two more, on any graph of
\* next links: SGU is asked at most once more than there are URLs.
THEOREM ItemsRunDown == ASSUME IsFiniteSet(Urls) PROVE Spec => RunsDown
<1>1. IInv /\ [Next]_vars =>
         [\A c \in UnderWay :
             call'[c] = call[c] \/ Remaining(call'[c]) < Remaining(call[c])]_vars
  <2> SUFFICES ASSUME IInv, Next, NEW c \in UnderWay, call'[c] # call[c]
               PROVE  Remaining(call'[c]) < Remaining(call[c])
    OBVIOUS
  <2>1. c \in Calls /\ call[c] \in Call /\ call[c].at \in {"lookup", "fetch"}
        /\ call \in [Calls -> Call]
    BY DEF IInv, TypeOK, UnderWay
  <2>2. Cardinality(Urls \ call[c].followed) \in Nat
    <3>1. IsFiniteSet(Urls \ call[c].followed)
      BY FS_Subset
    <3>2. QED BY <3>1, FS_CardinalityType
  <2>3. ASSUME call'[c].at = "failed" PROVE Remaining(call'[c]) < Remaining(call[c])
    <3>1. Remaining(call'[c]) = 0
      BY <2>3 DEF Remaining
    <3>2. Remaining(call[c]) > 0
      BY <2>1, <2>2 DEF Remaining
    <3>3. QED BY <2>1, <2>2, <3>1, <3>2 DEF Remaining
  <2>4. ASSUME NEW d \in Calls, Hit(d) PROVE Remaining(call'[c]) < Remaining(call[c])
    <3>1. TakePage(d, cache[call[d].url])
      BY <2>4 DEF Hit
    <3>2. c = d
      BY <2>1, <3>1 DEF TakePage, StopFull, StopAtEnd, StopAtRepeat, Follow
    <3>3. QED BY <3>1, <3>2, TakePageRunsDown
  <2>5. ASSUME NEW d \in Calls, Receive(d) PROVE Remaining(call'[c]) < Remaining(call[c])
    <3>1. TakePage(d, FALSE)
      BY <2>5 DEF Receive
    <3>2. c = d
      BY <2>1, <3>1 DEF TakePage, StopFull, StopAtEnd, StopAtRepeat, Follow
    <3>3. QED BY <3>1, <3>2, TakePageRunsDown
  <2>6. ASSUME NEW d \in Calls, Miss(d) PROVE Remaining(call'[c]) < Remaining(call[c])
    <3>1. c = d /\ call[c].at = "lookup" /\ call'[c] = [call[c] EXCEPT !.at = "fetch"]
      BY <2>1, <2>6 DEF Miss
    <3>2. call'[c].at = "fetch" /\ call'[c].followed = call[c].followed
      BY <2>1, <3>1 DEF Call
    <3>3. QED BY <2>2, <3>1, <3>2 DEF Remaining
  <2>7. ASSUME NEW d \in Calls, Fail(d) PROVE Remaining(call'[c]) < Remaining(call[c])
    <3>1. c = d
      BY <2>1, <2>7 DEF Fail
    <3>2. QED BY <2>1, <2>3, <2>7, <3>1 DEF Fail, Call
  <2>8. ASSUME NEW lost \in SUBSET Calls, Restart(lost)
        PROVE  Remaining(call'[c]) < Remaining(call[c])
    BY <2>1, <2>3, <2>8 DEF Restart, Call
  <2>9. ASSUME NEW d \in Calls, NEW u \in Urls, NEW m \in Limits, Start(d, u, m) PROVE FALSE
    BY <2>1, <2>9 DEF Start
  <2>10. ASSUME NEW u \in Urls, Expire(u) PROVE FALSE
    BY <2>10 DEF Expire
  <2>11. QED BY <2>4, <2>5, <2>6, <2>7, <2>8, <2>9, <2>10 DEF Next, Work
<1>2. QED BY <1>1, ItemsInvariant, PTL DEF Spec, RunsDown
=============================================================================
