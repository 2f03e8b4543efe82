--------------------------- MODULE TTLCacheProofs ---------------------------
(***************************************************************************)
(* TLAPS proofs about TTLCache, for every set of keys and values, every    *)
(* maxsize and every ttl: types, the size bound, the reasons for which an  *)
(* entry may be lost, and that the cache implements ExpiringStore.         *)
(***************************************************************************)
EXTENDS TTLCache, FiniteSetTheorems, TLAPS

\* The inductive invariant.  The last part ties the order of the dictionary to
\* the history of uses: without it nothing says that the entry popitem takes is
\* the one that has gone longest unused.
OrderIsUse == before \subseteq usedBefore
IInv == TypeOK /\ Bounded /\ OrderIsUse

\* A resident set is finite, and so are its subsets.
LEMMA ResidentFinite ==
    ASSUME TypeOK
    PROVE  /\ IsFiniteSet(resident)
           /\ Cardinality(resident) \in Nat
           /\ \A R \in SUBSET resident : /\ IsFiniteSet(R)
                                         /\ Cardinality(R) \in Nat
                                         /\ Cardinality(R) <= Cardinality(resident)
<1>1. IsFiniteSet(resident)
  BY KeysAssumption, FS_Subset DEF TypeOK
<1>2. ASSUME NEW R \in SUBSET resident
      PROVE  IsFiniteSet(R) /\ Cardinality(R) \in Nat /\ Cardinality(R) <= Cardinality(resident)
  <2>1. IsFiniteSet(R) /\ Cardinality(R) <= Cardinality(resident)
    BY <1>1, <1>2, FS_Subset
  <2>2. Cardinality(R) \in Nat
    BY <2>1, FS_CardinalityType
  <2>3. QED BY <2>1, <2>2
<1>3. Cardinality(resident) \in Nat
  BY <1>1, FS_CardinalityType
<1>4. QED BY <1>1, <1>2, <1>3

\* Restricting the dictionary to some of its keys keeps the inductive invariant,
\* as long as the clock and the history stay.
LEMMA KeepOnlyInv ==
    ASSUME IInv, NEW R \in SUBSET resident, KeepOnly(R, store, before),
           UNCHANGED <<now, usedBefore>>,
           reply' \in [op : Operations, key : Keys \cup {None}, value : Values \cup {None}]
    PROVE  IInv'
<1>1. resident' = R /\ \A k \in R : store'[k] = store[k]
  BY DEF KeepOnly, resident
<1>2. TypeOK'
  <2>1. resident' \subseteq Keys /\ store' \in [resident' -> Entry]
    BY <1>1 DEF KeepOnly, IInv, TypeOK
  <2>2. before' \subseteq resident' \X resident'
    BY <1>1 DEF KeepOnly
  <2>3. ASSUME NEW x \in resident', NEW y \in resident'
        PROVE  /\ x # y => (<<x, y>> \in before' <=> <<y, x>> \notin before')
               /\ <<x, x>> \notin before'
    <3>1. x \in resident /\ y \in resident /\ x \in R /\ y \in R
      BY <1>1, <2>3
    <3>2. /\ <<x, y>> \in before' <=> <<x, y>> \in before
          /\ <<y, x>> \in before' <=> <<y, x>> \in before
          /\ <<x, x>> \in before' <=> <<x, x>> \in before
      BY <3>1 DEF KeepOnly
    <3>3. QED BY <3>1, <3>2 DEF IInv, TypeOK
  <2>4. QED BY <2>1, <2>2, <2>3 DEF IInv, TypeOK
<1>3. Bounded'
  BY <1>1, ResidentFinite, MaxSizeAssumption DEF IInv, Bounded
<1>4. OrderIsUse'
  BY DEF KeepOnly, IInv, OrderIsUse
<1>5. QED BY <1>2, <1>3, <1>4 DEF IInv

\* Making k the last of an order on R that lacked at most k gives an order on R.
LEMMA LastInOrders ==
    ASSUME IInv, NEW k \in Keys, NEW R, R = resident \cup {k},
           NEW order, order = LastIn(before, R, k)
    PROVE  /\ order \subseteq R \X R
           /\ \A x \in R : \A y \in R : x # y => (<<x, y>> \in order <=> <<y, x>> \notin order)
           /\ \A x \in R : <<x, x>> \notin order
           /\ order \subseteq LastIn(usedBefore, Keys, k)
           /\ \A y \in R : <<k, y>> \notin order
<1>1. ASSUME NEW x, NEW y
      PROVE  <<x, y>> \in order <=> \/ x # k /\ y # k /\ <<x, y>> \in before
                                    \/ x \in R /\ x # k /\ y = k
  BY <1>1 DEF LastIn
<1>2. order \subseteq R \X R
  BY DEF LastIn, IInv, TypeOK
<1>3. ASSUME NEW x \in R, NEW y \in R
      PROVE  /\ x # y => (<<x, y>> \in order <=> <<y, x>> \notin order)
             /\ <<x, x>> \notin order
             /\ <<k, y>> \notin order
  BY <1>1, <1>3 DEF IInv, TypeOK
<1>4. order \subseteq LastIn(usedBefore, Keys, k)
  BY DEF LastIn, IInv, TypeOK, OrderIsUse
<1>5. QED BY <1>2, <1>3, <1>4

\* What a set of key k keeps: k itself, and everything unless the cache was
\* full and k is new.
LEMMA SetKeeps ==
    ASSUME IInv, NEW k \in Keys, NEW R, R = resident \cup {k},
           NEW K \in SUBSET R, Kept(R, LastIn(before, R, k), K)
    PROVE  /\ k \in K
           /\ Cardinality(K) <= MaxSize
           /\ K # R => k \notin resident /\ Cardinality(resident) = MaxSize
<1>1. /\ IsFiniteSet(resident) /\ Cardinality(resident) \in Nat
      /\ Cardinality(resident) <= MaxSize
  BY ResidentFinite DEF IInv, Bounded
<1>2. /\ IsFiniteSet(R) /\ Cardinality(R) \in Nat
      /\ Cardinality(R) = IF k \in resident THEN Cardinality(resident)
                                            ELSE Cardinality(resident) + 1
  BY <1>1, FS_AddElement, FS_CardinalityType
<1>3. Cardinality(K) = IF Cardinality(R) > MaxSize THEN MaxSize ELSE Cardinality(R)
  BY DEF Kept
<1>4. Cardinality(K) <= MaxSize
  BY <1>2, <1>3, MaxSizeAssumption
<1>5. K # {}
  <2>1. Cardinality(R) > 0
    BY <1>2, FS_EmptySet
  <2>2. Cardinality(K) # 0
    BY <1>2, <1>3, <2>1, MaxSizeAssumption
  <2>3. QED BY <2>2, FS_EmptySet
<1>6. k \in K
  <2>1. SUFFICES ASSUME k \notin K PROVE FALSE
    OBVIOUS
  <2>2. PICK y \in K : TRUE
    BY <1>5
  <2>3. <<k, y>> \in LastIn(before, R, k)
    BY <2>1, <2>2 DEF Kept
  <2>4. QED BY <2>2, <2>3, LastInOrders
<1>7. ASSUME K # R
      PROVE  k \notin resident /\ Cardinality(resident) = MaxSize
  <2>1. Cardinality(K) # Cardinality(R)
    BY <1>2, <1>7, FS_Subset
  <2>2. QED BY <1>1, <1>2, <1>3, <2>1, MaxSizeAssumption
<1>8. QED BY <1>4, <1>6, <1>7

\* Reading keeps the invariant: a hit moves a key, an expired entry leaves it.
LEMMA GetInv == ASSUME IInv, NEW k \in Keys, Get(k) PROVE IInv'
<1>1. CASE GetMiss(k)
  BY <1>1 DEF Get, GetMiss, Answer, IInv, TypeOK, Bounded, OrderIsUse, Operations, resident
<1>2. CASE GetExpired(k)
  <2>1. resident \ {k} \in SUBSET resident
    OBVIOUS
  <2>2. reply' \in [op : Operations, key : Keys \cup {None}, value : Values \cup {None}]
    BY <1>2 DEF GetExpired, Answer, Operations
  <2>3. KeepOnly(resident \ {k}, store, before) /\ UNCHANGED <<now, usedBefore>>
    BY <1>2 DEF Get, GetExpired
  <2>4. QED BY <2>1, <2>2, <2>3, KeepOnlyInv
<1>3. CASE GetHit(k)
  <2>1. resident = resident \cup {k} /\ resident' = resident
    BY <1>3 DEF GetHit, resident
  <2>2. before' = LastIn(before, resident, k) /\ usedBefore' = LastIn(usedBefore, Keys, k)
    BY <1>3 DEF GetHit, Use
  <2>3. /\ before' \subseteq resident \X resident
        /\ \A x \in resident : \A y \in resident :
              x # y => (<<x, y>> \in before' <=> <<y, x>> \notin before')
        /\ \A x \in resident : <<x, x>> \notin before'
        /\ before' \subseteq usedBefore'
    BY <2>1, <2>2, LastInOrders
  <2>4. usedBefore' \subseteq Keys \X Keys
    BY <2>2 DEF LastIn, IInv, TypeOK
  <2>5. reply' \in [op : Operations, key : Keys \cup {None}, value : Values \cup {None}]
    BY <1>3 DEF GetHit, Answer, Operations, IInv, TypeOK, Entry
  <2>6. UNCHANGED <<store, now>>
    BY <1>3 DEF Get, GetHit
  <2>7. TypeOK'
    BY <2>1, <2>3, <2>4, <2>5, <2>6 DEF IInv, TypeOK
  <2>8. QED BY <2>1, <2>3, <2>7 DEF IInv, Bounded, OrderIsUse
<1>4. QED BY <1>1, <1>2, <1>3 DEF Get

\* Writing keeps the invariant: what is evicted makes room for the new key.
LEMMA SetInv ==
    ASSUME IInv, NEW k \in Keys, NEW v \in Values, NEW ttl \in TTLs, Set(k, v, ttl)
    PROVE  IInv'
<1> DEFINE grown == resident \cup {k}
           order == LastIn(before, grown, k)
           contents == [x \in grown |-> IF x = k THEN [value |-> v, expires |-> now + ttl]
                                                 ELSE store[x]]
<1>1. PICK K \in SUBSET grown : Kept(grown, order, K) /\ KeepOnly(K, contents, order)
  BY DEF Set
<1>2. resident' = K /\ before' = order \cap (K \X K)
  BY <1>1 DEF KeepOnly, resident
<1>3. usedBefore' = LastIn(usedBefore, Keys, k) /\ UNCHANGED now
  BY DEF Set, Use
<1>4. contents \in [grown -> Entry]
  BY TimeAssumption DEF IInv, TypeOK, Entry
<1>5. store' \in [K -> Entry] /\ K \subseteq Keys
  BY <1>1, <1>4 DEF KeepOnly, IInv, TypeOK
<1>6. \A x \in K : \A y \in K :
         (x # y => (<<x, y>> \in before' <=> <<y, x>> \notin before')) /\ <<x, x>> \notin before'
  <2>1. /\ \A x \in grown : \A y \in grown :
              x # y => (<<x, y>> \in order <=> <<y, x>> \notin order)
        /\ \A x \in grown : <<x, x>> \notin order
    BY LastInOrders
  <2>2. \A x \in K : \A y \in K : <<x, y>> \in before' <=> <<x, y>> \in order
    BY <1>2
  <2>3. K \subseteq grown
    OBVIOUS
  <2>4. HIDE DEF order, grown
  <2>5. QED BY <2>1, <2>2, <2>3
<1>7. before' \subseteq usedBefore'
  BY <1>2, <1>3, LastInOrders
<1>8. usedBefore' \subseteq Keys \X Keys
  BY <1>3 DEF LastIn, IInv, TypeOK
<1>9. reply' \in [op : Operations, key : Keys \cup {None}, value : Values \cup {None}]
  BY DEF Set, Answer, Operations
<1>10. TypeOK'
  BY <1>2, <1>3, <1>5, <1>6, <1>8, <1>9 DEF IInv, TypeOK
<1>11. Bounded'
  BY <1>1, <1>2, SetKeeps DEF Bounded
<1>12. QED BY <1>7, <1>10, <1>11 DEF IInv, OrderIsUse

\* The inductive step, one case per operation.
LEMMA Inductive == IInv /\ [Next]_vars => IInv'
<1> SUFFICES ASSUME IInv, [Next]_vars PROVE IInv'
  OBVIOUS
<1> USE DEF Operations
<1>1. CASE \E k \in Keys : Get(k)
  BY <1>1, GetInv
<1>2. CASE \E k \in Keys, v \in Values, ttl \in TTLs : Set(k, v, ttl)
  BY <1>2, SetInv
<1>3. ASSUME NEW k \in Keys, Delete(k) PROVE IInv'
  <2>1. resident \ {k} \in SUBSET resident
    OBVIOUS
  <2>2. reply' \in [op : Operations, key : Keys \cup {None}, value : Values \cup {None}]
    BY <1>3 DEF Delete, Answer
  <2>3. KeepOnly(resident \ {k}, store, before) /\ UNCHANGED <<now, usedBefore>>
    BY <1>3 DEF Delete
  <2>4. QED BY <2>1, <2>2, <2>3, KeepOnlyInv
<1>4. CASE Clear
  <2>1. reply' \in [op : Operations, key : Keys \cup {None}, value : Values \cup {None}]
    BY <1>4 DEF Clear, Answer
  <2>2. KeepOnly({}, store, before) /\ UNCHANGED <<now, usedBefore>>
    BY <1>4 DEF Clear
  <2>3. QED BY <2>1, <2>2, KeepOnlyInv
<1>5. CASE PurgeExpired
  <2>1. {k \in resident : ~Expired(k)} \in SUBSET resident
    OBVIOUS
  <2>2. reply' \in [op : Operations, key : Keys \cup {None}, value : Values \cup {None}]
    BY <1>5 DEF PurgeExpired, Answer
  <2>3. /\ KeepOnly({k \in resident : ~Expired(k)}, store, before)
        /\ UNCHANGED <<now, usedBefore>>
    BY <1>5 DEF PurgeExpired
  <2>4. QED BY <2>1, <2>2, <2>3, KeepOnlyInv
<1>6. CASE Tick
  BY <1>6, TimeAssumption DEF Tick, IInv, TypeOK, Bounded, OrderIsUse, resident
<1>7. CASE UNCHANGED vars
  BY <1>7 DEF vars, IInv, TypeOK, Bounded, OrderIsUse, resident
<1>8. QED BY <1>1, <1>2, <1>3, <1>4, <1>5, <1>6, <1>7 DEF Next

\* The cache starts empty.
LEMMA Initial == Init => IInv
<1> SUFFICES ASSUME Init PROVE IInv
  OBVIOUS
<1>1. resident = {}
  BY DEF Init, resident
<1>2. TypeOK
  BY <1>1, TimeAssumption DEF Init, TypeOK, Entry, Operations
<1>3. Bounded
  BY <1>1, FS_EmptySet, MaxSizeAssumption DEF Bounded
<1>4. QED BY <1>2, <1>3 DEF Init, IInv, OrderIsUse

\* In every state the cache can reach, its variables have their types, it holds
\* at most maxsize entries, and the order of the dictionary is the order of use.
THEOREM CacheInvariant == Spec => []IInv
BY Initial, Inductive, PTL DEF Spec

\* The order the dictionary keeps is one of its keys, and what it holds is entries.
THEOREM CacheTypes == Spec => []TypeOK
<1>1. IInv => TypeOK
  BY DEF IInv
<1>2. QED BY CacheInvariant, <1>1, PTL

\* The cache never holds more than maxsize entries.
THEOREM CacheBounded == Spec => [](TypeOK /\ Bounded)
<1>1. IInv => TypeOK /\ Bounded
  BY DEF IInv
<1>2. QED BY CacheInvariant, <1>1, PTL

\* An entry is lost only because it was deleted, cleared or expired, or because
\* a new key found the cache full and it had gone longest without being used.
THEOREM LossesHaveACause == Spec => NothingLostWithoutCause
<1> DEFINE Caused == \A k \in resident \ DOMAIN store' : LostFor(k)
<1>1. IInv /\ [Next]_vars => [Caused]_vars
  <2> SUFFICES ASSUME IInv, Next, NEW x \in resident, x \notin DOMAIN store'
               PROVE  LostFor(x)
    BY DEF resident
  <2> USE DEF LostFor, Answer, KeepOnly
  <2>1. ASSUME NEW k \in Keys, Get(k) PROVE LostFor(x)
    BY <2>1 DEF Get, GetMiss, GetExpired, GetHit, resident
  <2>2. ASSUME NEW k \in Keys, Delete(k) PROVE LostFor(x)
    BY <2>2 DEF Delete
  <2>3. ASSUME NEW k \in Keys, NEW v \in Values, NEW ttl \in TTLs, Set(k, v, ttl)
        PROVE  LostFor(x)
    <3> DEFINE grown == resident \cup {k}
               order == LastIn(before, grown, k)
    <3>1. PICK K \in SUBSET grown : Kept(grown, order, K) /\ DOMAIN store' = K
      BY <2>3 DEF Set
    <3>2. x \in grown \ K /\ k \in K
      BY <3>1, SetKeeps
    <3>3. k \notin resident /\ Cardinality(resident) = MaxSize
      BY <3>1, <3>2, SetKeeps
    <3>4. \A y \in DOMAIN store' : <<x, y>> \in order
      BY <3>1, <3>2 DEF Kept
    <3>5. order \subseteq usedBefore'
      BY <2>3, LastInOrders DEF Set, Use
    <3>6. reply'.op = "set" /\ reply'.key = k
      BY <2>3 DEF Set
    <3>7. QED BY <3>3, <3>4, <3>5, <3>6
  <2>4. CASE Clear
    BY <2>4 DEF Clear
  <2>5. CASE PurgeExpired
    BY <2>5 DEF PurgeExpired
  <2>6. CASE Tick
    BY <2>6 DEF Tick, resident
  <2>7. QED BY <2>1, <2>2, <2>3, <2>4, <2>5, <2>6 DEF Next
<1>2. QED BY CacheInvariant, <1>1, PTL DEF Spec, NothingLostWithoutCause

\* The cache implements ExpiringStore: a get answers None or the value last set
\* under the key, never after its ttl.
THEOREM CacheRefinesStore == Spec => IsExpiringStore
<1> DEFINE held == [k \in Keys |-> IF k \in resident THEN store[k] ELSE None]
<1>1. Init => Abstract!Init
  BY DEF Init, Abstract!Init, Abstract!NoAnswer, resident
<1>2. IInv /\ [Next]_vars => [Abstract!Next]_(Abstract!vars)
  <2> SUFFICES ASSUME IInv, [Next]_vars PROVE [Abstract!Next]_(Abstract!vars)
    OBVIOUS
  <2> USE DEF Abstract!OthersMayGo, Abstract!NoAnswer
  <2>1. held \in [Keys -> Abstract!Entry \cup {None}]
    BY DEF IInv, TypeOK, Entry, Abstract!Entry
  <2>2. IInv'
    BY Inductive
  <2>3. held' \in [Keys -> Abstract!Entry \cup {None}]
    BY <2>2 DEF IInv, TypeOK, Entry, Abstract!Entry
  <2>4. ASSUME NEW R \in SUBSET resident, KeepOnly(R, store, before)
        PROVE  Abstract!OthersMayGo({})
    BY <2>4 DEF KeepOnly, resident
  <2>5. ASSUME NEW k \in Keys, Get(k) PROVE Abstract!Lookup(k)
    <3>1. CASE GetMiss(k)
      BY <2>1, <2>5, <3>1 DEF Get, GetMiss, Answer, resident, Abstract!Lookup, Abstract!Miss
    <3>2. CASE GetExpired(k)
      BY <2>3, <2>4, <2>5, <3>2
      DEF Get, GetExpired, Answer, Abstract!Lookup, Abstract!Miss
    <3>3. CASE GetHit(k)
      BY <2>1, <2>5, <3>3, NoneAssumption
      DEF Get, GetHit, Answer, resident, Expired, IInv, TypeOK, Entry, Abstract!Lookup, Abstract!Serve
    <3>4. QED BY <2>5, <3>1, <3>2, <3>3 DEF Get
  <2>6. ASSUME NEW k \in Keys, NEW v \in Values, NEW ttl \in TTLs, Set(k, v, ttl)
        PROVE  Abstract!Put(k, v)
    <3> DEFINE grown == resident \cup {k}
               order == LastIn(before, grown, k)
               new == [value |-> v, expires |-> now + ttl]
               contents == [x \in grown |-> IF x = k THEN new ELSE store[x]]
    <3>1. PICK K \in SUBSET grown : Kept(grown, order, K) /\ KeepOnly(K, contents, order)
      BY <2>6 DEF Set
    <3>2. k \in K
      BY <3>1, SetKeeps
    <3>3. new \in Entry /\ new # None /\ new.value = v
      BY TimeAssumption, NoneAssumption DEF IInv, TypeOK, Entry
    <3>4. /\ resident' = K
          /\ store'[k] = new
          /\ \A x \in K \ {k} : x \in resident /\ store'[x] = store[x]
      BY <3>1, <3>2 DEF KeepOnly, resident
    <3>5. held'[k] = new /\ \A x \in Keys \ {k} : held'[x] \in {held[x], None}
      BY <3>2, <3>4
    <3>6. reply'.op # "get" /\ UNCHANGED now
      BY <2>6 DEF Set, Answer
    <3>7. now' \in Int
      BY <2>2 DEF IInv, TypeOK
    <3>8. QED BY <2>3, <3>3, <3>5, <3>6, <3>7 DEF Abstract!Put
  <2>7. ASSUME NEW R \in SUBSET resident, KeepOnly(R, store, before),
               UNCHANGED now, reply'.op # "get"
        PROVE  Abstract!Forget
    BY <2>3, <2>4, <2>7 DEF Abstract!Forget
  <2>8. ASSUME NEW k \in Keys, Delete(k) PROVE Abstract!Forget
    <3>1. resident \ {k} \in SUBSET resident
      OBVIOUS
    <3>2. KeepOnly(resident \ {k}, store, before) /\ UNCHANGED now /\ reply'.op # "get"
      BY <2>8 DEF Delete, Answer
    <3>3. QED BY <2>7, <3>1, <3>2
  <2>9. CASE Clear
    <3>1. KeepOnly({}, store, before) /\ UNCHANGED now /\ reply'.op # "get"
      BY <2>9 DEF Clear, Answer
    <3>2. QED BY <2>7, <3>1 DEF Abstract!Next
  <2>10. CASE PurgeExpired
    <3> DEFINE R == {k \in resident : ~Expired(k)}
    <3>1. R \in SUBSET resident
      OBVIOUS
    <3>2. KeepOnly(R, store, before) /\ UNCHANGED now /\ reply'.op # "get"
      BY <2>10 DEF PurgeExpired, Answer
    <3>3. QED BY <2>7, <3>1, <3>2 DEF Abstract!Next
  <2>11. CASE Tick
    BY <2>2, <2>11 DEF Tick, resident, IInv, TypeOK, Abstract!Pass, Abstract!Next
  <2>12. CASE UNCHANGED vars
    BY <2>12 DEF vars, resident, Abstract!vars
  <2>13. QED BY <2>5, <2>6, <2>8, <2>9, <2>10, <2>11, <2>12 DEF Next, Abstract!Next
<1>3. QED BY CacheInvariant, <1>1, <1>2, PTL DEF Spec, IsExpiringStore, Abstract!Spec
=============================================================================
