------------------------------ MODULE TTLCache ------------------------------
(***************************************************************************)
(* mcp_sgu.cache.TTLCache: a bounded mapping in least-recently-used order  *)
(* whose entries expire.  Every method body runs under an asyncio.Lock and *)
(* awaits nothing inside it, so each operation is one step.  The order of  *)
(* the OrderedDict is kept as the relation "x stands before y", so that    *)
(* move_to_end, del and popitem(last=False) are operations on sets.        *)
(***************************************************************************)
EXTENDS Integers, FiniteSets

CONSTANTS Keys, Values, None,
          MaxSize,   \* maxsize
          TTLs,      \* the ttl arguments of set; a ttl of 0 is allowed
          MaxTime    \* bound: the clock stops here

ASSUME MaxSizeAssumption == MaxSize \in Nat \ {0}
ASSUME TimeAssumption == TTLs \subseteq Nat /\ MaxTime \in Nat

Entry == [value : Values, expires : Nat]

ASSUME KeysAssumption == IsFiniteSet(Keys)
ASSUME NoneAssumption == None \notin Keys \cup Values \cup Entry

VARIABLES store,       \* _store: the entries, a function on the resident keys
          before,      \* the order of _store, as pairs <<x, y>>: x stands before y
          now,         \* time.monotonic()
          reply,       \* the latest operation, its key and the value it returned
          usedBefore   \* history: <<x, y>> iff y was hit or set after x last was

vars == <<store, before, now, reply, usedBefore>>

Operations == {"init", "get", "set", "delete", "clear", "purge_expired"}
resident == DOMAIN store

ExpiredLate(k) == now > store[k].expires      \* altered: served at the deadline

Expired(k) == now >= store[k].expires

TypeOK == /\ resident \subseteq Keys /\ store \in [resident -> Entry]
          /\ before \subseteq resident \X resident
          /\ \A x \in resident : \A y \in resident :
                 x # y => (<<x, y>> \in before <=> <<y, x>> \notin before)
          /\ \A x \in resident : <<x, x>> \notin before
          /\ now \in 0..MaxTime
          /\ reply \in [op : Operations, key : Keys \cup {None}, value : Values \cup {None}]
          /\ usedBefore \subseteq Keys \X Keys

Init == /\ store = [k \in {} |-> None]
        /\ before = {}
        /\ now = 0
        /\ reply = [op |-> "init", key |-> None, value |-> None]
        /\ usedBefore = {}
-----------------------------------------------------------------------------
LastInTwice(order, R, k) ==    \* altered: the old position is not given up
    order \cup (R \ {k}) \X {k}

\* move_to_end(k) in an order over the keys of R, or appending a new k.
LastIn(order, R, k) == {p \in order : p[1] # k /\ p[2] # k} \cup (R \ {k}) \X {k}

Use(k) == usedBefore' = LastIn(usedBefore, Keys, k)

\* Keep the entries of R and their order.
KeepOnly(R, contents, order) ==
    /\ store' = [k \in R |-> contents[k]]
    /\ before' = order \cap (R \X R)

Answer(op, k, v) == reply' = [op |-> op, key |-> k, value |-> v]

GetMiss(k) ==
    /\ k \notin resident
    /\ Answer("get", k, None)
    /\ UNCHANGED <<store, before, usedBefore>>

GetExpired(k) ==
    /\ k \in resident /\ Expired(k)
    /\ KeepOnly(resident \ {k}, store, before)
    /\ Answer("get", k, None)
    /\ UNCHANGED usedBefore

GetHitInPlace(k) ==            \* altered: a hit does not move the entry to the end
    /\ k \in resident /\ ~Expired(k)
    /\ Use(k)
    /\ Answer("get", k, store[k].value)
    /\ UNCHANGED <<store, before>>

GetHit(k) ==
    /\ k \in resident /\ ~Expired(k)
    /\ before' = LastIn(before, resident, k)
    /\ Use(k)
    /\ Answer("get", k, store[k].value)
    /\ UNCHANGED store

Get(k) == (GetMiss(k) \/ GetExpired(k) \/ GetHit(k)) /\ UNCHANGED now

KeptOneMore(R, order, K) ==    \* altered: evicts from maxsize + 1 entries on
    /\ Cardinality(K) = IF Cardinality(R) > MaxSize + 1 THEN MaxSize ELSE Cardinality(R)
    /\ \A x \in R \ K, y \in K : <<x, y>> \in order

\* What popitem(last=False) leaves once no more than MaxSize entries remain.
Kept(R, order, K) ==
    /\ Cardinality(K) = IF Cardinality(R) > MaxSize THEN MaxSize ELSE Cardinality(R)
    /\ \A x \in R \ K, y \in K : <<x, y>> \in order

Set(k, v, ttl) ==
    LET grown == resident \cup {k}
        contents == [x \in grown |-> IF x = k THEN [value |-> v, expires |-> now + ttl]
                                              ELSE store[x]]
        order == LastIn(before, grown, k)
    IN /\ \E K \in SUBSET grown : Kept(grown, order, K) /\ KeepOnly(K, contents, order)
       /\ Use(k)
       /\ Answer("set", k, None)
       /\ UNCHANGED now

Delete(k) ==
    /\ KeepOnly(resident \ {k}, store, before)
    /\ Answer("delete", k, None)
    /\ UNCHANGED <<now, usedBefore>>

Clear ==
    /\ KeepOnly({}, store, before)
    /\ Answer("clear", None, None)
    /\ UNCHANGED <<now, usedBefore>>

PurgeExpired ==
    /\ KeepOnly({k \in resident : ~Expired(k)}, store, before)
    /\ Answer("purge_expired", None, None)
    /\ UNCHANGED <<now, usedBefore>>

Tick ==
    /\ now < MaxTime
    /\ now' = now + 1
    /\ UNCHANGED <<store, before, reply, usedBefore>>

Next == \/ \E k \in Keys : Get(k) \/ Delete(k)
        \/ \E k \in Keys, v \in Values, ttl \in TTLs : Set(k, v, ttl)
        \/ Clear
        \/ PurgeExpired
        \/ Tick

Spec == Init /\ [][Next]_vars
-----------------------------------------------------------------------------
\* The cache never holds more than maxsize entries, whatever the sequence of
\* set and get calls (cache.py "Cache is bounded by maxsize").
Bounded == Cardinality(resident) <= MaxSize

\* An entry disappears only for a reason the class states: it was deleted or
\* cleared, its ttl was over, or a set of a new key found the cache full and
\* it was the entry that had gone longest without being hit or set.
LostFor(k) ==
    \/ reply'.op = "clear"
    \/ reply'.op = "delete" /\ reply'.key = k
    \/ reply'.op \in {"get", "purge_expired"} /\ Expired(k)
    \/ /\ reply'.op = "set"
       /\ reply'.key \notin resident
       /\ Cardinality(resident) = MaxSize
       /\ \A y \in DOMAIN store' : <<k, y>> \in usedBefore'
NothingLostWithoutCause == [][\A k \in resident \ DOMAIN store' : LostFor(k)]_vars

\* The cache keeps the promise of a store whose entries expire: a get returns
\* None or the value last set under the key, and never once its ttl is over.
Abstract == INSTANCE ExpiringStore WITH
    held <- [k \in Keys |-> IF k \in resident THEN store[k] ELSE None],
    clock <- now,
    answer <- IF reply.op = "get" THEN [key |-> reply.key, value |-> reply.value]
              ELSE [key |-> None, value |-> None]
IsExpiringStore == Abstract!Spec
=============================================================================
