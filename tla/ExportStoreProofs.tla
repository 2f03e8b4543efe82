-------------------------- MODULE ExportStoreProofs --------------------------
(***************************************************************************)
(* TLAPS proofs about ExportStore, for any ids, contents, limits, ttl and  *)
(* clock: an export stays until its deadline, and what is downloaded is    *)
(* what was exported.                                                      *)
(***************************************************************************)
EXTENDS ExportStore, TLAPS

IInv == TypeOK /\ NewExportKept

\* Dropping records, and changing nothing else but the clock and the reply to a
\* get, keeps the types.
LEMMA KeepTypes ==
    ASSUME TypeOK, NEW K, exports' = Keep(exports, K), UNCHANGED drawn,
           clock' \in 0..MaxTime, reply' \in Reply
    PROVE  TypeOK'
<1>1. /\ DOMAIN exports' \subseteq DOMAIN exports
      /\ exports' = [id \in DOMAIN exports' |-> exports[id]]
  BY DEF Keep
<1>2. exports' \in [DOMAIN exports' -> Record]
  BY <1>1 DEF TypeOK
<1>3. QED BY <1>1, <1>2 DEF TypeOK

\* What creating an export leaves: the new one, and of the others those that
\* were in time when the purge ran.
LEMMA StoreLeaves ==
    ASSUME TypeOK, NEW id \in ExportIds \ DOMAIN drawn, NEW v \in Contents,
           NEW later \in 0..MaxTime, Store(id, v, later)
    PROVE  /\ id \in DOMAIN exports' /\ exports'[id] = [value |-> v, expires |-> clock + TTL]
           /\ \A x \in DOMAIN exports' \ {id} : x \in DOMAIN exports /\ exports'[x] = exports[x]
           /\ \A x \in DOMAIN exports \ DOMAIN exports' : Expired(exports[x], later)
           /\ \A x \in DOMAIN exports' \ {id} : ~Expired(exports[x], later)
           /\ DOMAIN drawn' = DOMAIN drawn \cup {id} /\ drawn'[id] = clock + TTL
           /\ \A x \in DOMAIN drawn : drawn'[x] = drawn[x]
           /\ drawn' = [x \in DOMAIN drawn' |-> drawn'[x]]
           /\ exports' = [x \in DOMAIN exports' |-> exports'[x]]
<1> DEFINE grown == With(exports, id, [value |-> v, expires |-> clock + TTL])
<1>1. /\ DOMAIN grown = DOMAIN exports \cup {id}
      /\ grown[id] = [value |-> v, expires |-> clock + TTL]
      /\ \A x \in DOMAIN exports : x # id => grown[x] = exports[x]
  BY DEF With
<1>2. id \notin DOMAIN exports
  BY DEF TypeOK
<1> HIDE DEF grown
<1>3. exports' = Keep(grown, {k \in DOMAIN grown : ~Expired(grown[k], later) \/ k = id})
  BY DEF Store, Purged, grown
<1>4. /\ DOMAIN exports' = {k \in DOMAIN grown : ~Expired(grown[k], later) \/ k = id}
      /\ \A x \in DOMAIN exports' : exports'[x] = grown[x]
      /\ exports' = [x \in DOMAIN exports' |-> exports'[x]]
  BY <1>3 DEF Keep
<1>5. /\ DOMAIN drawn' = DOMAIN drawn \cup {id} /\ drawn'[id] = clock + TTL
      /\ \A x \in DOMAIN drawn : drawn'[x] = drawn[x]
      /\ drawn' = [x \in DOMAIN drawn' |-> drawn'[x]]
  BY DEF Store, With
<1>6. QED BY <1>1, <1>2, <1>4, <1>5

\* Creating an export keeps the invariant.
LEMMA StoreInv ==
    ASSUME TypeOK, NEW id \in ExportIds \ DOMAIN drawn, NEW v \in Contents,
           NEW later \in 0..MaxTime, Store(id, v, later),
           reply' = [op |-> "create", id |-> id, value |-> v]
    PROVE  IInv'
<1>1. /\ id \in DOMAIN exports' /\ exports'[id] = [value |-> v, expires |-> clock + TTL]
      /\ \A x \in DOMAIN exports' \ {id} : x \in DOMAIN exports /\ exports'[x] = exports[x]
      /\ DOMAIN drawn' = DOMAIN drawn \cup {id} /\ drawn'[id] = clock + TTL
      /\ \A x \in DOMAIN drawn : drawn'[x] = drawn[x]
      /\ drawn' = [x \in DOMAIN drawn' |-> drawn'[x]]
      /\ exports' = [x \in DOMAIN exports' |-> exports'[x]]
  BY StoreLeaves
<1>2. clock' = later /\ clock' \in 0..MaxTime /\ clock + TTL \in 0..MaxTime + TTL
  BY LimitsAssumption DEF Store, TypeOK
<1>3. \A x \in DOMAIN exports' : exports'[x] \in Record
  BY <1>1, <1>2 DEF TypeOK, Record
<1>4. \A x \in DOMAIN drawn' : drawn'[x] \in 0..MaxTime + TTL
  BY <1>1, <1>2 DEF TypeOK
<1>5. /\ DOMAIN exports' \subseteq DOMAIN drawn' /\ DOMAIN drawn' \subseteq ExportIds
      /\ \A x \in DOMAIN exports' : exports'[x].expires = drawn'[x]
  BY <1>1 DEF TypeOK
<1>6. TypeOK'
  BY <1>1, <1>2, <1>3, <1>4, <1>5 DEF TypeOK, Reply
<1>7. QED BY <1>1, <1>6 DEF IInv, NewExportKept

\* No export has been created at the start.
LEMMA Initial == Init => IInv
BY DEF Init, IInv, TypeOK, NewExportKept, Reply, NoReply

\* The inductive step: one case per action.
LEMMA Inductive == IInv /\ [Next]_vars => IInv'
<1> SUFFICES ASSUME IInv, [Next]_vars PROVE IInv'
  OBVIOUS
<1> USE DEF IInv
<1>1. ASSUME NEW n \in 0..MaxRecords + 1, NEW format, NEW v \in Contents, CreateExport(n, format, v)
      PROVE  IInv'
  <2>1. CASE Refuse(n, format)
    BY <2>1 DEF Refuse, TypeOK, NewExportKept, Reply, Errors
  <2>2. QED BY <1>1, <2>1, StoreInv DEF CreateExport
<1>2. ASSUME NEW id \in ExportIds, GetExport(id) PROVE IInv'
  <2>1. CASE GetMissing(id)
    BY <2>1 DEF GetMissing, TypeOK, NewExportKept, Reply
  <2>2. CASE GetExpired(id)
    <3>1. reply' \in Reply /\ reply'.op = "get" /\ clock' \in 0..MaxTime
      BY <2>2 DEF GetExpired, Reply, TypeOK
    <3>2. QED BY <2>2, <3>1, KeepTypes DEF GetExpired, NewExportKept
  <2>3. CASE GetServed(id)
    BY <2>3 DEF GetServed, TypeOK, NewExportKept, Reply, Record
  <2>4. QED BY <1>2, <2>1, <2>2, <2>3 DEF GetExport
<1>3. CASE Restart
  BY <1>3 DEF Restart, TypeOK, NewExportKept, Reply, NoReply
<1>4. CASE SetClock
  BY <1>4 DEF SetClock, TypeOK, NewExportKept
<1>5. CASE UNCHANGED vars
  BY <1>5 DEF vars, TypeOK, NewExportKept
<1>6. QED BY <1>1, <1>2, <1>3, <1>4, <1>5 DEF Next

\* In every reachable state a record carries the deadline its creator was told,
\* and the export just created is there.
THEOREM ExportsInvariant == Spec => []IInv
BY Initial, Inductive, PTL DEF Spec

\* Present exports carry the deadline told, and replies are well-formed.
THEOREM ExportsTypes == Spec => []TypeOK
BY ExportsInvariant, PTL DEF IInv

\* The export whose URL was just returned is there, however long the work took.
THEOREM ExportsKeepNew == Spec => [](TypeOK /\ NewExportKept)
BY ExportsInvariant, PTL DEF IInv

\* No create and no download removes an export before its deadline.
THEOREM ExportsLoseNoLive == Spec => NoLiveExportLost
<1> DEFINE Caused == \A id \in DOMAIN exports \ DOMAIN exports' :
                        reply' = NoReply \/ clock' >= drawn[id]
<1>1. IInv /\ [Next]_vars => [Caused]_vars
  <2> SUFFICES ASSUME IInv, Next, NEW x \in DOMAIN exports \ DOMAIN exports'
               PROVE  reply' = NoReply \/ clock' >= drawn[x]
    OBVIOUS
  <2>1. exports[x].expires = drawn[x] /\ TypeOK
    BY DEF IInv, TypeOK
  <2>2. ASSUME NEW n \in 0..MaxRecords + 1, NEW format, NEW v \in Contents,
               CreateExport(n, format, v)
        PROVE  clock' >= drawn[x]
    <3>1. PICK id \in ExportIds \ DOMAIN drawn, later \in 0..MaxTime : Store(id, v, later)
      BY <2>2 DEF CreateExport, Refuse
    <3>2. Expired(exports[x], later)
      BY <2>1, <3>1, StoreLeaves
    <3>3. QED BY <2>1, <3>1, <3>2 DEF Expired, Store
  <2>3. ASSUME NEW id \in ExportIds, GetExport(id) PROVE clock' >= drawn[x]
    BY <2>1, <2>3 DEF GetExport, GetMissing, GetExpired, GetServed, Keep, Expired, IInv, TypeOK
  <2>4. CASE Restart
    BY <2>4 DEF Restart
  <2>5. CASE SetClock
    BY <2>5 DEF SetClock
  <2>6. QED BY <2>2, <2>3, <2>4, <2>5 DEF Next
<1>2. QED BY ExportsInvariant, <1>1, PTL DEF Spec, NoLiveExportLost

\* Creating an export frees every other whose deadline has come.
THEOREM ExportsSwept == Spec => SweptByCreate
<1> DEFINE Swept == \A id \in DOMAIN drawn' \ DOMAIN drawn :
                       \A other \in DOMAIN exports' \ {id} : clock' < drawn[other]
<1>1. IInv /\ [Next]_vars => [Swept]_vars
  <2> SUFFICES ASSUME IInv, Next, NEW x \in DOMAIN drawn' \ DOMAIN drawn,
                      NEW other \in DOMAIN exports' \ {x}
               PROVE  clock' < drawn[other]
    OBVIOUS
  <2>1. PICK v \in Contents, id \in ExportIds \ DOMAIN drawn, later \in 0..MaxTime :
           Store(id, v, later)
    BY DEF Next, CreateExport, Refuse, GetExport, GetMissing, GetExpired, GetServed, Restart, SetClock
  <2> TypeOK
    BY DEF IInv
  <2>2. /\ \A y \in DOMAIN exports' \ {id} : y \in DOMAIN exports /\ exports'[y] = exports[y]
        /\ \A y \in DOMAIN exports' \ {id} : ~Expired(exports[y], later)
        /\ DOMAIN drawn' = DOMAIN drawn \cup {id}
    BY <2>1, StoreLeaves
  <2>3. exports[other].expires = drawn[other] /\ drawn[other] \in Int /\ later \in Int
    BY <2>2, LimitsAssumption DEF TypeOK
  <2>4. QED BY <2>1, <2>2, <2>3 DEF Expired, Store
<1>2. QED BY ExportsInvariant, <1>1, PTL DEF Spec, SweptByCreate

\* The exports implement ExpiringStore: a download yields what was exported
\* under the id, never at or after the deadline.
THEOREM ExportsRefineStore == Spec => IsExpiringStore
<1> USE DEF IInv
<1>1. Init => Abstract!Init
  BY DEF Init, NoReply, held, Abstract!Init, Abstract!NoAnswer, TypeOK
<1>2. IInv /\ [Next]_vars => [Abstract!Next]_(Abstract!vars)
  <2> SUFFICES ASSUME IInv, [Next]_vars PROVE [Abstract!Next]_(Abstract!vars)
    OBVIOUS
  <2> USE DEF Abstract!OthersMayGo, Abstract!NoAnswer, held
  <2>1. held \in [ExportIds -> Abstract!Entry \cup {None}]
    BY DEF TypeOK, Record, Abstract!Entry
  <2>2. IInv'
    BY Inductive
  <2>3. held' \in [ExportIds -> Abstract!Entry \cup {None}] /\ clock' \in Int
    BY <2>2 DEF TypeOK, Record, Abstract!Entry
  <2>4. ASSUME NEW n \in 0..MaxRecords + 1, NEW format, NEW v \in Contents,
               CreateExport(n, format, v)
        PROVE  [Abstract!Next]_(Abstract!vars)
    <3>1. CASE Refuse(n, format)
      <4>1. Abstract!Forget
        BY <2>3, <3>1 DEF Refuse, Abstract!Forget
      <4>2. QED BY <4>1 DEF Abstract!Next
    <3>2. CASE ~Refuse(n, format)
      <4>1. PICK id \in ExportIds \ DOMAIN drawn, later \in 0..MaxTime :
                /\ Store(id, v, later)
                /\ reply' = [op |-> "create", id |-> id, value |-> v]
        BY <2>4, <3>2 DEF CreateExport
      <4>2. /\ id \in DOMAIN exports' /\ exports'[id] = [value |-> v, expires |-> clock + TTL]
            /\ \A x \in DOMAIN exports' \ {id} : x \in DOMAIN exports /\ exports'[x] = exports[x]
        BY <4>1, StoreLeaves
      <4>3. clock + TTL \in Int
        BY LimitsAssumption DEF TypeOK
      <4>4. held'[id] # None /\ held'[id].value = v
        BY <4>2, <4>3, NoneAssumption
      <4>5. Abstract!OthersMayGo({id})
        BY <4>2
      <4>6. Abstract!Put(id, v)
        BY <2>3, <4>1, <4>4, <4>5 DEF Abstract!Put
      <4>7. QED BY <4>6 DEF Abstract!Next
    <3>3. QED BY <3>1, <3>2
  <2>5. ASSUME NEW id \in ExportIds, GetExport(id) PROVE Abstract!Lookup(id)
    <3>1. CASE GetMissing(id)
      BY <2>1, <3>1 DEF GetMissing, Abstract!Lookup, Abstract!Miss
    <3>2. CASE GetExpired(id)
      BY <2>3, <3>2 DEF GetExpired, Keep, Abstract!Lookup, Abstract!Miss
    <3>3. CASE GetServed(id)
      <4>1. held[id] # None
        BY <3>3, NoneAssumption DEF GetServed, TypeOK, Record
      <4>2. clock < held[id].expires
        BY <3>3 DEF GetServed, Expired, TypeOK, Record
      <4>3. QED BY <2>1, <3>3, <4>1, <4>2 DEF GetServed, Abstract!Lookup, Abstract!Serve
    <3>4. QED BY <2>5, <3>1, <3>2, <3>3 DEF GetExport
  <2>6. CASE Restart
    <3>1. Abstract!Forget
      BY <2>3, <2>6 DEF Restart, NoReply, Abstract!Forget
    <3>2. QED BY <3>1 DEF Abstract!Next
  <2>7. CASE SetClock
    BY <2>3, <2>7 DEF SetClock, Abstract!Pass, Abstract!Next
  <2>8. CASE UNCHANGED vars
    BY <2>8 DEF vars, Abstract!vars
  <2>9. QED BY <2>4, <2>5, <2>6, <2>7, <2>8 DEF Next, Abstract!Next
<1>3. QED BY <1>1, <1>2, ExportsInvariant, PTL DEF Spec, IsExpiringStore, Abstract!Spec
=============================================================================
