---------------------------- MODULE ExportStore ----------------------------
(***************************************************************************)
(* mcp_sgu.exports: exports are kept in the memory of the process, under a *)
(* fresh id, until their deadline.  Nothing runs at the deadline: an       *)
(* expired export goes when it is asked for, or when another is created.   *)
(* Creating one takes time (the records are serialised in between), and    *)
(* the wall clock may be set back.                                         *)
(***************************************************************************)
EXTENDS Integers, FiniteSets

CONSTANTS ExportIds,  \* uuids, never drawn twice
          Contents,   \* what an export may contain
          None,
          MaxRecords, \* settings.max_export_records
          TTL,        \* settings.export_ttl_seconds
          MaxTime     \* bound: the clock shows 0 to MaxTime

Formats == {"csv", "geojson"}
Errors == {"too_large", "unsupported_format"}
ASSUME LimitsAssumption == MaxRecords \in Nat /\ TTL \in Nat \ {0} /\ MaxTime \in Nat
ASSUME NoneAssumption == None \notin ExportIds \cup Contents \cup [value : Contents, expires : Int]

VARIABLES exports,    \* _exports: a function on the ids present
          clock,      \* time.time()
          drawn,      \* history: ids ever used, with the deadline the caller was told
          reply       \* the latest operation and its outcome

vars == <<exports, clock, drawn, reply>>

Record == [value : Contents, expires : 0..MaxTime + TTL]
NoReply == [op |-> "none", id |-> None, value |-> None]
Reply == [op : {"get"}, id : ExportIds, value : Contents \cup {None}]
         \cup [op : {"create"}, id : ExportIds, value : Contents]
         \cup [op : {"refused"}, id : {None}, value : Errors]
         \cup {NoReply}

\* A record that is present carries the deadline its creator was told.
TypeOK == /\ DOMAIN exports \subseteq DOMAIN drawn
          /\ exports \in [DOMAIN exports -> Record]
          /\ clock \in 0..MaxTime
          /\ DOMAIN drawn \subseteq ExportIds
          /\ drawn \in [DOMAIN drawn -> 0..MaxTime + TTL]
          /\ \A id \in DOMAIN exports : exports[id].expires = drawn[id]
          /\ reply \in Reply

Init == /\ exports = [id \in {} |-> None]
        /\ clock \in 0..MaxTime
        /\ drawn = [id \in {} |-> None]
        /\ reply = NoReply
-----------------------------------------------------------------------------
Keep(f, K) == [k \in DOMAIN f \cap K |-> f[k]]
With(f, key, v) == [k \in DOMAIN f \cup {key} |-> IF k = key THEN v ELSE f[k]]

ExpiredLate(record, time) == time > record.expires    \* altered: good at its deadline

Expired(record, time) == time >= record.expires

Refuse(n, format) ==
    /\ \/ n > MaxRecords /\ reply' = [op |-> "refused", id |-> None, value |-> "too_large"]
       \/ /\ n <= MaxRecords /\ format \notin Formats
          /\ reply' = [op |-> "refused", id |-> None, value |-> "unsupported_format"]
    /\ UNCHANGED <<exports, clock, drawn>>

PurgedFresh(store, own, time) ==   \* altered: keeps the expired, drops the others
    Keep(store, {k \in DOMAIN store : Expired(store[k], time) \/ k = own})

PurgedWithOwn(store, own, time) == \* altered: the own id is not exempt
    Keep(store, {k \in DOMAIN store : ~Expired(store[k], time)})

\* What the purge of a create leaves: its own export, and those in time.
Purged(store, own, time) ==
    Keep(store, {k \in DOMAIN store : ~Expired(store[k], time) \/ k = own})

StoreRestamped(id, v, later) ==    \* altered: the deadline runs from the end of the work
    /\ exports' = Purged(With(exports, id, [value |-> v, expires |-> later + TTL]), id, later)
    /\ drawn' = With(drawn, id, clock + TTL)
    /\ clock' = later

StoreAfterSweep(id, v, later) ==   \* altered: purges before it serialises
    /\ exports' = With(Purged(exports, id, clock), id, [value |-> v, expires |-> clock + TTL])
    /\ drawn' = With(drawn, id, clock + TTL)
    /\ clock' = later

\* The deadline counts from the start; the record is stored once it is serialised, when
\* the clock shows `later', an earlier time if it was set back meanwhile.
Store(id, v, later) ==
    /\ exports' = Purged(With(exports, id, [value |-> v, expires |-> clock + TTL]), id, later)
    /\ drawn' = With(drawn, id, clock + TTL)
    /\ clock' = later

CreateExport(n, format, v) ==
    \/ Refuse(n, format)
    \/ /\ n <= MaxRecords /\ format \in Formats
       /\ \E id \in ExportIds \ DOMAIN drawn, later \in 0..MaxTime :
             /\ Store(id, v, later)
             /\ reply' = [op |-> "create", id |-> id, value |-> v]

GetMissing(id) ==
    /\ id \notin DOMAIN exports
    /\ reply' = [op |-> "get", id |-> id, value |-> None]
    /\ UNCHANGED <<exports, clock, drawn>>

GetExpired(id) ==
    /\ id \in DOMAIN exports
    /\ Expired(exports[id], clock)
    /\ exports' = Keep(exports, ExportIds \ {id})
    /\ reply' = [op |-> "get", id |-> id, value |-> None]
    /\ UNCHANGED <<clock, drawn>>

GetServed(id) ==
    /\ id \in DOMAIN exports
    /\ ~Expired(exports[id], clock)
    /\ reply' = [op |-> "get", id |-> id, value |-> exports[id].value]
    /\ UNCHANGED <<exports, clock, drawn>>

GetExport(id) == GetMissing(id) \/ GetExpired(id) \/ GetServed(id)

Restart ==
    /\ exports' = [id \in {} |-> None]
    /\ reply' = NoReply
    /\ UNCHANGED <<clock, drawn>>

SetClock == /\ clock' \in 0..MaxTime
            /\ UNCHANGED <<exports, drawn, reply>>

Next == \/ \E n \in 0..MaxRecords + 1, format \in Formats \cup {"xlsx"}, v \in Contents :
              CreateExport(n, format, v)
        \/ \E id \in ExportIds : GetExport(id)
        \/ Restart
        \/ SetClock

Spec == Init /\ [][Next]_vars
-----------------------------------------------------------------------------
\* An export disappears only at a time not before the deadline its creator was
\* told, or with the process: no create or download removes one still good.
NoLiveExportLost ==
    [][\A id \in DOMAIN exports \ DOMAIN exports' :
          reply' = NoReply \/ clock' >= drawn[id]]_vars

\* The export whose URL was just returned is there, even if serialising it
\* outlasted its ttl.
NewExportKept == reply.op = "create" => reply.id \in DOMAIN exports

\* No task of the program purges, so this is all that frees the memory of an export
\* nobody downloads: when another has been created, however long that took, nothing
\* else is kept whose deadline has come.
SweptByCreate ==
    [][\A id \in DOMAIN drawn' \ DOMAIN drawn :
          \A other \in DOMAIN exports' \ {id} : clock' < drawn[other]]_vars

\* The exports keep the promise of a store whose entries expire: a download
\* yields what was exported, and never at or after the deadline.
held == [id \in ExportIds |-> IF id \in DOMAIN exports THEN exports[id] ELSE None]
Abstract == INSTANCE ExpiringStore WITH
    Keys <- ExportIds, Values <- Contents,
    answer <- IF reply.op = "get" THEN [key |-> reply.id, value |-> reply.value]
              ELSE [key |-> None, value |-> None]
IsExpiringStore == Abstract!Spec
=============================================================================
