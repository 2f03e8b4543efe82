-------------------------- MODULE AreaToolsProofs --------------------------
(***************************************************************************)
(* TLAPS proofs about AreaTools, for any pages linked in any way, any      *)
(* limits, requests and number of clients.  The invariants of the walk     *)
(* (GetItemsProofs) and of the export store (ExportStoreProofs) are taken  *)
(* over: every step of a tool is one of theirs, or leaves them alone.      *)
(***************************************************************************)
EXTENDS AreaTools, FiniteSetTheorems, TLAPS

Walks == INSTANCE GetItemsProofs WITH Calls <- Clients, Limits <- {ScanLimit, ExportLimit}
Stores == INSTANCE ExportStoreProofs WITH Contents <- SUBSET Ids, MaxRecords <- ExportLimit

\* What an export, or a summary without a warning, has to be for an area.
AreaOf(m, value) == value \subseteq WellsOf(m.area) /\ (m.warned \/ WellsOf(m.area) \subseteq value)

SessionInv(s, k) ==
    /\ s \in Session
    /\ s.at = "geocoding" => s.request \in Requests /\ Sound(s.request)
    /\ s.at = "searching" => /\ k.at \in {"lookup", "fetch", "done", "failed"}
                             /\ k.start = First[s.area] /\ k.max = LimitOf(s.tool)
                             /\ s.count = 0 /\ ~s.complete /\ ~s.warned
    /\ s.error \notin {"export_too_large", "export_failed"}
    /\ s.at = "answered" /\ s.tool = "summary" /\ ClaimsWhole(s) => s.wells = WellsOf(s.area)

MadeInv == /\ made \in [DOMAIN drawn -> [area : Areas, warned : BOOLEAN]]
           /\ \A id \in DOMAIN exports : AreaOf(made[id], exports[id].value)
           /\ reply.op = "get" /\ reply.value # None => AreaOf(made[reply.id], reply.value)

IInv == /\ Walks!IInv
        /\ Stores!IInv
        /\ MadeInv
        /\ session = [c \in Clients |-> session[c]]
        /\ \A c \in Clients : SessionInv(session[c], call[c])
-----------------------------------------------------------------------------
\* The theorems on walks and stores apply.
LEMMA WalksAssumptions == Walks!SitesAssumption /\ Walks!LimitsAssumption
BY SitesAssumption, LimitsAssumption
   DEF Pages!Page, Walks!Page, Walks!SitesAssumption, Walks!LimitsAssumption

LEMMA StoresAssumptions == Stores!LimitsAssumption /\ Stores!NoneAssumption
<1>1. Stores!LimitsAssumption
  BY LimitsAssumption DEF Stores!LimitsAssumption
<1>2. Stores!NoneAssumption
  BY NoneAssumption DEF Stores!NoneAssumption
<1>3. QED BY <1>1, <1>2

\* The walks of AreaTools are those of GetItemsProofs.
LEMMA SameWork == ASSUME NEW c, Pages!Work(c) PROVE Walks!Work(c)
<1>1. \A got, f : Pages!Added(got, f) = Walks!Added(got, f)
  BY DEF Pages!Added, Walks!Added, Pages!Contains, Walks!Contains
<1>2. \A got, f : Pages!Deduped(got, f) = Walks!Deduped(got, f)
  BY <1>1 DEF Pages!Deduped, Walks!Deduped
<1>3. \A got, flagged : Pages!StopFull(c, got, flagged) => Walks!StopFull(c, got, flagged)
  BY DEF Pages!StopFull, Walks!StopFull
<1>4. \A got, flagged : Pages!StopAtEnd(c, got, flagged) => Walks!StopAtEnd(c, got, flagged)
  BY DEF Pages!StopAtEnd, Walks!StopAtEnd
<1>5. \A got, flagged : Pages!StopAtRepeat(c, got, flagged) => Walks!StopAtRepeat(c, got, flagged)
  BY DEF Pages!StopAtRepeat, Walks!StopAtRepeat
<1>6. \A got, flagged : Pages!Follow(c, got, flagged) => Walks!Follow(c, got, flagged)
  BY DEF Pages!Follow, Walks!Follow
<1>7. \A flagged : Pages!TakePage(c, flagged) => Walks!TakePage(c, flagged)
  BY <1>2, <1>3, <1>4, <1>5, <1>6 DEF Pages!TakePage, Walks!TakePage
<1>8. QED
  BY <1>7 DEF Pages!Work, Pages!Hit, Pages!Miss, Pages!Receive,
              Walks!Work, Walks!Hit, Walks!Miss, Walks!Receive

LEMMA WalkStep ==
    ASSUME Walks!IInv, NEW c \in Clients, Pages!Work(c) \/ Pages!Fail(c)
    PROVE  Walks!Next /\ Walks!IInv'
<1>1. Walks!Next
  BY SameWork DEF Walks!Next, Walks!Fail, Pages!Fail
<1>2. QED BY <1>1, WalksAssumptions, Walks!Inductive

LEMMA WalkStart ==
    ASSUME Walks!IInv, NEW c \in Clients, NEW u \in Urls, NEW m \in {ScanLimit, ExportLimit},
           Pages!Start(c, u, m)
    PROVE  Walks!Next /\ Walks!IInv'
<1>1. Walks!Next
  BY DEF Walks!Next, Walks!Start, Pages!Start
<1>2. QED BY <1>1, WalksAssumptions, Walks!Inductive

LEMMA WalkStays == ASSUME Walks!IInv, UNCHANGED pageVars PROVE Walks!IInv'
<1>1. UNCHANGED Walks!vars
  BY DEF Walks!vars, pageVars
<1>2. QED BY <1>1, WalksAssumptions, Walks!Inductive

\* What a walk does not touch of its own call, and of the others.
LEMMA WalkKeeps ==
    ASSUME Walks!IInv, NEW c \in Clients, Pages!Work(c) \/ Pages!Fail(c)
    PROVE  /\ \A d \in Clients \ {c} : call'[d] = call[d]
           /\ call'[c].start = call[c].start /\ call'[c].max = call[c].max
           /\ call'[c].at \in {"lookup", "fetch", "done", "failed"}
           /\ UNCHANGED site
<1>1. call \in [Clients -> Walks!Call]
  BY DEF Walks!IInv, Walks!TypeOK
<1>2. QED
  BY <1>1 DEF Walks!Call, Pages!Work, Pages!Hit, Pages!Miss, Pages!Receive, Pages!Fail,
              Pages!TakePage, Pages!StopFull, Pages!StopAtEnd, Pages!StopAtRepeat, Pages!Follow

\* The wells kept of a walk that has ended are wells of the area it was for, and all of
\* them if the walk is not flagged; there are no more of them than its limit.
LEMMA WalkedWells ==
    ASSUME Walks!IInv, NEW c \in Clients, SessionInv(session[c], call[c]),
           session[c].at = "searching", call[c].at = "done"
    PROVE  /\ WellsWithin(c) \in SUBSET Ids
           /\ WellsWithin(c) \subseteq WellsOf(session[c].area)
           /\ ~Truncated(c) => WellsWithin(c) = WellsOf(session[c].area)
           /\ Count(c) \in Nat /\ Count(c) <= LimitOf(session[c].tool)
           /\ Truncated(c) \in BOOLEAN
<1> DEFINE k == call[c]
           area == session[c].area
<1>1. /\ k \in Walks!Call /\ Walks!WalkInv(k)
      /\ k.records \in Seq(Ids \cup {NoId})
      /\ k.start = First[area] /\ k.max = LimitOf(session[c].tool)
  BY DEF Walks!IInv, Walks!TypeOK, Walks!Call, SessionInv
<1>2. \A s : Walks!ToSet(s) = ToSet(s)
  BY DEF Walks!ToSet, ToSet
<1>3. \A u : Walks!Reachable(u) = Pages!Reachable(u)
  BY DEF Walks!Reachable, Pages!Reachable
<1>4. ToSet(k.records) \subseteq UNION {ToSet(site[u].features) : u \in Pages!Reachable(First[area])}
  BY <1>1, <1>2, <1>3 DEF Walks!WalkInv, Walks!Findable
<1>5. WellsWithin(c) =
         {f \in ToSet(k.records) \ {NoId} : area = "near" => Wells[f] = "inside"}
  BY DEF WellsWithin, Within, ToSet
<1>6. ToSet(k.records) \subseteq Ids \cup {NoId}
  BY <1>1 DEF ToSet
<1>7. ASSUME ~k.truncated
      PROVE  \A u \in Pages!Reachable(First[area]) :
                ToSet(site[u].features) \ {NoId} \subseteq ToSet(k.records)
  <2>1. Walks!NoSilentLoss
    BY WalksAssumptions, Walks!InvLosesNothing
  <2>2. QED BY <1>1, <1>2, <1>3, <1>7, <2>1 DEF Walks!NoSilentLoss, Walks!Done
<1>8. Within(c) \subseteq 1..Len(k.records) /\ Len(k.records) \in Nat
  BY <1>1 DEF Within
<1>9. Count(c) \in Nat /\ Count(c) <= Len(k.records)
  <2>1. IsFiniteSet(1..Len(k.records)) /\ Cardinality(1..Len(k.records)) = Len(k.records)
    BY <1>8, FS_Interval
  <2>2. QED BY <1>8, <2>1, FS_Subset, FS_CardinalityType DEF Count
<1>10. Len(k.records) <= k.max
  BY <1>1 DEF Walks!WalkInv
<1>11. Count(c) <= LimitOf(session[c].tool)
  BY <1>1, <1>8, <1>9, <1>10, LimitsAssumption DEF LimitOf
<1> DEFINE there == UNION {ToSet(site[u].features) : u \in Pages!Reachable(First[area])}
<1>12. WellsOf(area) = {f \in there \ {NoId} : area = "near" => Wells[f] = "inside"}
  BY DEF WellsOf
<1>13. ~k.truncated => there \ {NoId} \subseteq ToSet(k.records)
  <2> SUFFICES ASSUME ~k.truncated, NEW f \in there \ {NoId} PROVE f \in ToSet(k.records)
    OBVIOUS
  <2>1. PICK u \in Pages!Reachable(First[area]) : f \in ToSet(site[u].features)
    OBVIOUS
  <2>2. QED BY <1>7, <2>1
<1>14. WellsWithin(c) \subseteq WellsOf(area)
  <2> HIDE DEF k, area, there
  <2>1. QED BY <1>4, <1>5, <1>12 DEF there
<1>15. ~k.truncated => WellsOf(area) \subseteq WellsWithin(c)
  <2> HIDE DEF k, area, there
  <2>1. QED BY <1>5, <1>12, <1>13
<1>16. QED
  BY <1>1, <1>5, <1>6, <1>9, <1>11, <1>14, <1>15 DEF Truncated, Walks!Call

\* What lies in an area does not change, since SGU's pages do not.
LEMMA AreasStay == ASSUME UNCHANGED site PROVE \A area : WellsOf(area)' = WellsOf(area)
BY DEF WellsOf, Pages!Reachable

\* A step of one client keeps the sessions in order if it does so for this client.
LEMMA OneSession ==
    ASSUME IInv, UNCHANGED site, NEW c \in Clients, NEW s \in Session,
           session' = [session EXCEPT ![c] = s], SessionInv(s, call'[c]),
           \A d \in Clients \ {c} : call'[d] = call[d]
    PROVE  /\ session' = [d \in Clients |-> session'[d]]
           /\ \A d \in Clients : SessionInv(session[d], call[d])'
<1>1. session' = [d \in Clients |-> session'[d]] /\ session'[c] = s
      /\ \A d \in Clients \ {c} : session'[d] = session[d]
  BY DEF IInv
<1>2. \A d \in Clients : SessionInv(session'[d], call'[d])
  BY <1>1 DEF IInv
<1>3. \A d \in Clients : SessionInv(session[d], call[d])'
  <2> TAKE d \in Clients
  <2>1. SessionInv(session'[d], call'[d])
    BY <1>2
  <2>2. QED BY <2>1, AreasStay DEF SessionInv
<1>4. QED BY <1>1, <1>3

LEMMA SessionsStay ==
    ASSUME IInv, UNCHANGED <<site, call, session>>
    PROVE  /\ session' = [d \in Clients |-> session'[d]]
           /\ \A d \in Clients : SessionInv(session[d], call[d])'
<1>1. \A d \in Clients : SessionInv(session[d], call[d])'
  <2> TAKE d \in Clients
  <2>1. SessionInv(session[d], call[d])
    BY DEF IInv
  <2>2. QED BY <2>1, AreasStay DEF SessionInv
<1>2. QED BY <1>1 DEF IInv

LEMMA StoreStays ==
    ASSUME IInv, UNCHANGED <<site, exports, clock, drawn, reply, made>>
    PROVE  Stores!IInv' /\ MadeInv'
<1>1. UNCHANGED Stores!vars
  BY DEF Stores!vars
<1>2. Stores!IInv'
  BY <1>1, StoresAssumptions, Stores!Inductive DEF IInv
<1>3. MadeInv'
  BY AreasStay DEF IInv, MadeInv, AreaOf
<1>4. QED BY <1>2, <1>3

\* A client at the start, and one that has been refused.
LEMMA IdleSession == ASSUME NEW k PROVE Blank \in Session /\ SessionInv(Blank, k)
<1>1. Blank \in Session
  BY DEF Blank, Session, Exports!Formats, Areas
<1>2. None \notin Refusals
  BY NoneAssumption
<1>3. QED BY <1>1, <1>2 DEF SessionInv, Blank, Refusals

LEMMA RefusedSession ==
    ASSUME NEW error \in Refusals \ {"export_too_large", "export_failed"}, NEW k
    PROVE  /\ [Blank EXCEPT !.at = "refused", !.error = error] \in Session
           /\ SessionInv([Blank EXCEPT !.at = "refused", !.error = error], k)
<1>1. Blank \in Session
  BY IdleSession
<1>2. [Blank EXCEPT !.at = "refused", !.error = error] \in Session
  BY <1>1 DEF Blank, Session
<1>3. QED BY <1>2 DEF SessionInv, Blank

\* A client is refused, or left as it was at the start.
LEMMA RefusedInv ==
    ASSUME IInv, NEW c \in Clients, NEW error \in Refusals \ {"export_too_large", "export_failed"},
           RefuseWith(c, error), UNCHANGED <<pageVars, exportVars>>
    PROVE  IInv'
<1> DEFINE s == [Blank EXCEPT !.at = "refused", !.error = error]
<1>1. s \in Session /\ SessionInv(s, call'[c])
  BY RefusedSession
<1>2. session' = [session EXCEPT ![c] = s] /\ UNCHANGED made
  BY DEF RefuseWith
<1>3. UNCHANGED site /\ UNCHANGED call /\ UNCHANGED <<exports, clock, drawn, reply>>
  BY DEF pageVars, exportVars
<1> HIDE DEF s
<1>4. /\ session' = [d \in Clients |-> session'[d]]
      /\ \A d \in Clients : SessionInv(session[d], call[d])'
  BY <1>1, <1>2, <1>3, OneSession
<1>5. Walks!IInv'
  BY WalkStays DEF IInv
<1>6. Stores!IInv' /\ MadeInv'
  BY <1>2, <1>3, StoreStays
<1>7. QED BY <1>4, <1>5, <1>6 DEF IInv

LEMMA RefuseInv == ASSUME IInv, NEW c \in Clients, NEW r, Refuse(c, r) PROVE IInv'
<1>1. PICK i \in DOMAIN Checks(r) : RefuseWith(c, Checks(r)[i][2])
  BY DEF Refuse
<1>2. Checks(r)[i][2] \in Refusals \ {"export_too_large", "export_failed"}
  <2>1. CASE r.tool = "export"
    BY <1>1, <2>1 DEF Checks, ExportChecks, Refusals
  <2>2. CASE r.tool # "export"
    BY <1>1, <2>2 DEF Checks, SummaryChecks, Refusals
  <2>3. QED BY <2>1, <2>2
<1>3. QED BY <1>1, <1>2, RefusedInv DEF Refuse

LEMMA RefuseFilterInv == ASSUME IInv, NEW c \in Clients, NEW r, RefuseFilter(c, r) PROVE IInv'
BY RefusedInv DEF RefuseFilter, Refusals

LEMMA GeocodingFailedInv == ASSUME IInv, NEW c \in Clients, GeocodingFailed(c) PROVE IInv'
<1>1. PICK error \in {"geocoding_failed", "raised"} : RefuseWith(c, error)
  BY DEF GeocodingFailed
<1>2. error \in Refusals \ {"export_too_large", "export_failed"}
  BY DEF Refusals
<1>3. QED BY <1>1, <1>2, RefusedInv DEF GeocodingFailed

LEMMA AnswerErrorInv == ASSUME IInv, NEW c \in Clients, AnswerError(c) PROVE IInv'
<1>1. PICK error \in {"sgu_unavailable", "raised"} : RefuseWith(c, error)
  BY DEF AnswerError
<1>2. error \in Refusals \ {"export_too_large", "export_failed"}
  BY DEF Refusals
<1>3. QED BY <1>1, <1>2, RefusedInv DEF AnswerError

LEMMA LookUpInv ==
    ASSUME IInv, NEW c \in Clients, NEW r \in Requests, LookUp(c, r) PROVE IInv'
<1> DEFINE s == [Blank EXCEPT !.at = "geocoding", !.request = r]
<1>1. s \in Session /\ SessionInv(s, call'[c])
  <2>1. Blank \in Session /\ SessionInv(Blank, call'[c]) /\ r \in Request
    BY IdleSession, RequestsAssumption
  <2>2. s \in Session
    BY <2>1 DEF Blank, Session
  <2>3. QED BY <2>1, <2>2 DEF SessionInv, Blank, LookUp
<1>2. session' = [session EXCEPT ![c] = s]
      /\ UNCHANGED <<site, call, exports, clock, drawn, reply, made>> /\ UNCHANGED pageVars
  BY DEF LookUp, pageVars, exportVars
<1> HIDE DEF s
<1>3. /\ session' = [d \in Clients |-> session'[d]]
      /\ \A d \in Clients : SessionInv(session[d], call[d])'
  BY <1>1, <1>2, OneSession
<1>4. QED BY <1>2, <1>3, WalkStays, StoreStays DEF IInv

\* A walk starts at the first page of its area, with the limit of its tool.
LEMMA ProceedInv ==
    ASSUME IInv, NEW c \in Clients, NEW r \in Requests, Sound(r), NEW placed \in BOOLEAN,
           Proceed(c, r, placed)
    PROVE  IInv'
<1> DEFINE area == Area(r, placed)
           u == First[area]
           m == LimitOf(r.tool)
           s == [Blank EXCEPT !.at = "searching", !.tool = r.tool, !.format = r.format,
                              !.area = area]
<1>1. r \in Request /\ r.tool \in {"export", "summary"}
  BY RequestsAssumption DEF Request
<1>2. r.format \in Exports!Formats
  <2>1. CASE r.tool = "export"
    <3>1. Checks(r) = ExportChecks(r) /\ 1 \in DOMAIN Checks(r)
      BY <2>1 DEF Checks, ExportChecks
    <3>2. ~Checks(r)[1][1]
      BY <3>1 DEF Sound
    <3>3. ExportChecks(r)[1] = <<r.format \notin Exports!Formats, "invalid_format">>
      BY DEF ExportChecks
    <3>4. ~(r.format \notin Exports!Formats)
      <4> DEFINE bad == r.format \notin Exports!Formats
      <4>1. ~(<<bad, "invalid_format">>[1])
        BY <3>1, <3>2, <3>3
      <4>2. <<bad, "invalid_format">>[1] = bad
        OBVIOUS
      <4> HIDE DEF bad
      <4>3. ~bad
        BY <4>1, <4>2
      <4>4. QED BY <4>3 DEF bad
    <3>5. QED BY <3>4
  <2>2. CASE r.tool = "summary"
    BY <2>2, RequestsAssumption DEF Exports!Formats
  <2>3. QED BY <1>1, <2>1, <2>2
<1>3. area \in Areas /\ u \in Urls /\ m \in {ScanLimit, ExportLimit}
  BY FirstAssumption DEF Area, Areas, LimitOf
<1>4. s \in Session /\ s.at = "searching" /\ s.tool = r.tool /\ s.area = area
      /\ s.count = 0 /\ ~s.complete /\ ~s.warned /\ s.error = None
  <2>1. Blank \in Session
    BY IdleSession
  <2>2. QED BY <1>1, <1>2, <1>3, <2>1 DEF Blank, Session
<1>5. Pages!Start(c, u, m) /\ session' = [session EXCEPT ![c] = s]
      /\ UNCHANGED <<exports, clock, drawn, reply, made>>
  BY DEF Proceed, exportVars
<1>6. /\ call'[c].at = "lookup" /\ call'[c].start = u /\ call'[c].max = m
      /\ \A d \in Clients \ {c} : call'[d] = call[d]
      /\ UNCHANGED site
  <2>1. call \in [Clients -> Walks!Call]
    BY DEF IInv, Walks!IInv, Walks!TypeOK
  <2>2. QED BY <1>5, <2>1 DEF Pages!Start
<1>7. Walks!IInv'
  BY <1>3, <1>5, WalkStart DEF IInv
<1>8. SessionInv(s, call'[c])
  <2> HIDE DEF s, u, m
  <2>1. s.error \notin {"export_too_large", "export_failed"}
    BY <1>4, NoneAssumption DEF Refusals
  <2>2. QED BY <1>4, <1>6, <2>1 DEF SessionInv, u, m
<1> HIDE DEF s
<1>9. /\ session' = [d \in Clients |-> session'[d]]
      /\ \A d \in Clients : SessionInv(session[d], call[d])'
  BY <1>4, <1>5, <1>6, <1>8, OneSession
<1>10. QED BY <1>5, <1>6, <1>7, <1>9, StoreStays DEF IInv

LEMMA BeginInv ==
    ASSUME IInv, NEW c \in Clients, NEW r \in Requests, NEW bearer, Begin(c, r, bearer)
    PROVE  IInv'
<1>1. (r.point = "both") \in BOOLEAN
  OBVIOUS
<1>2. QED BY <1>1, RefuseInv, LookUpInv, ProceedInv, RefuseFilterInv DEF Begin

LEMMA GeocodedInv == ASSUME IInv, NEW c \in Clients, Geocoded(c) PROVE IInv'
<1>1. session[c].request \in Requests /\ Sound(session[c].request)
  BY DEF Geocoded, IInv, SessionInv
<1>2. QED BY <1>1, ProceedInv, RefuseFilterInv DEF Geocoded

LEMMA WalkInv == ASSUME IInv, NEW c \in Clients, Walk(c) PROVE IInv'
<1>1. UNCHANGED <<site, exports, clock, drawn, reply, session, made>>
  BY WalkKeeps DEF Walk, exportVars, IInv
<1>2. Walks!IInv'
  BY WalkStep DEF Walk, IInv
<1>3. \A d \in Clients : SessionInv(session[d], call'[d])
  BY WalkKeeps DEF Walk, IInv, SessionInv
<1>4. \A d \in Clients : SessionInv(session[d], call[d])'
  <2> TAKE d \in Clients
  <2>1. SessionInv(session[d], call'[d])
    BY <1>3
  <2>2. QED BY <1>1, <2>1, AreasStay DEF SessionInv
<1>5. Stores!IInv' /\ MadeInv'
  BY <1>1, StoreStays
<1>6. QED BY <1>1, <1>2, <1>4, <1>5 DEF IInv

\* The store of AreaTools is that of ExportStoreProofs.
LEMMA SameStore ==
    /\ \A record, time : Exports!Expired(record, time) = Stores!Expired(record, time)
    /\ \A f, K : Exports!Keep(f, K) = Stores!Keep(f, K)
    /\ \A f, key, v : Exports!With(f, key, v) = Stores!With(f, key, v)
BY DEF Exports!Expired, Stores!Expired, Exports!Keep, Stores!Keep, Exports!With, Stores!With

LEMMA SameCreate ==
    ASSUME NEW n, NEW format \in Exports!Formats, NEW v, n <= ExportLimit, n \in Nat,
           Exports!CreateExport(n, format, v)
    PROVE  \E id \in ExportIds \ DOMAIN drawn, later \in 0..MaxTime :
              Stores!Store(id, v, later) /\ reply' = [op |-> "create", id |-> id, value |-> v]
<1>1. ~Exports!Refuse(n, format)
  BY LimitsAssumption DEF Exports!Refuse
<1>2. PICK id \in ExportIds \ DOMAIN drawn, later \in 0..MaxTime :
         Exports!Store(id, v, later) /\ reply' = [op |-> "create", id |-> id, value |-> v]
  BY <1>1 DEF Exports!CreateExport
<1>3. \A store, own, time : Exports!Purged(store, own, time) = Stores!Purged(store, own, time)
  BY SameStore DEF Exports!Purged, Stores!Purged
<1>4. Stores!Store(id, v, later)
  BY <1>2, <1>3, SameStore DEF Exports!Store, Stores!Store
<1>5. QED BY <1>2, <1>4

LEMMA SameGet ==
    ASSUME NEW id, Exports!GetExport(id)
    PROVE  Stores!GetExport(id)
BY SameStore DEF Exports!GetExport, Exports!GetMissing, Exports!GetExpired, Exports!GetServed,
                 Stores!GetExport, Stores!GetMissing, Stores!GetExpired, Stores!GetServed

\* An answer to an export: never refused, and what is stored is of its area.
LEMMA AnswerExportInv == ASSUME IInv, NEW c \in Clients, AnswerExport(c) PROVE IInv'
<1> DEFINE v == WellsWithin(c)
           m == [area |-> session[c].area, warned |-> Truncated(c)]
           s == [session[c] EXCEPT !.at = "answered", !.wells = v, !.count = Count(c),
                                   !.warned = Truncated(c), !.complete = FALSE]
<1>1. /\ session[c].at = "searching" /\ session[c].tool = "export" /\ call[c].at = "done"
      /\ session[c] \in Session /\ SessionInv(session[c], call[c])
      /\ UNCHANGED <<site, call>> /\ UNCHANGED pageVars
  BY DEF AnswerExport, Walked, IInv, SessionInv, pageVars
<1>2. /\ v \in SUBSET Ids /\ Count(c) \in Nat /\ Count(c) <= ExportLimit
      /\ AreaOf(m, v) /\ Truncated(c) \in BOOLEAN
  BY <1>1, WalkedWells DEF IInv, LimitOf, AreaOf
<1>3. session[c].format \in Exports!Formats /\ session[c].area \in Areas
  BY <1>1 DEF Session
<1>4. ~(Count(c) > ExportLimit)
  BY <1>2, LimitsAssumption
<1>5. Exports!CreateExport(Count(c), session[c].format, v)
  BY <1>4 DEF AnswerExport
<1>6. PICK id \in ExportIds \ DOMAIN drawn, later \in 0..MaxTime :
         Stores!Store(id, v, later) /\ reply' = [op |-> "create", id |-> id, value |-> v]
  BY <1>2, <1>3, <1>5, SameCreate
<1>7. session' = [session EXCEPT ![c] = s] /\ made' = Exports!With(made, id, m)
  BY <1>4, <1>6 DEF AnswerExport, Answered
<1>8. s \in Session /\ s.at = "answered" /\ s.tool = "export" /\ s.error = session[c].error
  BY <1>1, <1>2 DEF Session
<1>9. SessionInv(s, call'[c])
  <2> HIDE DEF s
  <2>1. QED BY <1>1, <1>8 DEF SessionInv
<1> HIDE DEF s, v, m
<1>10. /\ session' = [d \in Clients |-> session'[d]]
       /\ \A d \in Clients : SessionInv(session[d], call[d])'
  BY <1>1, <1>7, <1>8, <1>9, OneSession
<1>11. Walks!IInv'
  BY <1>1, WalkStays DEF IInv
<1>12. Stores!TypeOK /\ DOMAIN exports \subseteq DOMAIN drawn
  BY DEF IInv, Stores!IInv, Stores!TypeOK
<1>13. Stores!IInv'
  BY <1>2, <1>6, <1>12, StoresAssumptions, Stores!StoreInv
<1>14. /\ exports'[id].value = v
       /\ \A x \in DOMAIN exports' \ {id} : x \in DOMAIN exports /\ exports'[x] = exports[x]
       /\ DOMAIN drawn' = DOMAIN drawn \cup {id} /\ id \notin DOMAIN drawn
  <2>1. /\ exports'[id] = [value |-> v, expires |-> clock + TTL]
        /\ \A x \in DOMAIN exports' \ {id} : x \in DOMAIN exports /\ exports'[x] = exports[x]
        /\ DOMAIN drawn' = DOMAIN drawn \cup {id} /\ id \notin DOMAIN drawn
    BY <1>2, <1>6, <1>12, StoresAssumptions, Stores!StoreLeaves
  <2>2. QED BY <2>1
<1>15. /\ DOMAIN made = DOMAIN drawn /\ made'[id] = m
       /\ \A x \in DOMAIN drawn : made'[x] = made[x]
       /\ made' \in [DOMAIN drawn' -> [area : Areas, warned : BOOLEAN]]
  <2>1. m \in [area : Areas, warned : BOOLEAN]
    BY <1>2, <1>3 DEF m
  <2>2. made \in [DOMAIN drawn -> [area : Areas, warned : BOOLEAN]]
    BY DEF IInv, MadeInv
  <2>3. QED BY <1>7, <1>14, <2>1, <2>2 DEF Exports!With
<1>16. \A x \in DOMAIN exports' : AreaOf(made'[x], exports'[x].value)
  BY <1>2, <1>12, <1>14, <1>15 DEF IInv, MadeInv
<1>17. MadeInv'
  <2>1. \A x \in DOMAIN exports' : AreaOf(made[x], exports[x].value)'
    BY <1>1, <1>16, AreasStay DEF AreaOf
  <2>2. reply'.op # "get"
    BY <1>6
  <2>3. QED BY <1>15, <2>1, <2>2 DEF MadeInv
<1>18. QED BY <1>10, <1>11, <1>13, <1>17 DEF IInv

\* Steps of a summary touch the session only.
LEMMA SessionStep ==
    ASSUME IInv, UNCHANGED <<pageVars, exportVars, made>>,
           NEW c \in Clients, NEW s \in Session,
           session' = [session EXCEPT ![c] = s], SessionInv(s, call[c])
    PROVE  IInv'
<1>1. UNCHANGED <<site, call, exports, clock, drawn, reply, made>> /\ UNCHANGED pageVars
  BY DEF pageVars, exportVars
<1>2. SessionInv(s, call'[c])
  BY <1>1
<1>3. /\ session' = [d \in Clients |-> session'[d]]
      /\ \A d \in Clients : SessionInv(session[d], call[d])'
  BY <1>1, <1>2, OneSession
<1>4. QED BY <1>1, <1>3, WalkStays, StoreStays DEF IInv

LEMMA AnswerSummaryInv == ASSUME IInv, NEW c \in Clients, AnswerSummary(c) PROVE IInv'
<1> DEFINE complete == ~Truncated(c) /\ site[call[c].url].next = None
           s == [session[c] EXCEPT !.at = "answered", !.wells = WellsWithin(c),
                    !.count = Count(c), !.warned = Truncated(c), !.complete = complete]
<1>1. /\ session[c].at = "searching" /\ session[c].tool = "summary" /\ call[c].at = "done"
      /\ session[c] \in Session /\ SessionInv(session[c], call[c])
  BY DEF AnswerSummary, Walked, IInv, SessionInv
<1>2. /\ WellsWithin(c) \in SUBSET Ids /\ Count(c) \in Nat /\ Truncated(c) \in BOOLEAN
      /\ ~Truncated(c) => WellsWithin(c) = WellsOf(session[c].area)
  BY <1>1, WalkedWells DEF IInv
<1>3. /\ s \in Session /\ s.at = "answered" /\ s.wells = WellsWithin(c)
      /\ s.warned = Truncated(c) /\ s.complete = complete /\ s.area = session[c].area
      /\ s.error = session[c].error
  <2>1. complete \in BOOLEAN
    OBVIOUS
  <2> HIDE DEF complete
  <2>2. QED BY <1>1, <1>2, <2>1 DEF Session
<1>4. session' = [session EXCEPT ![c] = s] /\ UNCHANGED <<pageVars, exportVars, made>>
  BY DEF AnswerSummary, Answered
<1> HIDE DEF s
<1>5. ClaimsWhole(s) => s.wells = WellsOf(s.area)
  BY <1>2, <1>3 DEF ClaimsWhole
<1>6. SessionInv(s, call[c])
  BY <1>1, <1>3, <1>5 DEF SessionInv
<1>7. QED BY <1>3, <1>4, <1>6, SessionStep

LEMMA AnswerNoWellsInv == ASSUME IInv, NEW c \in Clients, AnswerNoWells(c) PROVE IInv'
<1> DEFINE s == [session[c] EXCEPT !.at = "answered"]
<1>1. session[c].at = "searching" /\ session[c] \in Session /\ SessionInv(session[c], call[c])
  BY DEF AnswerNoWells, Walked, IInv, SessionInv
<1>2. /\ s \in Session /\ s.at = "answered" /\ s.count = 0 /\ ~s.complete
      /\ s.error = session[c].error
  BY <1>1 DEF Session, SessionInv
<1>3. session' = [session EXCEPT ![c] = s] /\ UNCHANGED <<pageVars, exportVars, made>>
  BY DEF AnswerNoWells
<1> HIDE DEF s
<1>4. SessionInv(s, call[c])
  BY <1>1, <1>2 DEF SessionInv, ClaimsWhole
<1>5. QED BY <1>2, <1>3, <1>4, SessionStep

LEMMA DownloadInv ==
    ASSUME IInv, NEW id \in ExportIds, NEW bearer, Download(id, bearer) PROVE IInv'
<1>1. Stores!GetExport(id) /\ UNCHANGED <<site, call, session, made>> /\ UNCHANGED pageVars
  BY SameGet DEF Download, pageVars
<1>2. Stores!IInv'
  <2>1. Stores!Next
    BY <1>1 DEF Stores!Next
  <2>2. QED BY <2>1, StoresAssumptions, Stores!Inductive DEF IInv
<1>3. /\ UNCHANGED drawn
      /\ \A x \in DOMAIN exports' : x \in DOMAIN exports /\ exports'[x] = exports[x]
      /\ reply'.id = id
      /\ reply'.value # None => id \in DOMAIN exports /\ reply'.value = exports[id].value
  BY <1>1 DEF Stores!GetExport, Stores!GetMissing, Stores!GetExpired, Stores!GetServed,
              Stores!Keep
<1>4. MadeInv'
  <2>1. \A x \in DOMAIN exports' : AreaOf(made'[x], exports'[x].value)
    BY <1>1, <1>3 DEF IInv, MadeInv
  <2>2. reply'.value # None => AreaOf(made'[reply'.id], reply'.value)
    BY <1>1, <1>3 DEF IInv, MadeInv
  <2>3. made' \in [DOMAIN drawn' -> [area : Areas, warned : BOOLEAN]]
    BY <1>1, <1>3 DEF IInv, MadeInv
  <2>4. QED BY <1>1, <2>1, <2>2, <2>3, AreasStay DEF MadeInv, AreaOf
<1>5. QED BY <1>1, <1>2, <1>4, SessionsStay, WalkStays DEF IInv

LEMMA ExpireInv == ASSUME IInv, Expire PROVE IInv'
<1>1. UNCHANGED <<site, call, exports, clock, drawn, reply, session, made>>
  BY DEF Expire, Pages!Expire, exportVars
<1>2. Walks!Next
  BY DEF Expire, Pages!Expire, Walks!Expire, Walks!Next
<1>3. Walks!IInv'
  BY <1>2, WalksAssumptions, Walks!Inductive DEF IInv
<1>4. QED BY <1>1, <1>3, SessionsStay, StoreStays DEF IInv

LEMMA SetClockInv == ASSUME IInv, SetClock PROVE IInv'
<1>1. UNCHANGED <<site, call, exports, drawn, reply, session, made>> /\ UNCHANGED pageVars
  BY DEF SetClock, Exports!SetClock, pageVars
<1>2. Stores!Next
  BY DEF SetClock, Exports!SetClock, Stores!SetClock, Stores!Next
<1>3. Stores!IInv'
  BY <1>2, StoresAssumptions, Stores!Inductive DEF IInv
<1>4. MadeInv'
  BY <1>1, AreasStay DEF IInv, MadeInv, AreaOf
<1>5. QED BY <1>1, <1>3, <1>4, SessionsStay, WalkStays DEF IInv

\* Calls under way fail, their clients are idle, and nothing is cached or stored.
LEMMA RestartInv == ASSUME IInv, Restart PROVE IInv'
<1> DEFINE S == {c \in Clients : session[c].at = "searching"}
<1>1. UNCHANGED <<site, drawn, made>> /\ exports' = [id \in {} |-> None] /\ reply'.op = "none"
      /\ cache' \in [Urls -> BOOLEAN \cup {None}]
  BY DEF Restart, Exports!Restart, Exports!NoReply, Pages!Restart
<1>2. call' = [c \in Clients |-> IF c \in S THEN Walks!Failed(call[c]) ELSE call[c]]
  BY DEF Restart, Pages!Restart, Walks!Failed
<1>3. Walks!IInv'
  BY <1>1, <1>2, WalksAssumptions, Walks!FailedInv DEF IInv
<1>4. Stores!IInv'
  <2>1. Stores!Next
    BY DEF Restart, Exports!Restart, Exports!NoReply, Stores!Restart, Stores!NoReply, Stores!Next
  <2>2. QED BY <2>1, StoresAssumptions, Stores!Inductive DEF IInv
<1>5. MadeInv'
  BY <1>1 DEF IInv, MadeInv
<1>6. session' = [c \in Clients |-> session'[c]]
      /\ \A c \in Clients : session'[c] = Blank
                             \/ (session'[c] = session[c] /\ call'[c] = call[c])
  BY <1>2 DEF Restart
<1>7. \A c \in Clients : SessionInv(session'[c], call'[c])
  BY <1>6, IdleSession DEF IInv
<1>8. \A c \in Clients : SessionInv(session[c], call[c])'
  <2> TAKE c \in Clients
  <2>1. SessionInv(session'[c], call'[c])
    BY <1>7
  <2>2. QED BY <1>1, <2>1, AreasStay DEF SessionInv
<1>9. QED BY <1>3, <1>4, <1>5, <1>6, <1>8 DEF IInv

LEMMA Initial == Init => IInv
<1> SUFFICES ASSUME Init PROVE IInv
  OBVIOUS
<1>1. Walks!Init
  BY DEF Init, Pages!Init, Walks!Init
<1>2. Walks!IInv
  BY <1>1, WalksAssumptions, Walks!Initial
<1>3. Stores!Init
  BY DEF Init, Exports!Init, Stores!Init, Exports!NoReply, Stores!NoReply
<1>4. Stores!IInv
  BY <1>3, StoresAssumptions, Stores!Initial
<1>5. MadeInv
  <2>1. DOMAIN drawn = {} /\ DOMAIN exports = {} /\ reply.op = "none" /\ DOMAIN made = {}
        /\ made = [id \in {} |-> None]
    BY DEF Init, Exports!Init, Exports!NoReply
  <2>2. QED BY <2>1 DEF MadeInv
<1>6. \A c \in Clients : SessionInv(session[c], call[c])
  BY IdleSession DEF Init
<1>7. QED BY <1>2, <1>4, <1>5, <1>6 DEF Init, IInv

\* The inductive step: one case per action.
LEMMA Inductive == IInv /\ [Next]_vars => IInv'
<1> SUFFICES ASSUME IInv, [Next]_vars PROVE IInv'
  OBVIOUS
<1>1. CASE UNCHANGED vars
  <2>1. UNCHANGED <<site, call, session, exports, clock, drawn, reply, made>> /\ UNCHANGED pageVars
    BY <1>1 DEF vars, pageVars
  <2>2. QED BY <2>1, SessionsStay, WalkStays, StoreStays DEF IInv
<1>2. ASSUME NEW c \in Clients,
             \/ \E r \in Requests, bearer \in Bearers : Begin(c, r, bearer)
             \/ Geocoded(c) \/ GeocodingFailed(c) \/ Walk(c)
             \/ AnswerExport(c) \/ AnswerSummary(c) \/ AnswerNoWells(c) \/ AnswerError(c)
      PROVE  IInv'
  BY <1>2, BeginInv, GeocodedInv, GeocodingFailedInv, WalkInv, AnswerExportInv,
     AnswerSummaryInv, AnswerNoWellsInv, AnswerErrorInv
<1>3. QED BY <1>1, <1>2, DownloadInv, ExpireInv, SetClockInv, RestartInv DEF Next

\* In every reachable state what is stored, and what a summary claims, is of its area.
THEOREM AreaInvariant == Spec => []IInv
BY Initial, Inductive, PTL DEF Spec

-----------------------------------------------------------------------------
\* A walk is started at the first page of an area, with the limit of a tool.
LEMMA ProceedWalks ==
    ASSUME IInv, NEW c \in Clients, NEW r, NEW placed, Proceed(c, r, placed)
    PROVE  /\ First[Area(r, placed)] \in Urls /\ LimitOf(r.tool) \in {ScanLimit, ExportLimit}
           /\ Walks!Next /\ UNCHANGED exportVars
<1>1. First[Area(r, placed)] \in Urls /\ LimitOf(r.tool) \in {ScanLimit, ExportLimit}
  BY FirstAssumption DEF Area, Areas, LimitOf
<1>2. QED BY <1>1, WalkStart DEF Proceed, IInv

\* Every step of a tool is a step of its walks, or leaves them alone.
LEMMA StepsWalk == IInv /\ [Next]_vars => [Walks!Next]_Walks!vars
<1> SUFFICES ASSUME IInv, [Next]_vars PROVE Walks!Next \/ UNCHANGED pageVars
  BY DEF Walks!vars, pageVars
<1>1. CASE UNCHANGED vars
  BY <1>1 DEF vars, pageVars
<1>2. ASSUME NEW c \in Clients, NEW r \in Requests, NEW bearer \in Bearers, Begin(c, r, bearer)
      PROVE  Walks!Next \/ UNCHANGED pageVars
  BY <1>2, ProceedWalks DEF Begin, Refuse, LookUp, RefuseFilter
<1>3. ASSUME NEW c \in Clients, Geocoded(c) PROVE Walks!Next \/ UNCHANGED pageVars
  BY <1>3, ProceedWalks DEF Geocoded, RefuseFilter
<1>4. ASSUME NEW c \in Clients, Walk(c) PROVE Walks!Next
  BY <1>4, WalkStep DEF Walk, IInv
<1>5. CASE Expire
  BY <1>5 DEF Expire, Pages!Expire, Walks!Expire, Walks!Next
<1>6. CASE Restart
  <2>1. PICK lost \in SUBSET Clients : Pages!Restart(lost)
    BY <1>6 DEF Restart
  <2>2. Walks!Restart(lost)
    BY <2>1 DEF Pages!Restart, Walks!Restart, Pages!UnderWay, Walks!UnderWay
  <2>3. QED BY <2>2 DEF Walks!Next
<1>7. ASSUME NEW c \in Clients,
             \/ GeocodingFailed(c) \/ AnswerExport(c) \/ AnswerSummary(c)
             \/ AnswerNoWells(c) \/ AnswerError(c)
      PROVE  UNCHANGED pageVars
  BY <1>7 DEF GeocodingFailed, AnswerExport, AnswerSummary, AnswerNoWells, AnswerError
<1>8. ASSUME NEW id \in ExportIds, NEW bearer \in Bearers, Download(id, bearer)
      PROVE  UNCHANGED pageVars
  BY <1>8 DEF Download
<1>9. CASE SetClock
  BY <1>9 DEF SetClock
<1>10. QED BY <1>1, <1>2, <1>3, <1>4, <1>5, <1>6, <1>7, <1>8, <1>9 DEF Next

\* The same of the store: an answer to an export stores wells of ids, no more of them than
\* MAX_EXPORT_RECORDS, in a format there is.
LEMMA StepsStore == IInv /\ [Next]_vars => [Stores!Next]_Stores!vars
<1> SUFFICES ASSUME IInv, [Next]_vars PROVE Stores!Next \/ UNCHANGED exportVars
  BY DEF Stores!vars, exportVars
<1>1. CASE UNCHANGED vars
  BY <1>1 DEF vars, exportVars
<1>2. ASSUME NEW c \in Clients, NEW r \in Requests, NEW bearer \in Bearers, Begin(c, r, bearer)
      PROVE  UNCHANGED exportVars
  BY <1>2, ProceedWalks DEF Begin, Refuse, LookUp, RefuseFilter
<1>3. ASSUME NEW c \in Clients, Geocoded(c) PROVE UNCHANGED exportVars
  BY <1>3, ProceedWalks DEF Geocoded, RefuseFilter
<1>4. ASSUME NEW c \in Clients, AnswerExport(c) PROVE Stores!Next
  <2> DEFINE v == WellsWithin(c)
             format == session[c].format
  <2>1. /\ session[c].at = "searching" /\ session[c].tool = "export" /\ call[c].at = "done"
        /\ session[c] \in Session /\ SessionInv(session[c], call[c])
    BY <1>4 DEF AnswerExport, Walked, IInv, SessionInv
  <2>2. v \in SUBSET Ids /\ Count(c) \in Nat /\ Count(c) <= ExportLimit
    BY <2>1, WalkedWells DEF IInv, LimitOf
  <2>3. format \in Exports!Formats /\ Exports!Formats = Stores!Formats
    BY <2>1 DEF Session, Exports!Formats, Stores!Formats
  <2>4. Exports!CreateExport(Count(c), format, v)
    <3>1. ~(Count(c) > ExportLimit)
      BY <2>2, LimitsAssumption
    <3>2. QED BY <1>4, <3>1 DEF AnswerExport
  <2> HIDE DEF v, format
  <2>5. Stores!CreateExport(Count(c), format, v)
    BY <2>2, <2>3, <2>4, SameCreate DEF Stores!CreateExport
  <2>6. Count(c) \in 0..ExportLimit + 1
    BY <2>2, LimitsAssumption
  <2>7. QED BY <2>2, <2>3, <2>5, <2>6 DEF Stores!Next
<1>5. ASSUME NEW id \in ExportIds, NEW bearer \in Bearers, Download(id, bearer)
      PROVE  Stores!Next
  BY <1>5, SameGet DEF Download, Stores!Next
<1>6. CASE SetClock
  BY <1>6 DEF SetClock, Exports!SetClock, Stores!SetClock, Stores!Next
<1>7. CASE Restart
  BY <1>7 DEF Restart, Exports!Restart, Exports!NoReply, Stores!Restart, Stores!NoReply, Stores!Next
<1>8. ASSUME NEW c \in Clients,
             \/ GeocodingFailed(c) \/ Walk(c) \/ AnswerSummary(c)
             \/ AnswerNoWells(c) \/ AnswerError(c)
      PROVE  UNCHANGED exportVars
  BY <1>8 DEF GeocodingFailed, Walk, AnswerSummary, AnswerNoWells, AnswerError
<1>9. CASE Expire
  BY <1>9 DEF Expire
<1>10. QED BY <1>1, <1>2, <1>3, <1>4, <1>5, <1>6, <1>7, <1>8, <1>9 DEF Next

\* The tools drive their two parts as they are specified: what GetItemsProofs shows of
\* get_items, and ExportStoreProofs of the exports, holds within them.
THEOREM AreaRefinesParts == Spec => Walks!Spec /\ Stores!Spec
<1>1. Init => Walks!Init /\ Stores!Init
  BY DEF Init, Pages!Init, Walks!Init, Exports!Init, Stores!Init, Exports!NoReply, Stores!NoReply
<1>2. QED BY <1>1, StepsWalk, StepsStore, AreaInvariant, PTL DEF Spec, Walks!Spec, Stores!Spec

\* An export that starts where a summary does lists the beginning of what the summary
\* counts, or the other way round, whichever limit is the lower.
THEOREM AreaWalksAgree == Spec => []Walks!ResultsAgree
<1>1. Walks!Spec => []Walks!ResultsAgree
  BY WalksAssumptions, Walks!ItemsAgree
<1>2. QED BY <1>1, AreaRefinesParts, PTL

\* The export of the URL an answer gives is there, it goes at its deadline and not before,
\* and a download yields what was exported, in time.
THEOREM AreaExports ==
    Spec => []Stores!NewExportKept /\ Stores!NoLiveExportLost /\ Stores!IsExpiringStore
<1>1. Stores!Spec => []Stores!NewExportKept
  <2>1. Stores!Spec => [](Stores!TypeOK /\ Stores!NewExportKept)
    BY StoresAssumptions, Stores!ExportsKeepNew
  <2>2. QED BY <2>1, PTL
<1>2. Stores!Spec => Stores!NoLiveExportLost
  BY StoresAssumptions, Stores!ExportsLoseNoLive
<1>3. Stores!Spec => Stores!IsExpiringStore
  BY StoresAssumptions, Stores!ExportsRefineStore
<1>4. QED BY <1>1, <1>2, <1>3, AreaRefinesParts, PTL

\* A walk is under way only for a session that waits for it.
Owned(s, k) == k.at \in {"lookup", "fetch"} => s.at = "searching"
WalksOwned == \A c \in Clients : Owned(session[c], call[c])

LEMMA StepsOwned == IInv /\ WalksOwned /\ [Next]_vars => WalksOwned'
<1> SUFFICES ASSUME IInv, WalksOwned, [Next]_vars, NEW c \in Clients
             PROVE  Owned(session'[c], call'[c])
  BY DEF WalksOwned, Owned
<1>1. call \in [Clients -> Walks!Call] /\ session = [d \in Clients |-> session[d]]
      /\ \A d \in Clients : Owned(session[d], call[d])
  BY DEF IInv, Walks!IInv, Walks!TypeOK, WalksOwned
<1>2. CASE UNCHANGED <<call, session>>
  BY <1>1, <1>2
<1>3. ASSUME NEW d \in Clients, NEW r, NEW placed, Proceed(d, r, placed)
      PROVE  Owned(session'[c], call'[c])
  <2>1. CASE c = d
    BY <1>1, <1>3, <2>1 DEF Proceed, Blank, Owned
  <2>2. CASE c # d
    BY <1>1, <1>3, <2>2 DEF Proceed, Pages!Start
  <2>3. QED BY <2>1, <2>2
\* A session whose walk is not under way may become any.
<1>4. ASSUME NEW d \in Clients, UNCHANGED call, call[d].at \notin {"lookup", "fetch"},
             \A e \in Clients \ {d} : session'[e] = session[e]
      PROVE  Owned(session'[c], call'[c])
  BY <1>1, <1>4 DEF Owned
<1>5. ASSUME NEW d \in Clients, NEW r \in Requests, NEW bearer \in Bearers, Begin(d, r, bearer)
      PROVE  Owned(session'[c], call'[c])
  <2>1. CASE \E placed : Proceed(d, r, placed)
    BY <1>3, <2>1
  <2>2. CASE ~\E placed : Proceed(d, r, placed)
    <3>1. Refuse(d, r) \/ LookUp(d, r) \/ RefuseFilter(d, r)
      BY <1>5, <2>2 DEF Begin
    <3>2. UNCHANGED call /\ \A e \in Clients \ {d} : session'[e] = session[e]
      BY <1>1, <3>1 DEF Refuse, LookUp, RefuseFilter, RefuseWith, pageVars
    <3>3. call[d].at \notin {"lookup", "fetch"}
      BY <1>1, <1>5 DEF Begin, Owned
    <3>4. QED BY <1>4, <3>2, <3>3
  <2>3. QED BY <2>1, <2>2
<1>6. ASSUME NEW d \in Clients, Geocoded(d) \/ GeocodingFailed(d)
      PROVE  Owned(session'[c], call'[c])
  <2>1. CASE \E r, placed : Proceed(d, r, placed)
    BY <1>3, <2>1
  <2>2. CASE ~\E r, placed : Proceed(d, r, placed)
    <3>1. UNCHANGED call /\ \A e \in Clients \ {d} : session'[e] = session[e]
      BY <1>1, <1>6, <2>2 DEF Geocoded, GeocodingFailed, RefuseFilter, RefuseWith, pageVars
    <3>2. call[d].at \notin {"lookup", "fetch"}
      BY <1>1, <1>6 DEF Geocoded, GeocodingFailed, Owned
    <3>3. QED BY <1>4, <3>1, <3>2
  <2>3. QED BY <2>1, <2>2
<1>7. ASSUME NEW d \in Clients, Walk(d) PROVE Owned(session'[c], call'[c])
  <2>1. /\ session' = session /\ call[d].at \in {"lookup", "fetch"}
        /\ \A e \in Clients \ {d} : call'[e] = call[e]
    BY <1>7, WalkKeeps DEF Walk, IInv, Pages!Work, Pages!Hit, Pages!Miss, Pages!Receive, Pages!Fail
  <2>2. QED BY <1>1, <2>1 DEF Owned
<1>8. ASSUME NEW d \in Clients,
             AnswerExport(d) \/ AnswerSummary(d) \/ AnswerNoWells(d) \/ AnswerError(d)
      PROVE  Owned(session'[c], call'[c])
  <2>1. UNCHANGED call /\ call[d].at \notin {"lookup", "fetch"}
    BY <1>8 DEF AnswerExport, AnswerSummary, AnswerNoWells, AnswerError, Walked, pageVars
  <2>2. \A e \in Clients \ {d} : session'[e] = session[e]
    BY <1>1, <1>8 DEF AnswerExport, AnswerSummary, AnswerNoWells, AnswerError, Answered, RefuseWith
  <2>3. QED BY <1>4, <2>1, <2>2
<1>9. CASE Restart
  <2>1. \/ session[c].at = "searching" /\ call'[c] = [call[c] EXCEPT !.at = "failed", !.records = <<>>]
        \/ session[c].at # "searching" /\ call'[c] = call[c]
    BY <1>9 DEF Restart, Pages!Restart
  <2>2. call'[c].at \notin {"lookup", "fetch"}
    BY <1>1, <2>1 DEF Walks!Call, Owned
  <2>3. QED BY <2>2 DEF Owned
<1>10. ASSUME NEW id \in ExportIds, NEW bearer \in Bearers, Download(id, bearer)
       PROVE  UNCHANGED <<call, session>>
  BY <1>10 DEF Download, pageVars
<1>11. CASE Expire \/ SetClock
  BY <1>2, <1>11 DEF Expire, Pages!Expire, SetClock, pageVars
<1>12. CASE UNCHANGED vars
  BY <1>2, <1>12 DEF vars
<1>13. QED
  BY <1>2, <1>5, <1>6, <1>7, <1>8, <1>9, <1>10, <1>11, <1>12 DEF Next

\* So a restart, which ends the sessions that search, fails every call of get_items there
\* is: its guard in GetItems never keeps the process from restarting.
THEOREM AreaWalksOwned == Spec => []WalksOwned
<1>1. Init => WalksOwned
  BY DEF Init, Pages!Init, WalksOwned, Owned
<1>2. QED BY <1>1, StepsOwned, AreaInvariant, PTL DEF Spec
-----------------------------------------------------------------------------
\* What is downloaded are wells of the area the export was made for, and all of them
\* unless its answer had a warning.
THEOREM AreaDownloads == Spec => []DownloadIsTheArea
<1>1. IInv => DownloadIsTheArea
  BY DEF IInv, MadeInv, AreaOf, DownloadIsTheArea
<1>2. QED BY AreaInvariant, <1>1, PTL

\* A summary without a warning, or with "complete", counts the wells of the whole area.
THEOREM AreaSummaries == Spec => []SummaryIsWhole
<1>1. IInv => SummaryIsWhole
  BY DEF IInv, SessionInv, SummaryIsWhole
<1>2. QED BY AreaInvariant, <1>1, PTL

\* No export is refused for its size or format once its walk is done.
THEOREM AreaLimits == Spec => []ExportsWithinLimit
<1>1. IInv => ExportsWithinLimit
  BY DEF IInv, SessionInv, ExportsWithinLimit
<1>2. QED BY AreaInvariant, <1>1, PTL

\* The walks, the store, the sessions and the history keep their types.
THEOREM AreaTypes == Spec => []TypeOK
<1>1. IInv => TypeOK
  <2> SUFFICES ASSUME IInv PROVE TypeOK
    OBVIOUS
  <2>1. Pages!TypeOK
    BY DEF IInv, Walks!IInv, Walks!TypeOK, Pages!TypeOK, Walks!Call, Pages!Call
  <2>2. Exports!TypeOK
    BY DEF IInv, Stores!IInv, Stores!TypeOK, Exports!TypeOK, Stores!Record, Exports!Record,
           Stores!Reply, Exports!Reply, Stores!NoReply, Exports!NoReply, Stores!Errors,
           Exports!Errors
  <2>3. session \in [Clients -> Session]
    BY DEF IInv, SessionInv
  <2>4. QED BY <2>1, <2>2, <2>3 DEF IInv, SessionInv, MadeInv, TypeOK
<1>2. QED BY AreaInvariant, <1>1, PTL
=============================================================================
