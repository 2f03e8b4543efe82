------------------------------ MODULE AreaTools ------------------------------
(***************************************************************************)
(* The tools create_export and summarize_well_area in one process.  Both   *)
(* check their arguments, look an address up, walk the wells of the area   *)
(* (GetItems) up to a limit of their own, and keep those within the radius *)
(* if there is one.  One stores them for download (ExportStore), the other *)
(* counts them.  They share the results cache, and their requests for one  *)
(* area have the same key there: by default both ask for pages of 1000.    *)
(***************************************************************************)
EXTENDS Integers, Sequences, FiniteSets, SequencesExt

CONSTANTS Urls, Ids, NoId, Sites, None,
          First,        \* the URL of the first request for each kind of area
          Wells,        \* where each well lies: inside the radius, outside, or unknown
          ScanLimit,    \* _MAX_SCAN
          ExportLimit,  \* settings.max_export_records
          Requests,     \* what clients ask
          Secret,       \* settings.mcp_bearer_token, or None
          Bearers,      \* the bearer tokens clients send; one that sends none has None
          Clients, ExportIds, TTL, MaxTime

Areas == {"near", "box", "all"}
ASSUME FirstAssumption == First \in [Areas -> Urls]
ASSUME WellsAssumption == Wells \in [Ids \cup {NoId} -> {"inside", "outside", "unknown"}]

VARIABLES site, cache, call,               \* of GetItems
          exports, clock, drawn, reply,    \* of ExportStore
          session,                         \* what each client asked and was told
          made                             \* history: for each export its area, and
                                           \* whether its answer had a warning
Pages == INSTANCE GetItems WITH Calls <- Clients, Limits <- {ScanLimit, ExportLimit}
Exports == INSTANCE ExportStore WITH Contents <- SUBSET Ids, MaxRecords <- ExportLimit

ASSUME SitesAssumption == Sites \subseteq [Urls -> Pages!Page]
ASSUME LimitsAssumption ==
    {ScanLimit, ExportLimit} \subseteq Nat \ {0} /\ TTL \in Nat \ {0} /\ MaxTime \in Nat

pageVars == <<site, cache, call>>
exportVars == <<exports, clock, drawn, reply>>
vars == <<site, cache, call, exports, clock, drawn, reply, session, made>>

\* The arguments, as far as the tools tell them apart.
Request == [tool : {"export", "summary"}, format : Exports!Formats \cup {"xlsx"},
            address : BOOLEAN, point : {"none", "half", "both"},
            radius : {"none", "zero", "some"}, box : BOOLEAN, filter : {"valid", "invalid"}]

\* A summary has no format.
ASSUME RequestsAssumption ==
    Requests \subseteq Request /\ \A r \in Requests : r.tool = "summary" => r.format = "csv"

Refusals == {"invalid_format", "conflicting_inputs", "invalid_coordinates", "missing_radius",
             "missing_spatial_constraint", "invalid_filter", "geocoding_failed",
             "sgu_unavailable", "export_too_large", "export_failed", "raised"}
ASSUME NoneAssumption ==
    /\ None \notin Refusals \cup ExportIds \cup [value : SUBSET Ids, expires : Int]
    /\ \A wells \in SUBSET Ids : None # wells

\* request: while an address is looked up; tool, format, area: while the walk goes on;
\* wells, count, warned, complete: of an answer that is no error.
Session == [at : {"idle", "geocoding", "searching", "answered", "refused"},
            request : Request \cup {None}, tool : {"export", "summary"},
            format : Exports!Formats, area : Areas, error : Refusals \cup {None},
            wells : SUBSET Ids, count : Nat, warned : BOOLEAN, complete : BOOLEAN]

LimitSwapped(tool) == IF tool = "export" THEN ScanLimit ELSE ExportLimit   \* altered

LimitOf(tool) == IF tool = "export" THEN ExportLimit ELSE ScanLimit

TypeOK == /\ Pages!TypeOK
          /\ Exports!TypeOK
          /\ session \in [Clients -> Session]
          /\ made \in [DOMAIN drawn -> [area : Areas, warned : BOOLEAN]]
          /\ \A c \in Clients : session[c].at = "searching" =>
                call[c].start = First[session[c].area]

Blank == [at |-> "idle", request |-> None, tool |-> "export", format |-> "csv", area |-> "all",
          error |-> None, wells |-> {}, count |-> 0, warned |-> FALSE, complete |-> FALSE]

Init == /\ Pages!Init
        /\ Exports!Init
        /\ session = [c \in Clients |-> Blank]
        /\ made = [id \in {} |-> None]
-----------------------------------------------------------------------------
\* The checks of each tool, in order.
ExportChecks(r) == << <<r.format \notin Exports!Formats, "invalid_format">>,
                      <<r.address /\ r.point # "none", "conflicting_inputs">>,
                      <<r.point = "half", "invalid_coordinates">>,
                      <<r.address /\ r.radius = "none", "missing_radius">> >>
SummaryChecks(r) ==
    << <<~(r.point = "both" /\ r.radius = "some") /\ ~r.box, "missing_spatial_constraint">>,
       <<r.address /\ r.radius = "none", "missing_radius">> >>
Checks(r) == IF r.tool = "export" THEN ExportChecks(r) ELSE SummaryChecks(r)
Sound(r) == \A i \in DOMAIN Checks(r) : ~Checks(r)[i][1]

\* A radius of zero counts as none, and so does one around a place not known.
Area(r, placed) ==
    IF r.radius = "some" /\ placed THEN "near" ELSE IF r.box THEN "box" ELSE "all"

RefuseWith(c, error) ==
    /\ session' = [session EXCEPT ![c] = [Blank EXCEPT !.at = "refused", !.error = error]]
    /\ UNCHANGED made

ProceedPlaced(c, r, placed) ==   \* altered: takes the coordinates for known
    /\ r.filter = "valid"
    /\ Pages!Start(c, First[Area(r, TRUE)], LimitOf(r.tool))
    /\ session' = [session EXCEPT ![c] = [Blank EXCEPT
          !.at = "searching", !.tool = r.tool, !.format = r.format, !.area = Area(r, placed)]]
    /\ UNCHANGED <<exportVars, made>>

\* The attribute filter is good: the walk starts.
Proceed(c, r, placed) ==
    /\ r.filter = "valid"
    /\ Pages!Start(c, First[Area(r, placed)], LimitOf(r.tool))
    /\ session' = [session EXCEPT ![c] = [Blank EXCEPT
          !.at = "searching", !.tool = r.tool, !.format = r.format, !.area = Area(r, placed)]]
    /\ UNCHANGED <<exportVars, made>>

RefuseFilter(c, r) ==
    /\ r.filter = "invalid"
    /\ RefuseWith(c, "invalid_filter")
    /\ UNCHANGED <<pageVars, exportVars>>

\* The first check that fails decides.
Refuse(c, r) ==
    /\ \E i \in DOMAIN Checks(r) :
          /\ Checks(r)[i][1]
          /\ \A j \in 1..i - 1 : ~Checks(r)[j][1]
          /\ RefuseWith(c, Checks(r)[i][2])
    /\ UNCHANGED <<pageVars, exportVars>>

LookUp(c, r) ==
    /\ Sound(r)
    /\ r.address
    /\ session' = [session EXCEPT ![c] = [Blank EXCEPT !.at = "geocoding", !.request = r]]
    /\ UNCHANGED <<pageVars, exportVars, made>>

\* BearerTokenMiddleware, before /mcp and /api/exports: all are refused if no secret is set.
Admitted(bearer) == Secret # None /\ bearer = Secret

\* A request: refused, or the address is looked up, or the walk starts at once.
Begin(c, r, bearer) ==
    /\ Admitted(bearer)
    /\ session[c].at \notin {"geocoding", "searching"}
    /\ \/ Refuse(c, r)
       \/ LookUp(c, r)
       \/ /\ Sound(r) /\ ~r.address
          /\ Proceed(c, r, r.point = "both") \/ RefuseFilter(c, r)

\* The address is found; its coordinates replace those given.  A result without a
\* geometry has none.
Geocoded(c) ==
    /\ session[c].at = "geocoding"
    /\ LET r == session[c].request
       IN (\E placed \in BOOLEAN : Proceed(c, r, placed)) \/ RefuseFilter(c, r)

\* A GeocodingError is answered; any other exception leaves the tool.
GeocodingFailed(c) ==
    /\ session[c].at = "geocoding"
    /\ \E error \in {"geocoding_failed", "raised"} : RefuseWith(c, error)
    /\ UNCHANGED <<pageVars, exportVars>>

\* get_items at work for client c.
Walk(c) ==
    /\ Pages!Work(c) \/ Pages!Fail(c)
    /\ UNCHANGED <<exportVars, session, made>>

WithinUnlessOutside(c) ==   \* altered: keeps what it cannot place
    {i \in DOMAIN call[c].records :
        session[c].area = "near" => Wells[call[c].records[i]] # "outside"}

\* Where in the list the records within the radius are, when there is one.
Within(c) ==
    {i \in DOMAIN call[c].records :
        session[c].area = "near" => Wells[call[c].records[i]] = "inside"}
Count(c) == Cardinality(Within(c))
WellsWithin(c) == {call[c].records[i] : i \in Within(c)} \ {NoId}

TruncatedInside(c) == Count(c) >= call[c].max   \* altered: counts after the radius

Truncated(c) == call[c].truncated

Walked(c, tool) ==
    session[c].at = "searching" /\ session[c].tool = tool /\ call[c].at = "done"

Answered(c, complete) ==
    session' = [session EXCEPT ![c].at = "answered",
                               ![c].wells = WellsWithin(c), ![c].count = Count(c),
                               ![c].warned = Truncated(c), ![c].complete = complete]

\* The export is stored, or refused, first by the tool and then by the store.
AnswerExport(c) ==
    /\ Walked(c, "export")
    /\ IF Count(c) > ExportLimit
       THEN RefuseWith(c, "export_too_large") /\ UNCHANGED exportVars
       ELSE /\ Exports!CreateExport(Count(c), session[c].format, WellsWithin(c))
            /\ IF reply'.op = "refused"
               THEN RefuseWith(c, "export_failed")
               ELSE /\ Answered(c, FALSE)
                    /\ made' = Exports!With(made, reply'.id,
                                    [area |-> session[c].area, warned |-> Truncated(c)])
    /\ UNCHANGED pageVars

\* Counts, a warning if the walk was cut, and "complete".
AnswerSummary(c) ==
    /\ Walked(c, "summary")
    /\ Within(c) # {}
    /\ Answered(c, ~Truncated(c) /\ site[call[c].url].next = None)
    /\ UNCHANGED <<pageVars, exportVars, made>>

\* "No wells found", whether the walk was cut or not; the answer has no "complete".
AnswerNoWells(c) ==
    /\ Walked(c, "summary")
    /\ Within(c) = {}
    /\ session' = [session EXCEPT ![c].at = "answered"]
    /\ UNCHANGED <<pageVars, exportVars, made>>

\* An SGUError is answered; any other exception of the walk, as for a body that is not
\* JSON, leaves the tool.
AnswerError(c) ==
    /\ session[c].at = "searching" /\ call[c].at = "failed"
    /\ \E error \in {"sgu_unavailable", "raised"} : RefuseWith(c, error)
    /\ UNCHANGED <<pageVars, exportVars>>

\* GET /api/exports/<id>: the content, or 404.
Download(id, bearer) ==
    /\ Admitted(bearer)
    /\ Exports!GetExport(id)
    /\ UNCHANGED <<pageVars, session, made>>

Expire == /\ \E u \in Urls : Pages!Expire(u)
          /\ UNCHANGED <<exportVars, session, made>>

SetClock == Exports!SetClock /\ UNCHANGED <<pageVars, session, made>>

\* The process restarts: its cache, its exports and the requests under way are gone.
Restart ==
    /\ Exports!Restart
    /\ Pages!Restart({c \in Clients : session[c].at = "searching"})
    /\ session' = [c \in Clients |-> IF session[c].at \in {"geocoding", "searching"}
                                     THEN Blank ELSE session[c]]
    /\ UNCHANGED made

Next == \/ \E c \in Clients :
              \/ \E r \in Requests, bearer \in Bearers : Begin(c, r, bearer)
              \/ Geocoded(c) \/ GeocodingFailed(c) \/ Walk(c)
              \/ AnswerExport(c) \/ AnswerSummary(c) \/ AnswerNoWells(c) \/ AnswerError(c)
        \/ \E id \in ExportIds, bearer \in Bearers : Download(id, bearer)
        \/ Expire \/ SetClock \/ Restart

Spec == Init /\ [][Next]_vars
-----------------------------------------------------------------------------
\* The wells of an area, as far as their ids are known.
WellsOf(area) ==
    {f \in (UNION {ToSet(site[u].features) : u \in Pages!Reachable(First[area])}) \ {NoId} :
        area = "near" => Wells[f] = "inside"}

\* What is downloaded, at any later time, are wells of the area the export was made
\* for, and all of them unless its answer warned that it was truncated, whatever
\* other calls left in the cache.
DownloadIsTheArea ==
    reply.op = "get" /\ reply.value # None =>
        /\ reply.value \subseteq WellsOf(made[reply.id].area)
        /\ made[reply.id].warned \/ WellsOf(made[reply.id].area) \subseteq reply.value

\* A summary that counts wells counts those of the whole area, unless it warns;
\* "complete" is true.
ClaimsWhole(s) == s.complete \/ (~s.warned /\ s.count > 0)
SummaryIsWhole ==
    \A c \in Clients :
        session[c].at = "answered" /\ session[c].tool = "summary" /\ ClaimsWhole(session[c]) =>
            session[c].wells = WellsOf(session[c].area)

\* The walk keeps to MAX_EXPORT_RECORDS, so that neither the tool nor the store
\* ever refuses an export for its size or its format.
ExportsWithinLimit ==
    \A c \in Clients : session[c].error \notin {"export_too_large", "export_failed"}

\* README "Partial-result warnings are included when a limit is reached": an answer
\* without one leaves no well of the area out.
SilenceMeansWhole ==
    \A c \in Clients : session[c].at = "answered" /\ ~session[c].warned =>
        WellsOf(session[c].area) \subseteq session[c].wells
=============================================================================
