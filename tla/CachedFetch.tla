----------------------------- MODULE CachedFetch -----------------------------
(***************************************************************************)
(* What SGU says about its collections and wells, and Google about an      *)
(* address, is kept in a TTLCache: look the key up; on a miss ask, and set *)
(* the answer.  Other calls run while one waits for the source, so that    *)
(* two may ask for one key at once and set it in either order.             *)
(*                                                                         *)
(* A tool reads some keys in turn.  get_dataset_metadata goes on without   *)
(* those that fail and says so; resolve_address and get_well_layers read   *)
(* one.  get_well asks by one identifier after the other until one names a *)
(* well, and then for its layers.  The cache is here what TTLCache         *)
(* promises (ExpiringStore): an entry may also go early.                   *)
(***************************************************************************)
EXTENDS Integers, Sequences, FiniteSets

CONSTANTS Keys,        \* cache keys: documents, addresses, queries for a well or its layers
          Reports,     \* what the tools are asked
          TTL,         \* the ttl argument of set, for each key
          Empty,       \* the answers, as <<key, version>>, that hold no well
          Callers, None,
          Patience,    \* the longest a request takes (httpx timeouts, retries)
          MaxVersions, \* bound: how many answers a source has for a key, one after the other
          MaxTime      \* bound: the clock stops here

\* The keys to read, all of them or up to the first with a well, and those to read after
\* it.  By fid there is one, whose answer is never cached.
Report == [rule : {"all", "first", "fid"}, keys : Seq(Keys) \ {<<>>}, layers : Seq(Keys)]

ASSUME ReportsAssumption == Reports \subseteq Report /\ None \notin Reports
ASSUME TimeAssumption == TTL \in [Keys -> Nat] /\ Patience \in Nat /\ MaxTime \in Nat
ASSUME VersionsAssumption == MaxVersions \in Nat \ {0}

VARIABLES clock,   \* time.monotonic()
          since,   \* since[k][n]: when the source began to give its nth answer for k
          cache,   \* cache[k]: the entry under k, or None
          call     \* each caller's report under way, or its latest

vars == <<clock, since, cache, call>>

Versions == 1..MaxVersions
Times == 0..MaxTime
Current(k) == Len(since[k])
Entry == [version : Versions, expires : Nat]

\* report, plan: what is being read, and the keys still to read; asked, version: of the
\* request under way; result: of get_well, the latest or in the making.
Results == {"none", "well", "not_found", "sgu_unavailable"}
Call == [at : {"idle", "lookup", "asked", "served"},
         report : Reports \cup {None}, result : Results, plan : Seq(Keys),
         asked : Times, version : Versions \cup {0}]

TypeOK == /\ clock \in Times
          /\ \A k \in Keys : Current(k) \in Versions /\ since[k] \in [1..Current(k) -> 0..clock]
          /\ cache \in [Keys -> Entry \cup {None}]
          /\ call \in [Callers -> Call]
          /\ \A c \in Callers :
                (call[c].at = "idle" <=> call[c].plan = <<>>)
                /\ (call[c].at = "idle" <=> call[c].report = None)

Init == /\ clock = 0
        /\ since = [k \in Keys |-> <<0>>]
        /\ cache = [k \in Keys |-> None]
        /\ call = [c \in Callers |-> [at |-> "idle", report |-> None, result |-> "none",
                                      plan |-> <<>>, asked |-> 0, version |-> 0]]
-----------------------------------------------------------------------------
Documents(keys) == [rule |-> "all", keys |-> keys, layers |-> <<>>]

\* The layers asked for by themselves; up to 200 are one answer here (GetItems has the
\* pages and the warning).
WellLayers(key) == Documents(<<key>>)

\* get_well, by brunnsid and obsplatsid, those of them that are given.  The layers are
\* <<>> also when the well found has neither identifier.
Well(keys, layers) == [rule |-> "first", keys |-> keys, layers |-> layers]

\* get_well by fid, whatever other identifiers are given.
WellByFid(key, layers) == [rule |-> "fid", keys |-> <<key>>, layers |-> layers]

\* (An empty address, or no identifier at all, is refused before.)
Begin(c, report) ==
    /\ call[c].plan = <<>>
    /\ call' = [call EXCEPT ![c].at = "lookup", ![c].report = report, ![c].result = "none",
                            ![c].plan = report.keys]
    /\ UNCHANGED <<clock, since, cache>>

Key(c) == Head(call[c].plan)

\* Whether the call is still in search of a well.
Searching(c) == call[c].report.rule # "all" /\ call[c].result = "none"

\* get_item is a request without a cache.
Direct(c) == call[c].report.rule = "fid" /\ Searching(c)

\* The keys still to read after the answer of one: a record, nothing, or a failure.
Ahead(c, answer) ==
    IF ~Searching(c) \/ answer = "nothing" THEN Tail(call[c].plan)
    ELSE IF answer = "record" THEN call[c].report.layers ELSE <<>>

ResultOfLatest(c, answer) ==    \* altered: failing layers fail the whole call
    IF call[c].report.rule # "all" /\ answer = "failed" THEN "sgu_unavailable"
    ELSE IF ~Searching(c) \/ (answer = "nothing" /\ Tail(call[c].plan) # <<>>)
    THEN call[c].result
    ELSE IF answer = "record" THEN "well" ELSE "not_found"

Result(c, answer) ==
    IF ~Searching(c) \/ (answer = "nothing" /\ Tail(call[c].plan) # <<>>)
    THEN call[c].result
    ELSE [record |-> "well", nothing |-> "not_found", failed |-> "sgu_unavailable"][answer]

AtLookup(c, answer) == "lookup"    \* altered: goes on after the last key

AtNextKey(c, answer) == IF Ahead(c, answer) = <<>> THEN "idle" ELSE "lookup"

\* The tool has an answer for its key, or none, and turns to the next.
TurnTo(c, answer) ==
    call' = [call EXCEPT ![c].at = AtNextKey(c, answer), ![c].plan = Ahead(c, answer),
                         ![c].report = IF Ahead(c, answer) = <<>> THEN None ELSE @,
                         ![c].result = Result(c, answer),
                         ![c].asked = 0, ![c].version = 0]

Obtain(c, n) == TurnTo(c, IF <<Key(c), n>> \in Empty THEN "nothing" ELSE "record")

CachedLate(c) ==          \* altered: one moment longer
    ~Direct(c) /\ cache[Key(c)] # None /\ clock <= cache[Key(c)].expires

Cached(c) == ~Direct(c) /\ cache[Key(c)] # None /\ clock < cache[Key(c)].expires

Hit(c) ==
    /\ call[c].at = "lookup"
    /\ Cached(c)
    /\ Obtain(c, cache[Key(c)].version)
    /\ UNCHANGED <<clock, since, cache>>

CacheUnder(c, entry) == IF Direct(c) THEN cache ELSE [cache EXCEPT ![Key(c)] = entry]

\* An expired entry is deleted by the lookup.
Ask(c) ==
    /\ call[c].at = "lookup"
    /\ ~Cached(c)
    /\ cache' = CacheUnder(c, None)
    /\ call' = [call EXCEPT ![c].at = "asked", ![c].asked = clock]
    /\ UNCHANGED <<clock, since>>

\* The source writes its answer; it is then on its way.
Serve(c) ==
    /\ call[c].at = "asked"
    /\ call' = [call EXCEPT ![c].at = "served", ![c].version = Current(Key(c))]
    /\ UNCHANGED <<clock, since, cache>>

Receive(c) ==
    /\ call[c].at = "served"
    /\ cache' = CacheUnder(c, [version |-> call[c].version, expires |-> clock + TTL[Key(c)]])
    /\ Obtain(c, call[c].version)
    /\ UNCHANGED <<clock, since>>

FailKeeping(c) ==         \* altered: what failed is read once more
    /\ call[c].at \in {"asked", "served"}
    /\ call' = [call EXCEPT ![c].at = "lookup"]
    /\ UNCHANGED <<clock, since, cache>>

FailAsNothing(c) ==       \* altered: a failure counts as an empty answer
    /\ call[c].at \in {"asked", "served"}
    /\ TurnTo(c, "nothing")
    /\ UNCHANGED <<clock, since, cache>>

\* SGUError or GeocodingError ("no results" is one of them): nothing is cached.  By fid
\* a 4xx, of whatever kind, is taken for "no such well".
Fail(c) ==
    /\ call[c].at \in {"asked", "served"}
    /\ TurnTo(c, "failed") \/ (Direct(c) /\ TurnTo(c, "nothing"))
    /\ UNCHANGED <<clock, since, cache>>

\* An error of another class (a body that is not JSON), or a cancellation.
Abort(c) ==
    /\ call[c].at \in {"asked", "served"}
    /\ call' = [call EXCEPT ![c].at = "idle", ![c].plan = <<>>, ![c].report = None,
                            ![c].result = "none", ![c].asked = 0, ![c].version = 0]
    /\ UNCHANGED <<clock, since, cache>>

Work(c) == Hit(c) \/ Ask(c) \/ Serve(c) \/ Receive(c) \/ Fail(c) \/ Abort(c)

\* The source has a new answer for k.
Publish(k) ==
    /\ Current(k) < MaxVersions
    /\ since' = [since EXCEPT ![k] = Append(@, clock)]
    /\ UNCHANGED <<clock, cache, call>>

\* Evicted by use of other keys, or the process restarts.
Forget(k) ==
    /\ cache[k] # None
    /\ cache' = [cache EXCEPT ![k] = None]
    /\ UNCHANGED <<clock, since, call>>

\* No request outlasts Patience.
Tick ==
    /\ clock < MaxTime
    /\ \A c \in Callers : call[c].at \in {"asked", "served"} => clock < call[c].asked + Patience
    /\ clock' = clock + 1
    /\ UNCHANGED <<since, cache, call>>

Next == \/ \E c \in Callers : Work(c) \/ \E report \in Reports : Begin(c, report)
        \/ \E k \in Keys : Publish(k) \/ Forget(k)
        \/ Tick

Spec == Init /\ [][Next]_vars

\* The event loop runs ready tasks, and every request is answered or fails.
FairSpec == Spec /\ \A c \in Callers : WF_vars(Work(c))
-----------------------------------------------------------------------------
\* What a tool reads of a key was the source's answer at some moment since ttl and
\* one request before, although calls that overlap may set an older answer over a
\* newer one.
Outdated(k, n) ==
    /\ n < Current(k)
    /\ since[k][n + 1] + Patience < clock
    /\ since[k][n + 1] + Patience + TTL[k] <= clock
FreshEnough ==
    [][\A c \in Callers : (Hit(c) => ~Outdated(Key(c), cache[Key(c)].version))
                          /\ (Receive(c) => ~Outdated(Key(c), call[c].version))]_vars

\* "Well not found" is never said of a failure, but for a 4xx by fid: each brunnsid or
\* obsplatsid asked for was once without a well at SGU.
NotFoundIsTrue ==
    [][\A c \in Callers : call'[c].result = "not_found" /\ call[c].result # "not_found"
                             /\ call[c].report.rule = "first" =>
          LET keys == call[c].report.keys
          IN \A i \in DOMAIN keys :
                \E n \in 1..Current(keys[i]) : <<keys[i], n>> \in Empty]_vars

\* A well that was found is answered, whatever becomes of its layers, unless an error
\* of another class ends the call.
WellKept ==
    [][\A c \in Callers : call[c].result = "well" /\ call[c].plan # <<>> =>
          call'[c].result = "well" \/ Abort(c)]_vars

\* A report is finished whatever fails, all its keys read or named as missing.
EveryReportEnds ==
    \A c \in Callers : call[c].plan # <<>> ~> call[c].plan = <<>>
=============================================================================
