------------------------------ MODULE GetItems ------------------------------
(***************************************************************************)
(* SGUClient.get_items: concurrent calls walk the "next" links of a paged  *)
(* collection through the shared results cache.  What is cached is the     *)
(* very dict object a call then works on: a call that stops early writes   *)
(* "_truncated" into it, so an entry is modelled by that flag, the rest of *)
(* it being the page at its URL.                                           *)
(*                                                                         *)
(* A URL stands for a cache key: the first request's URL with its sorted   *)
(* parameters, or a next link.  A call takes one page per step, which is   *)
(* finer than the event loop: after a cache hit it would go on at once.    *)
(***************************************************************************)
EXTENDS Integers, SequencesExt

CONSTANTS Urls,      \* cache keys
          Ids,       \* feature ids
          NoId,      \* a feature with neither id nor brunnsid
          Sites,     \* what SGU may serve: functions from Urls to pages
          Limits,    \* the values of effective_max
          Calls,     \* slots for concurrent calls
          None

Page == [features : Seq(Ids \cup {NoId}), next : Urls \cup {None}]

ASSUME SitesAssumption == Sites \subseteq [Urls -> Page]
ASSUME LimitsAssumption == Limits \subseteq Nat \ {0}

VARIABLES site,      \* the pages SGU serves
          cache,     \* cache[u]: None, or whether the cached page is flagged _truncated
          call       \* the local variables of each call

vars == <<site, cache, call>>

\* at: where the call is; url, max, records, followed: url, effective_max,
\* all_features, seen_next_links; truncated: "_truncated" in the metadata it
\* returned; start and cut are history: its first URL, and whether it stopped
\* itself before the end.
Call == [at : {"idle", "lookup", "fetch", "done", "failed"},
         url : Urls \cup {None}, max : Limits \cup {0},
         records : Seq(Ids \cup {NoId}), followed : SUBSET Urls,
         truncated : BOOLEAN, start : Urls \cup {None}, cut : BOOLEAN]

TypeOK == /\ site \in Sites
          /\ cache \in [Urls -> BOOLEAN \cup {None}]
          /\ call \in [Calls -> Call]
          /\ \A c \in Calls : call[c].url \in call[c].followed \cup {call[c].start}

Init == /\ site \in Sites
        /\ cache = [u \in Urls |-> None]
        /\ call = [c \in Calls |->
              [at |-> "idle", url |-> None, max |-> 0, records |-> <<>>, followed |-> {},
               truncated |-> FALSE, start |-> None, cut |-> FALSE]]
-----------------------------------------------------------------------------
Start(c, u, m) ==
    /\ call[c].at \in {"idle", "done", "failed"}
    /\ call' = [call EXCEPT ![c] =
          [at |-> "lookup", url |-> u, max |-> m, records |-> <<>>, followed |-> {},
           truncated |-> FALSE, start |-> u, cut |-> FALSE]]
    /\ UNCHANGED <<site, cache>>

\* A feature is appended unless its id has been seen; one without an id always is.
Added(got, f) == IF f # NoId /\ Contains(got, f) THEN got ELSE Append(got, f)

DedupedInPage(records, features) ==     \* altered: forgets the ids of earlier pages
    records \o FoldLeft(Added, <<>>, features)

\* The features of a page added in turn: taken[n] is what there is after n of them.
Deduped(records, features) ==
    LET taken[n \in 0..Len(features)] ==
            IF n = 0 THEN records ELSE Added(taken[n - 1], features[n])
    IN taken[Len(features)]

StopFullUnflagged(c, got, flagged) ==   \* altered: cuts the list, sets no flag
    /\ Len(got) >= call[c].max
    /\ call' = [call EXCEPT ![c].at = "done", ![c].cut = TRUE, ![c].truncated = flagged,
                            ![c].records = SubSeq(got, 1, call[c].max)]
    /\ cache' = [cache EXCEPT ![call[c].url] = flagged]

\* The limit is reached: cut the list and flag the page object.
StopFull(c, got, flagged) ==
    /\ Len(got) >= call[c].max
    /\ call' = [call EXCEPT ![c].at = "done", ![c].cut = TRUE, ![c].truncated = TRUE,
                            ![c].records = SubSeq(got, 1, call[c].max)]
    /\ cache' = [cache EXCEPT ![call[c].url] = TRUE]

StopAtFlag(c, got, flagged) ==          \* altered: a cached flag ends the walk
    /\ Len(got) < call[c].max
    /\ site[call[c].url].next = None \/ flagged
    /\ call' = [call EXCEPT ![c].at = "done", ![c].truncated = flagged, ![c].records = got]
    /\ cache' = [cache EXCEPT ![call[c].url] = flagged]

\* No next link: the metadata is the page object with whatever flag it carries.
StopAtEnd(c, got, flagged) ==
    /\ Len(got) < call[c].max
    /\ site[call[c].url].next = None
    /\ call' = [call EXCEPT ![c].at = "done", ![c].truncated = flagged, ![c].records = got]
    /\ cache' = [cache EXCEPT ![call[c].url] = flagged]

\* A next link this call has already followed.
StopAtRepeat(c, got, flagged) ==
    /\ Len(got) < call[c].max
    /\ site[call[c].url].next \in call[c].followed
    /\ call' = [call EXCEPT ![c].at = "done", ![c].cut = TRUE, ![c].truncated = TRUE,
                            ![c].records = got]
    /\ cache' = [cache EXCEPT ![call[c].url] = TRUE]

FollowAny(c, got, flagged) ==           \* altered: no check for a repeated link
    LET next == site[call[c].url].next
    IN /\ Len(got) < call[c].max
       /\ next # None
       /\ call' = [call EXCEPT ![c].at = "lookup", ![c].url = next, ![c].records = got,
                               ![c].followed = @ \cup {next}]
       /\ cache' = [cache EXCEPT ![call[c].url] = flagged]

FollowUnrecorded(c, got, flagged) ==    \* altered: seen_next_links is not extended
    LET next == site[call[c].url].next
    IN /\ Len(got) < call[c].max
       /\ next \notin call[c].followed \cup {None}
       /\ call' = [call EXCEPT ![c].at = "lookup", ![c].url = next, ![c].records = got]
       /\ cache' = [cache EXCEPT ![call[c].url] = flagged]

Follow(c, got, flagged) ==
    LET next == site[call[c].url].next
    IN /\ Len(got) < call[c].max
       /\ next \notin call[c].followed \cup {None}
       /\ call' = [call EXCEPT ![c].at = "lookup", ![c].url = next, ![c].records = got,
                               ![c].followed = @ \cup {next}]
       /\ cache' = [cache EXCEPT ![call[c].url] = flagged]

\* The body of the loop once the page object is there, flagged or not.
TakePage(c, flagged) ==
    LET got == Deduped(call[c].records, site[call[c].url].features)
    IN /\ \/ StopFull(c, got, flagged) \/ StopAtEnd(c, got, flagged)
          \/ StopAtRepeat(c, got, flagged) \/ Follow(c, got, flagged)
       /\ UNCHANGED site

Hit(c) ==
    /\ call[c].at = "lookup"
    /\ cache[call[c].url] # None
    /\ TakePage(c, cache[call[c].url])

\* Not cached: the call waits in _get.
Miss(c) ==
    /\ call[c].at = "lookup"
    /\ cache[call[c].url] = None
    /\ call' = [call EXCEPT ![c].at = "fetch"]
    /\ UNCHANGED <<site, cache>>

\* _get returns a new object; it is cached before it is worked on.
Receive(c) ==
    /\ call[c].at = "fetch"
    /\ TakePage(c, FALSE)

\* _get raises, or the call is cancelled: what was gathered is dropped.
Fail(c) ==
    /\ call[c].at = "fetch"
    /\ call' = [call EXCEPT ![c].at = "failed", ![c].records = <<>>]
    /\ UNCHANGED <<site, cache>>

\* The entry is over its 60 seconds, or evicted (TTLCache).
Expire(u) ==
    /\ cache[u] # None
    /\ cache' = [cache EXCEPT ![u] = None]
    /\ UNCHANGED <<site, call>>

UnderWay == {c \in Calls : call[c].at \in {"lookup", "fetch"}}

\* The process restarts: its cache is lost, and with it the calls under way and those
\* whose result nobody has used.
Restart(lost) ==
    /\ UnderWay \subseteq lost
    /\ cache' = [u \in Urls |-> None]
    /\ call' = [c \in Calls |-> IF c \in lost
                                THEN [call[c] EXCEPT !.at = "failed", !.records = <<>>]
                                ELSE call[c]]
    /\ UNCHANGED site

Work(c) == Hit(c) \/ Miss(c) \/ Receive(c)

Next == \/ \E c \in Calls : Work(c) \/ Fail(c) \/ \E u \in Urls, m \in Limits : Start(c, u, m)
        \/ \E u \in Urls : Expire(u)
        \/ \E lost \in SUBSET Calls : Restart(lost)

\* The event loop runs ready tasks and every _get ends (EveryCallEnds of UpstreamGet).
Fairness == \A c \in Calls : WF_vars(Work(c))

Spec == Init /\ [][Next]_vars
FairSpec == Spec /\ Fairness
-----------------------------------------------------------------------------
Done == {c \in Calls : call[c].at = "done"}

\* A call returns at most effective_max features and no id twice, across pages
\* that overlap, cycles of next links and limits that fall inside a page.
ResultsDistinctAndBounded ==
    \A c \in Done :
        LET got == call[c].records
        IN /\ Len(got) <= call[c].max
           /\ \A i, j \in 1..Len(got) : got[i] = got[j] /\ got[i] # NoId => i = j

\* Where the next links lead from u.
Reachable(u) ==
    {v \in Urls : \A S \in SUBSET Urls :
        (u \in S /\ \A w \in S : site[w].next \in S \cup {None}) => v \in S}

\* A result that is not flagged is the whole answer: every feature with an id on
\* every page the links lead to is in it, whatever other calls did to the cache.
NoSilentLoss ==
    \A c \in Done : ~call[c].truncated =>
        \A v \in Reachable(call[c].start) :
            ToSet(site[v].features) \ {NoId} \subseteq ToSet(call[c].records)

\* Calls that start at one URL agree: what the one with the lower limit returns is the
\* beginning of what the other returns, through whatever overlaps, hits and misses each
\* of them came by.
ResultsAgree ==
    \A c, d \in Done : call[c].start = call[d].start /\ call[c].max <= call[d].max =>
        IsPrefix(call[c].records, call[d].records)

\* Every call ends, on any graph of next links.
EveryCallEnds ==
    \A c \in Calls : call[c].at \in {"lookup", "fetch"} ~> call[c].at \in {"done", "failed"}

\* README "Partial-result warnings are included when a limit is reached": the
\* flag behind the warning is up only for a call that itself stopped early.
FlagMeansOwnCut == \A c \in Done : call[c].truncated => call[c].cut
=============================================================================
