# TLA+ model of mcp-sgu-open-data

The server answers questions about wells from SGU's open data. It is one asyncio
process (Cloud Run may start three of them) that keeps caches, tokens and exports in
memory. Its own logic is small, and most of what can go wrong in it is a matter of
order: calls that overlap, entries that expire under a reader, a page that is cut, a
token used twice, a clock that is set back. The modules here model that logic, TLC
checks it on small instances, and TLAPS proves every safety and action property of the
passing runs for every value of the constants.

Paths below are relative to `src/src/mcp_sgu/` unless they start with `src/`.

## The system

| component | state | operations | what makes it hard |
|---|---|---|---|
| TTL cache (`cache.py`) | entries in order of use, deadlines | get, set, delete, clear, purge | order of use and expiry together; eviction at `maxsize` |
| request path (`sgu_client.py` `_get`) | a semaphore, attempts of each call | request, retry, give up | cancellation at each `await`, permits, wake-ups, retries |
| paging (`get_items`) | the walk of each call, the shared cached pages | follow next links, drop duplicates, cut | loops of links; a flag written into cached pages |
| metadata getters, `get_dataset_metadata` | the metadata cache | look up, ask, set | requests that overlap; some of several fail |
| address lookup (`geocoding.py`, `resolve_address`) | the address cache | as above | as above |
| continuation tokens (`pagination.py`) | the states of tokens, per process | encode, decode, purge | use once, age, several processes, restarts, the wall clock |
| exports (`exports.py`) | records with deadlines | create, get, purge within create | serialising takes time, the wall clock, restarts |
| `search_wells` | what a client holds: a token | search, continue | a chain of calls must lose nothing |
| `create_export`, `summarize_well_area` | none of their own | check, look up, walk, store or count | limits, flags and radius together |
| `get_well`, `get_well_layers` | the wells cache | one identifier after the other, by fid past the cache, then the layers | failures in between; what "not found" means |
| filters, fields, coordinates | none | pure functions | |
| HTTP application, authentication | none to speak of | bearer check, download, routing, probes | the readiness probe asks SGU past the semaphore |

How they interact. A tool calls the client singleton; `get_items` looks a page up in the
results cache and otherwise awaits `_get`, which takes a permit for each attempt. The
dict that `_get` returns is put into the cache and then worked on, so calls share it.
`search_wells` turns the next link of a walk's last page into a token, whose state stays
in the process; `create_export` puts the wells of a walk into the export store, from
which an HTTP route serves them.

What makes each part correct:

- cache: bounded; an entry goes only for a cause; nothing stale is served;
- request path: permits are neither lost nor made; nobody waits for ever; the error
  raised is the right one; never more requests than permits; permits are handed over in
  the order of the queue;
- paging: no duplicates, no more than the limit, an unflagged result is whole, calls that
  walk the same pages agree, a walk ends;
- tokens: honoured at most once; a fresh unused one is kept; what it yields is what it
  was issued for, and in time; those over their age are swept by the next one issued;
- exports: a new one is there; none goes before its deadline; none is served after it;
  those over their time are swept by the next one created;
- search: a chain of calls delivers everything up to where the next token goes on, and
  each call brings it nearer to the end;
- area tools: an answer that does not warn is whole, also when downloaded later;
- getters: an answer is never older than its ttl and one request; "not found" is said of
  no failure; layers that cannot be had do not lose the well.

## Modules

| module | models | composed of |
|---|---|---|
| `ExpiringStore` | the promise common to all stores (abstract) | |
| `TTLCache` | `cache.py` | implements `ExpiringStore` |
| `UpstreamGet` | `SGUClient._get` and its semaphore | |
| `GetItems` | `SGUClient.get_items` | |
| `CachedFetch` | the five metadata getters, `get_dataset_metadata`, `geocode_address`, `resolve_address`, `get_well`, `get_well_layers` | |
| `ContinuationTokens` | `pagination.py`, several processes | implements `ExpiringStore` |
| `ExportStore` | `exports.py` | implements `ExpiringStore` |
| `SearchWells` | `tools/search_wells.py` | `GetItems`, `ContinuationTokens` |
| `AreaTools` | `tools/create_export.py`, `tools/summarize_well_area.py`, the bearer check (`auth.py`), the download of an export (`app.py`) | `GetItems`, `ExportStore` |
| `*Proofs` | the theorems of the module named | |
| `MC*` | the values of the constants for TLC | |

A definition with the comment "altered" is a version of the next one with a mistake in
it. No specification uses it: it shows which property would notice the mistake.

**TTLCache.** The `OrderedDict` is a function `store` and a relation `before` on its
keys; `move_to_end`, `del` and `popitem(last=False)` are operations on these sets. Each
method runs under a lock without awaiting inside it and is one step. `usedBefore` is
history: the order in which keys were really used, evicted or not. Expiry is `>=`.

**UpstreamGet.** A call of `_get` is at one of its awaits: waiting for a permit, granted
one but not yet run, sending, sleeping before a retry. `asyncio.Semaphore` is external and
modelled by its algorithm in CPython: a queue of waiters, `_wake_up_next`, `locked`, and
what a cancelled waiter does. A call's row of answers is history, from which
`VerdictFollowsAnswers` recomputes the result independently of the control flow. Events
within one event-loop tick are steps of their own, which allows every order the loop could
take and some it could not. Its properties say of each call that it only goes forward
(`GoesForward`) and that nobody gets in before it in the queue (`NoOvertaking`).

**GetItems.** A page is a sequence of feature ids and a next link; `site` is the graph of
pages and does not change. The cache entry of a URL is modelled by its `_truncated` flag
alone, because the rest of it is the page. A call takes one page per step. Entries go at any
time (expiry and eviction). `Restart(lost)` is a restart of the process: it loses the cache,
every call under way, and those of the finished ones whose caller was lost with them, which
only a module that has callers can tell. Dropping duplicates is a recursive function of the
number of features read (`Added`, `Deduped`), so that the prover can unfold it.

**CachedFetch.** A source has versions of what it says about a key, and `since` records
when each began. A call looks up, asks, is served (the version is fixed here), receives
and sets. Between these steps anything else may run. The time a request takes is bounded
by `Patience`. What a tool reads is a report of one of three rules: `all` of its keys, past
those that fail (`get_dataset_metadata`; with one key `resolve_address` and
`get_well_layers`); the `first` key that names a well, and then its layers (`get_well` by
brunnsid or obsplatsid); or one `fid`, asked for past the cache, and then the layers.
`Empty` names the answers without a well. `result` is what `get_well` is going to answer;
layers that fail do not change it.

**ContinuationTokens.** A token is an id with the date it was issued. The signature is
modelled by what it excludes: presenting another date is refused. Each process has its own
`states`; a token can be presented to any of them, any number of times.

**ExportStore.** Creating an export reads the clock, serialises, and stores; `later` is the
clock when it stores. That may be any time, also an earlier one, as the wall clock can be
set back meanwhile. Downloads delete what has expired. `drawn` is history: the ids used and
the deadlines their owners were told.

**SearchWells.** The handler awaits only within `get_items`, so decoding a token and
starting the walk are one step, and so are ending the walk and issuing the next token.
`SearchChecks` are the checks of `_validate` and of the filter in their order; the first
that fails decides. `session` is what the client knows and the history of its chain of
calls, which `Extended` brings up to date at each answer. When a walk fails, the tool
answers an `SGUError` and lets any other exception out (`Failures`); why it failed is not in
`GetItems`, so either may happen. A restart is one of `ContinuationTokens` and of `GetItems`
in one step; lost are the calls of the searches under way.

**AreaTools.** A request is described by what the two tools tell apart (is there an address,
none, one or both coordinates, a radius that is absent, zero or positive, a box, a filter
that is valid). Which area is searched, and whether the radius applies, follows as in the
code, also in the cases where a radius of zero or a place without coordinates counts as
none. A request and a download carry a bearer token; with no secret set, or with another
token, nothing happens behind the check. The tools answer a `GeocodingError` or an
`SGUError`; any other exception of an address lookup or a walk leaves them (`"raised"`).

## Runs

| run | instance | shows |
|---|---|---|
| `cache` | three keys, room for two, ttls 0 to 2 | bounded; losses have a cause; implements `ExpiringStore` |
| `upstream` | four calls, two permits, two attempts, every kind of answer but a broken connection | permits conserved, no lost wake-up, right verdict; the queue is served in order (`NoOvertaking`), no step puts a call back (`GoesForward`), every call ends |
| `get_items` | three pages, five graphs of links, two calls, limits 3 and 9, restarts | results distinct, bounded and whole unless flagged; the smaller begins the larger (`ResultsAgree`); every call ends |
| `get_items_flag` | the same | *violated*: a call that was not cut reports that it was |
| `cached` | two callers, two keys with two answers each, ttl 1, requests of up to 1 | answers are fresh enough (`FreshEnough`); "not found" is no failure (`NotFoundIsTrue`); a well found is answered (`WellKept`); every report ends |
| `tokens` | two processes, two tokens, a clock that is set at will | used once, never lost while fresh, swept by the next (`SweptByEncode`), implements `ExpiringStore` |
| `exports` | three exports, a clock that is set at will | the new one is kept, live ones are kept, dead ones are swept by the next (`SweptByCreate`), implements `ExpiringStore` |
| `search` | one client, eight sites, limit 3, tokens that expire, restarts | nothing lost between calls; "complete" is true; the radius is kept; chains shorten (`ChainsShorten`) |
| `search_rest` | the same | *violated*: the rest of a page that was cut is never delivered |
| `search_address` | the same | *violated*: a search near an address is refused for the radius it calls for |
| `area` | one client, nine sites, limits 3 and 2, all combinations of spatial arguments, right, wrong and missing bearer tokens | downloads and summaries are whole or say that they are not; no export is refused for its size |
| `area_silent` | the same | *violated*: "no wells found" after a walk that was cut |

### Why the bounds are enough

- **cache.** Three keys in room for two is the smallest cache that evicts one of two
  resident keys, so the choice of victim matters.
- **upstream.** Two permits and four calls give two that hold and two that queue: a permit
  freed while the head of the queue is granted, cancelled, or overtaken needs that
  many. Two attempts are one retry with one sleep, the only edge in the loop; the proofs
  cover any number. An attempt may end in data, a 4xx or a body that is not JSON, which are
  final, or in a timeout or a 5xx, which are not. A connection that fails is a third transient
  error with the verdict of a 5xx, and is left to the proofs.
- **get_items.** Three pages give a chain, loops of one, two and three pages, and two
  pages leading to one. They overlap in a feature and hold features without an id. The
  limit 3 falls inside the second page or at its end, depending on duplicates; 9 is never
  reached. Two calls with different limits are what the shared flag needs.
- **cached.** Two versions and two requests that overlap are what a stale overwrite needs.
  The clock runs for a request and a ttl, one moment each. The two keys are two documents,
  two identifiers of a well, or an identifier and its layers, so that each kind of report
  meets each other's entries; an identifier gains its well, the other loses it.
- **tokens, exports.** `MaxTime` lets the clock go past an age or a deadline and back.
  A token or export more adds nothing that two or three do not show, since they meet only
  in the purge.
- **search.** A limit of 3 over pages of 2 cuts the second page in two, or ends with it
  when it repeats a well. One client suffices for chains, as its own earlier calls leave
  entries and flags in the cache.
- **area.** Three wells on the first page and a limit of 3 cut a summary there; 2 cuts
  an export inside the page. Wells are inside, outside, or of unknown place.

Named bounds in the modules: `MaxTime` and `MaxVersions`. Ids of tokens and exports are
finite sets of ids never drawn twice; when they run out no further one is issued.

### Fairness

Liveness is claimed only where the code's scheduling gives it.

- `UpstreamGet!FairSpec`: the event loop runs a task that is ready, `asyncio.sleep` ends,
  and a request ends because httpx has a timeout for each phase of it. No fairness is
  assumed for cancellation or for the arrival of calls.
- `GetItems!FairSpec`: a call that is not waiting goes on, and `_get` ends, which is
  what `UpstreamGet` shows.
- `CachedFetch!FairSpec`: the same, for the getters.

The other modules have none, because no task of the program works there by itself: exports
and tokens go when a client asks for something, and no client is obliged to.

### What the violations show

1. `get_items_flag`. `get_items` writes `_truncated` into the dict it has put into, or
   taken from, the cache (`sgu_client.py:239`). For 60 seconds a call with a larger limit that
   ends on this page reports truncation although nothing is missing. Both area tools ask
   for an area under one cache key, so a summary may put the warning on an export.
2. `search_rest`. A walk that the limit cuts inside a page gets a token for the page
   behind it (`tools/search_wells.py:141`). The records in between are in no answer.
   `NothingLostBetweenCalls` shows that this is the only way a chain loses records.
3. `area_silent`. `summarize_well_area` returns at `total == 0` before it looks at the
   flag (`tools/summarize_well_area.py:112`).
4. `search_address`. `_validate` refuses every radius that comes without coordinates
   (`tools/search_wells.py:183`), but an address excludes coordinates and calls for a
   radius. `src/README.md:83` shows such a search, and line 259 says that searches by address
   need the geocoding key. The lookup behind the checks is never reached.

Noticed while modelling, and not the subject of a run: tokens live for the constant
`_TOKEN_MAX_AGE` (`pagination.py:54`) and not for `EXPORT_TTL_SECONDS`
(`src/README.md:390`); a token is refused by any process but the one that issued it and
after a restart, and it is spent before SGU is asked, so that a search that then fails
cannot be continued; a loop of links across calls is continued for ever, call by call, which
is the case `ChainsShorten` leaves out; `summarize_well_area` refuses an address with a
radius (lines 54-69), although its own message lists them; exports that have expired are
freed by later creates and downloads only, since `purge_all_exports` has no caller, where
`src/README.md:405` says they are deleted automatically; by fid every 4xx counts as "not
found" (`tools/get_well.py:57`); the readiness probe is not counted by the semaphore
(`app.py:35`, `src/README.md:209`), and `update_sgu_status` (`app.py:21`) has no caller;
`bbox` is passed untransformed by the area tools.

## Proofs

The eight `*Proofs` modules hold for every value of the constants that satisfies the named
assumptions of the modules: numbers are naturals of the obvious ranges, sets of keys are
finite where a cardinality is taken, the sites are graphs of pages, and `None` is none of
the things it stands in for. Nothing else is assumed, and TLC evaluates each assumption.

| theorem | property | argument |
|---|---|---|
| `CacheTypes`, `CacheBounded` | types; at most `maxsize` entries | cardinality of `resident` through `LastIn` and eviction |
| `LossesHaveACause` | entries go by delete, clear, expiry, or as least recently used | needs `OrderIsUse`: the order kept agrees, on resident keys, with the order of use |
| `CacheRefinesStore` | implements `ExpiringStore` | step by step from type correctness |
| `GetTypes` | types, and `QueueLists`: the queue lists exactly the waiting calls, each once | induction on steps |
| `GetConservesPermits` | free and held permits add up | from the above |
| `GetLosesNoWakeup` | no waiter is left with a permit free and nobody woken | from the two above |
| `GetBoundsRequests` | no more requests than `MAX_UPSTREAM_CONCURRENCY` | permits held bound those sending |
| `GetNoOvertaking` | a permit goes to no call behind one that waits, and none gets in before it | needs `InOrder`: a queue loses calls and gains one at its end, and what is left keeps its order |
| `GetGoesForward` | every step of a call leaves it fewer steps | from `Onward`: where each place leads, and that an attempt is added only on the way to a sleep |
| `GetVerdict` | the result follows from the answers | needs `RowOfFailures`: a call still trying has met transient failures only, as many as it has attempts behind it |
| `TokensTypes`, `TokensSingleUse` | types; a token is honoured once | needs: a state that is kept belongs to a token not yet used, and a token not issued is at no process |
| `TokensLoseNoFresh`, `TokensSwept` | a fresh unused token stays, an old one does not outlast an encode | step by step |
| `TokensRefineStore` | implements `ExpiringStore` | as for the cache |
| `ExportsTypes`, `ExportsKeepNew` | types; a new export is present | the purge exempts its own id |
| `ExportsLoseNoLive`, `ExportsSwept` | none goes before its deadline, none past it outlasts a create | needs: the record carries the deadline that was told |
| `ExportsRefineStore` | implements `ExpiringStore` | as for the cache |
| `ItemsTypes`, `ItemsDistinctAndBounded` | types; a result is distinct and within its limit | what one page adds, by `DedupedSteps` |
| `ItemsLoseNothingSilently` | an unflagged result is whole | needs `WalkInv`: a page the walk has come by, but for the one it is at, has all its ids among the records |
| `ItemsAgree` | what a call returns begins what one with a higher limit returns | needs `WayInv`: what a call has gathered is a function of where it began and how many pages it took, whatever cache entries it came by |
| `ItemsRunDown` | a call is over after two steps for each URL and two more | cardinality of the links not yet followed |
| `FetchTypes`, `FetchFreshEnough` | types; an answer is no older than its ttl and one request | needs `GivenSince`: an answer on its way was current at or after the moment it was asked for; `EntryInv`: a cached one, at most its ttl and `Patience` before it expires |
| `FetchNotFoundIsTrue` | "not found" is no failure | needs `EmptySoFar`: each identifier already passed was once without a well |
| `FetchKeepsWell` | a well found is answered | step by step |
| `FetchRunsDown` | a report is over after three steps for each key and layer and two more | what is to come is counted with the layers while the well is not found |
| `SearchTypes`, `SearchLosesNothing`, `SearchComplete` | types; a chain loses nothing but in a page cut in two; "complete" is true | needs: while a call is under way, what is wanted and not delivered lies from its first page on |
| `SearchKeepsRadius` | a chain with a radius keeps it | needs: the state of a token a client holds names its own radius |
| `SearchShortens` | without loops a token goes on nearer to the end | from where a walk may stop, `InvGoesOn` of `GetItemsProofs` |
| `SearchRefinesParts` | implements `GetItems` and `ContinuationTokens` | every step is a step of each part or leaves it alone; needs the invariant, for the URL in a token |
| `SearchWalksAgree`, `SearchTokens` | what holds of the parts holds within the tool | from the above and the theorems of the parts |
| `SearchWalksOwned`, `AreaWalksOwned` | a walk is under way only for a session that waits for it | step by step, from the invariant |
| `AreaTypes`, `AreaDownloads` | types; a download is the area, or was warned of | needs: an export holds what the walk of its area found |
| `AreaSummaries`, `AreaLimits` | a summary is whole or says that it is not; no export is too large | from the walk: within the limit, whole unless flagged |
| `AreaRefinesParts` | implements `GetItems` and `ExportStore` | as for `search_wells`; needs `WalkedWells`: what is stored is within `MAX_EXPORT_RECORDS` |
| `AreaWalksAgree`, `AreaExports` | what holds of the parts holds within the tools | from the above and the theorems of the parts |

None of the safety properties is inductive as it stands. That a token is honoured at most
once does not say that the state of a used token is gone from every process, which is what
the next use depends on; that permits add up does not say that the queue and the calls
agree on who waits; that a finished walk is whole says nothing of a walk under way. The
invariants named in the table are what was missing.

**Duplicates.** The induction theorems of the library take a predicate, which these provers
cannot be given. `SetInduction` gets the same for a set: `<` on `Nat` is well-founded, so
the naturals outside a set have a least member. `DedupedSteps` and `DedupedGets` apply it to
the set of positions up to which the claim holds.

**Agreement.** `ResultsAgree` compares two calls that may never have met. `Trail` is what a
walk from a URL has in hand, page by page, if nothing stops it: a function of the first URL
and the pages alone. `WayInv` says that a call stands on it at the number of pages it has taken,
and where each kind of end leaves it. Two calls that began at one URL are then on one trail; the
one with the lower limit stopped no later (`StoppedForLimit`), and a trail only ever appends
(`TrailGrows`).

**Compositions.** `SearchWells` and `AreaTools` instantiate `GetItems` with
`ContinuationTokens` and with `ExportStore`. Their proofs instantiate the proof modules the
same way: `Walks!IInv`, `Tickets!IInv` and `Stores!IInv` are conjuncts of the composed
invariant. `SearchRefinesParts` and `AreaRefinesParts` then say that every composed step is a
step of each part or leaves it alone, a restart among them, so that the tools implement
their parts and inherit every theorem about them. What a refinement could hide is a guard of the
part that keeps the tool from what the code does. The one that is not the tool's own is that of
`GetItems!Restart`, which must lose every call under way; `SearchWalksOwned` and
`AreaWalksOwned` show that the calls the tools lose are always all of them.

**What of liveness is proved.** `EveryCallEnds` of `UpstreamGet` and of `GetItems` and
`EveryReportEnds` need fairness and ENABLED, which the prover cannot handle, so TLC checks them.
The part of each that is about data is proved: `GetGoesForward`, `ItemsRunDown` and
`FetchRunsDown` give a number that every step of a call lowers and no other call raises, for any
number of retries, pages and keys, and `GetNoOvertaking` that a call in the queue has ever fewer
before it. What is left to TLC is that a step is taken at all.

Only model-checked: those three liveness properties. Every invariant and action property of a
passing run is proved. The violated properties are counterexamples found by TLC. That several
clients run at once is in the proofs of `SearchWells` and `AreaTools`, not in their runs, which
have one.

## Not modelled

- Coordinates: projection and distance are floating point. A well is inside, outside,
  or of unknown place.
- The text of filters and answers, field definitions, logging: stateless. Whether a filter
  is valid is part of a request; its text, the sort order and the page size only decide
  which pages SGU serves.
- Routing, the status and health pages, the readiness probe: they keep no state the server
  reads again.
- HMAC: a signature is taken to hold.
- `purge_all_exports`: has no caller. `TTLCache` is not repeated inside the modules that
  use a cache: they allow what it promises, that an entry may go at any time.
- Several processes behind `SearchWells` and `AreaTools`: `ContinuationTokens` has them. To
  a client another process is one that refuses its token, as after a restart, or that has
  no such export.

## Plan

Done: `ExpiringStore`, `TTLCache`, `UpstreamGet`, `ContinuationTokens` and `ExportStore` with
their proofs; `GetItems`, `CachedFetch`, `SearchWells`, `AreaTools`, and then the proofs of
these four; `get_well`, `get_well_layers`, the checks of `search_wells` in their order, the
bearer check and the download.

Then the second round of proofs: the order of the semaphore's queue, the agreement of walks, the
numbers that run down, and the refinements of the parts by the tools that use them.

Next:

1. The rules of `filters.py` on values and operators as pure operators, checked against the
   field definitions they read.
2. A second process in `SearchWells`, for chains that move between processes.
3. A refinement from `CachedFetch` to `ExpiringStore`, for the cache as its callers see it.
4. A second client in the runs of `SearchWells` and `AreaTools`, if their state spaces can be
   cut by symmetry.
