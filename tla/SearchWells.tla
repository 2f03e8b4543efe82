----------------------------- MODULE SearchWells -----------------------------
(***************************************************************************)
(* The search_wells tool in one process of the server: clients search, get *)
(* the records of one get_items walk (GetItems) and, when the last page of *)
(* the walk has a next link, a token (ContinuationTokens) to go on from    *)
(* there.  A client that goes on, call by call, is a chain of searches.    *)
(* The handler awaits only in get_items, so decoding a token and starting  *)
(* the walk are one step, and so are ending it and issuing the next token. *)
(***************************************************************************)
EXTENDS Integers, Sequences, SequencesExt

CONSTANTS Urls, Ids, NoId, Sites, None,
          First,     \* the URL of the first request for each kind of area
          Wells,     \* where each well lies: inside the radius, outside, or unknown
          Limit,     \* settings.max_inline_results
          Requests,  \* what clients ask without a token
          Clients,
          TokenIds, MaxAge, MaxTime,
          Server     \* the process

Areas == {"near", "box", "all"}
ASSUME FirstAssumption == First \in [Areas -> Urls]
ASSUME WellsAssumption == Wells \in [Ids \cup {NoId} -> {"inside", "outside", "unknown"}]

VARIABLES site, cache, call,                        \* of GetItems
          clock, states, minted, redeemed, reply,   \* of ContinuationTokens
          session                                   \* what each client knows

\* The arguments, as far as the tool tells them apart; a bad radius is out of range.
Request == [address : BOOLEAN, point : {"none", "half", "both"},
            radius : {"none", "bad", "good"}, box : {"none", "bad", "good"},
            sort : {"valid", "bad field", "bad direction"}, filter : {"valid", "invalid"}]
Errors == {"conflicting_inputs", "invalid_coordinates", "missing_radius", "invalid_radius",
           "invalid_bbox", "invalid_sort_field", "invalid_sort_direction", "invalid_filter"}
\* How the tool ends when its walk fails: it answers, or the exception leaves it.
Failures == {"sgu_unavailable", "raised"}

Rest == [url : Urls, near : BOOLEAN]

Pages == INSTANCE GetItems WITH Calls <- Clients, Limits <- {Limit}
Tokens == INSTANCE ContinuationTokens
              WITH Instances <- {Server}, States <- Rest

ASSUME SitesAssumption == Sites \subseteq [Urls -> Pages!Page]
ASSUME LimitsAssumption == Limit \in Nat \ {0} /\ MaxAge \in Nat /\ MaxTime \in Nat
ASSUME NoneAssumption == None \notin {Server} \cup TokenIds \cup ({Server} \X TokenIds)
                                     \cup Rest \cup [value : Rest, expires : Int]

pageVars == <<site, cache, call>>
tokenVars == <<clock, states, minted, redeemed, reply>>
vars == <<site, cache, call, clock, states, minted, redeemed, reply, session>>

\* radius: whether the call under way has one; token, complete: those of the latest
\* answer; error: of the latest request, if it was refused or its walk failed; refused:
\* that request, if it was refused.  The rest is history of the chain: whether a radius
\* was asked for, its first URL, whether it had an answer with records, the features
\* delivered, the URL the token continues at, and whether the latest, or an earlier,
\* call left out features of a page it took.
Session == [at : {"idle", "searching", "answered", "refused"}, radius : BOOLEAN,
            token : TokenIds \cup {None}, complete : BOOLEAN,
            error : Errors \cup Failures \cup {None}, refused : Requests \cup {None},
            near : BOOLEAN, start : Urls \cup {None}, served : BOOLEAN, got : SUBSET Ids,
            offer : Urls \cup {None}, cutNow : BOOLEAN, cutBefore : BOOLEAN]
Blank == [at |-> "idle", radius |-> FALSE, token |-> None, complete |-> FALSE,
          error |-> None, refused |-> None, near |-> FALSE, start |-> None, served |-> FALSE,
          got |-> {}, offer |-> None, cutNow |-> FALSE, cutBefore |-> FALSE]

TypeOK == /\ Pages!TypeOK
          /\ Tokens!TypeOK
          /\ session \in [Clients -> Session]
          /\ \A c \in Clients : session[c].token # None =>
                /\ session[c].token \in DOMAIN minted
                /\ minted[session[c].token].state =
                      [url |-> session[c].offer, near |-> session[c].near]

Init == /\ Pages!Init
        /\ Tokens!Init
        /\ session = [c \in Clients |-> Blank]
-----------------------------------------------------------------------------
\* _validate, in order, and the filter after it.  An address excludes coordinates and
\* calls for a radius, which calls for coordinates: the address lookup behind these
\* checks is never reached.
SearchChecks(r) ==
    << <<r.address /\ r.point # "none", "conflicting_inputs">>,
       <<r.point = "half", "invalid_coordinates">>,
       <<r.address /\ r.radius = "none", "missing_radius">>,
       <<r.radius = "bad" \/ (r.radius = "good" /\ r.point = "none"), "invalid_radius">>,
       <<r.box = "bad", "invalid_bbox">>,
       <<r.sort = "bad field", "invalid_sort_field">>,
       <<r.sort = "bad direction", "invalid_sort_direction">>,
       <<r.filter = "invalid", "invalid_filter">> >>
Sound(r) == \A i \in DOMAIN SearchChecks(r) : ~SearchChecks(r)[i][1]

Area(r) == CASE r.radius # "none" -> "near"
             [] r.radius = "none" /\ r.box # "none" -> "box"
             [] OTHER -> "all"

\* The first check that fails decides.
Refuse(c, r) ==
    /\ session[c].at # "searching"
    /\ \E i \in DOMAIN SearchChecks(r) :
          /\ SearchChecks(r)[i][1]
          /\ \A j \in 1..i - 1 : ~SearchChecks(r)[j][1]
          /\ session' = [session EXCEPT ![c] = [Blank EXCEPT
                !.at = "refused", !.error = SearchChecks(r)[i][2], !.refused = r]]
    /\ UNCHANGED <<pageVars, tokenVars>>

\* A valid request without a token.
Search(c, r) ==
    /\ session[c].at # "searching"
    /\ Sound(r)
    /\ Pages!Start(c, First[Area(r)], Limit)
    /\ session' = [session EXCEPT ![c] = [Blank EXCEPT
          !.at = "searching", !.radius = (Area(r) = "near"), !.near = (Area(r) = "near"),
          !.start = First[Area(r)]]]
    /\ UNCHANGED tokenVars

\* A request with the token of the latest answer.  It is spent here, before SGU
\* is asked; one that is refused is answered with an error, and the client keeps it.
ContinueHonoured(c, id) ==
    /\ Tokens!DecodeHonoured(Server, id, minted[id].issued)
    /\ LET rest == states[Server][id].state
       IN /\ Pages!Start(c, rest.url, Limit)
          /\ session' = [session EXCEPT ![c] =
                [@ EXCEPT !.at = "searching", !.radius = rest.near, !.error = None]]

ContinueRefused(c, id) ==
    /\ \/ Tokens!DecodeExpired(Server, id, minted[id].issued)
       \/ Tokens!DecodeUnavailable(Server, id, minted[id].issued)
    /\ UNCHANGED <<pageVars, session>>

Continue(c) ==
    /\ session[c].at = "answered"
    /\ session[c].token # None
    /\ \/ ContinueHonoured(c, session[c].token)
       \/ ContinueRefused(c, session[c].token)

\* get_items at work for client c.
Walk(c) ==
    /\ Pages!Work(c) \/ Pages!Fail(c)
    /\ UNCHANGED <<tokenVars, session>>

SelectedUnlessOutside(records, near) ==   \* altered: keeps what it cannot place
    {f \in ToSet(records) : near => Wells[f] # "outside"} \ {NoId}

\* The records within the radius, when there is one; a well whose coordinates are
\* unknown is within none.
Selected(records, near) ==
    {f \in ToSet(records) : near => Wells[f] = "inside"} \ {NoId}

CompleteAtEnd(next, truncated) == next = None      \* altered: ignores the flag

Complete(next, truncated) == next = None /\ ~truncated

TokenUnlessTruncated(next, near, truncated, id) == \* altered: a truncated answer gets no token
    IF next = None \/ truncated
    THEN id = None /\ UNCHANGED tokenVars
    ELSE id \in TokenIds /\ Tokens!Encode(Server, id, [url |-> next, near |-> near])

TokenWithoutRadius(next, near, truncated, id) ==   \* altered: the state lacks the radius
    IF next = None
    THEN id = None /\ UNCHANGED tokenVars
    ELSE id \in TokenIds /\ Tokens!Encode(Server, id, [url |-> next, near |-> FALSE])

\* A next link on the last page gets a token, whether the walk was cut or not.
Token(next, near, truncated, id) ==
    IF next = None
    THEN id = None /\ UNCHANGED tokenVars
    ELSE id \in TokenIds /\ Tokens!Encode(Server, id, [url |-> next, near |-> near])

OnwardAtPage(c) ==         \* altered: goes on at the page the walk ended with
    IF site[call[c].url].next = None THEN None ELSE call[c].url

\* The next link of the last page of the walk.
Onward(c) == site[call[c].url].next

\* Features of the last page of the walk that the answer leaves out.
CutInside(c) == ~(ToSet(site[call[c].url].features) \ {NoId} \subseteq ToSet(call[c].records))

\* The chain of a client with the answer to its walk, whose token, if any, is id.
Extended(c, id) ==
    LET chain == session[c]
    IN [chain EXCEPT
           !.at = "answered", !.token = id,
           !.complete = Complete(Onward(c), call[c].truncated),
           !.offer = IF id = None THEN None ELSE Onward(c), !.served = TRUE,
           !.got = chain.got \cup Selected(call[c].records, chain.radius),
           !.cutBefore = chain.cutBefore \/ chain.cutNow, !.cutNow = CutInside(c)]

Answer(c) ==
    /\ session[c].at = "searching"
    /\ call[c].at = "done"
    /\ \E id \in TokenIds \cup {None} :
          /\ Token(Onward(c), session[c].radius, call[c].truncated, id)
          /\ session' = [session EXCEPT ![c] = Extended(c, id)]
    /\ UNCHANGED pageVars

\* The walk failed: an SGUError is answered, any other exception, as for a body that is
\* not JSON, leaves the tool.  The client is left with the token it had.
AnswerError(c) ==
    /\ session[c].at = "searching"
    /\ call[c].at = "failed"
    /\ \E error \in Failures :
          session' = [session EXCEPT ![c] =
             [@ EXCEPT !.at = "answered", !.complete = FALSE, !.error = error]]
    /\ UNCHANGED <<pageVars, tokenVars>>

Expire == /\ \E u \in Urls : Pages!Expire(u)
          /\ UNCHANGED <<tokenVars, session>>

SetClock == Tokens!SetClock /\ UNCHANGED <<pageVars, session>>

\* The process restarts: cache and tokens are gone, requests under way fail.
Restart ==
    /\ Tokens!Restart(Server)
    /\ Pages!Restart({c \in Clients : session[c].at = "searching"})
    /\ UNCHANGED session

Next == \/ \E c \in Clients :
              \/ \E r \in Requests : Search(c, r) \/ Refuse(c, r)
              \/ Continue(c) \/ Walk(c) \/ Answer(c) \/ AnswerError(c)
        \/ Expire \/ SetClock \/ Restart

Spec == Init /\ [][Next]_vars
-----------------------------------------------------------------------------
Answered == {c \in Clients : session[c].at = "answered"}

\* What the client is after from url u on.
Wanted(c, u) ==
    UNION {Selected(site[v].features, session[c].near) : v \in Pages!Reachable(u)}
Offered(c) == IF session[c].offer = None THEN {} ELSE Wanted(c, session[c].offer)
Asked(c) == Wanted(c, session[c].start)

\* Along a chain of searches nothing goes missing between the calls: a record not
\* yet delivered lies where the token goes on, unless a limit cut a page in two.
NothingLostBetweenCalls ==
    \A c \in Answered : session[c].served /\ ~session[c].cutNow /\ ~session[c].cutBefore =>
        Asked(c) \subseteq session[c].got \cup Offered(c)

\* "complete" is true: the chain has delivered every record asked for, whatever
\* other clients left in the cache, unless an earlier answer cut a page in two.
CompleteMeansAll ==
    \A c \in Answered : session[c].complete /\ ~session[c].cutBefore =>
        Asked(c) \subseteq session[c].got

\* A search within a radius delivers no well outside it or without coordinates,
\* however often it is continued.
RadiusKept ==
    \A c \in Clients : session[c].near => \A f \in session[c].got : Wells[f] = "inside"

\* A chain comes to an end: unless SGU's links run in a loop, the token of an answer
\* continues strictly nearer to the last page than the call it answers began, whatever
\* the limit cut and the cache holds.
Loops(u) == \E v \in Pages!Reachable(u) :
               site[v].next # None /\ v \in Pages!Reachable(site[v].next)
ChainsShorten ==
    [][\A c \in Clients :
          LET from == call[c].start
              to == session'[c].offer
          IN session[c].at = "searching" /\ call[c].at = "done" /\ session'[c].at = "answered"
             /\ to # None /\ ~Loops(from) =>
                /\ Pages!Reachable(to) \subseteq Pages!Reachable(from)
                /\ from \notin Pages!Reachable(to)]_vars

\* README "If more records exist, a continuation_token is returned" and "Pass the
\* continuation_token in the next call to get the next page": what an answer does
\* not deliver lies where its token goes on.
MoreRecordsHaveToken ==
    \A c \in Answered : session[c].served =>
        Asked(c) \subseteq session[c].got \cup Offered(c)

\* README "Search wells near an address", and "address-based `search_wells` searches
\* require this key": an address with a radius, and nothing wrong beside, is searched.
AddressIsSearched ==
    \A c \in Clients : session[c].at = "refused" =>
        LET r == session[c].refused
        IN ~(/\ r.address /\ r.point = "none" /\ r.radius = "good" /\ r.box # "bad"
             /\ r.sort = "valid" /\ r.filter = "valid")
=============================================================================
