------------------------- MODULE SearchWellsProofs -------------------------
(***************************************************************************)
(* TLAPS proofs about SearchWells, for any pages linked in any way, any    *)
(* limit, any age of tokens and any number of clients: along a chain of    *)
(* searches nothing is lost, "complete" is true, the radius is kept, and   *)
(* the chain gets shorter.  The invariants of the walk (GetItemsProofs) and*)
(* of the tokens (ContinuationTokensProofs) are taken over, and so are     *)
(* their theorems: every step of the tool is one of theirs, or leaves them *)
(* alone.                                                                  *)
(***************************************************************************)
EXTENDS SearchWells, TLAPS

Walks == INSTANCE GetItemsProofs WITH Calls <- Clients, Limits <- {Limit}
Tickets == INSTANCE ContinuationTokensProofs WITH Instances <- {Server}, States <- Rest

\* What a session is after from url u on, and where its chain goes on.
Want(s, u) == UNION {Selected(site[v].features, s.near) : v \in Pages!Reachable(u)}
Beyond(s) == IF s.offer = None THEN {} ELSE Want(s, s.offer)

\* A chain that has not had an answer with records has nothing.
FreshChain(s) == /\ s.token = None /\ s.offer = None /\ s.got = {}
                 /\ ~s.cutNow /\ ~s.cutBefore

SessionInv(s, k) ==
    /\ s \in Session
    /\ s.at = "searching" => /\ k.at \in {"lookup", "fetch", "done", "failed"}
                             /\ k.start = IF s.served THEN s.offer ELSE s.start
                             /\ s.served => s.offer # None
                             /\ s.radius = s.near
    /\ ~s.served => FreshChain(s)
    /\ s.token # None => s.offer # None
    /\ s.served /\ ~s.cutNow /\ ~s.cutBefore => Want(s, s.start) \subseteq s.got \cup Beyond(s)
    /\ s.at = "answered" /\ s.complete /\ ~s.cutBefore => Want(s, s.start) \subseteq s.got
    /\ s.near => \A f \in s.got : Wells[f] = "inside"

\* The token a client holds goes on where its chain does.
TokenInv(s, issued) ==
    s.token # None => /\ s.token \in DOMAIN issued
                      /\ issued[s.token].state = [url |-> s.offer, near |-> s.near]

IInv == /\ Walks!IInv
        /\ Tickets!IInv
        /\ session = [c \in Clients |-> session[c]]
        /\ \A c \in Clients : SessionInv(session[c], call[c]) /\ TokenInv(session[c], minted)
-----------------------------------------------------------------------------
\* The theorems on walks and tokens apply.
LEMMA WalksAssumptions == Walks!SitesAssumption /\ Walks!LimitsAssumption
BY SitesAssumption, LimitsAssumption
   DEF Pages!Page, Walks!Page, Walks!SitesAssumption, Walks!LimitsAssumption

LEMMA TicketsAssumptions == Tickets!AgesAssumption /\ Tickets!NoneAssumption
<1>1. Tickets!AgesAssumption
  BY LimitsAssumption DEF Tickets!AgesAssumption
<1>2. Tickets!NoneAssumption
  BY NoneAssumption DEF Tickets!NoneAssumption
<1>3. QED BY <1>1, <1>2

\* The walks of SearchWells are those of GetItemsProofs.
LEMMA SameWork == ASSUME NEW c, Pages!Work(c) PROVE Walks!Work(c)
<1>1. \A got, f : Pages!Added(got, f) = Walks!Added(got, f)
  BY DEF Pages!Added, Walks!Added, Pages!Contains, Walks!Contains
<1>2. \A got, f : Pages!Deduped(got, f) = Walks!Deduped(got, f)
  BY <1>1 DEF Pages!Deduped, Walks!Deduped
<1>3. \A got, flagged : Pages!StopFull(c, got, flagged) => Walks!StopFull(c, got, flagged)
  BY DEF Pages!StopFull, Walks!StopFull
<1>4. \A got, flagged : Pages!StopAtEnd(c, got, flagged) => Walks!StopAtEnd(c, got, flagged)
  BY DEF Pages!StopAtEnd, Walks!StopAtEnd
<1>5. \A got, flagged : Pages!StopAtRepeat(c, got, flagged) => Walks!StopAtRepeat(c, got, flagged)
  BY DEF Pages!StopAtRepeat, Walks!StopAtRepeat
<1>6. \A got, flagged : Pages!Follow(c, got, flagged) => Walks!Follow(c, got, flagged)
  BY DEF Pages!Follow, Walks!Follow
<1>7. \A flagged : Pages!TakePage(c, flagged) => Walks!TakePage(c, flagged)
  BY <1>2, <1>3, <1>4, <1>5, <1>6 DEF Pages!TakePage, Walks!TakePage
<1>8. QED
  BY <1>7 DEF Pages!Work, Pages!Hit, Pages!Miss, Pages!Receive,
              Walks!Work, Walks!Hit, Walks!Miss, Walks!Receive

LEMMA WalkStep ==
    ASSUME Walks!IInv, NEW c \in Clients, Pages!Work(c) \/ Pages!Fail(c)
    PROVE  Walks!Next /\ Walks!IInv'
<1>1. Walks!Next
  BY SameWork DEF Walks!Next, Walks!Fail, Pages!Fail
<1>2. QED BY <1>1, WalksAssumptions, Walks!Inductive

LEMMA WalkStart ==
    ASSUME Walks!IInv, NEW c \in Clients, NEW u \in Urls, Pages!Start(c, u, Limit)
    PROVE  /\ Walks!Next /\ Walks!IInv'
           /\ call'[c].at = "lookup" /\ call'[c].start = u
           /\ \A d \in Clients \ {c} : call'[d] = call[d]
           /\ UNCHANGED site
<1>1. Walks!Next
  BY DEF Walks!Next, Walks!Start, Pages!Start
<1>2. call \in [Clients -> Walks!Call]
  BY DEF Walks!IInv, Walks!TypeOK
<1>3. QED BY <1>1, <1>2, WalksAssumptions, Walks!Inductive DEF Pages!Start

LEMMA WalkStays == ASSUME Walks!IInv, UNCHANGED pageVars PROVE Walks!IInv'
<1>1. UNCHANGED Walks!vars
  BY DEF Walks!vars, pageVars
<1>2. QED BY <1>1, WalksAssumptions, Walks!Inductive

\* What a walk does not touch of its own call, and of the others.
LEMMA WalkKeeps ==
    ASSUME Walks!IInv, NEW c \in Clients, Pages!Work(c) \/ Pages!Fail(c)
    PROVE  /\ \A d \in Clients \ {c} : call'[d] = call[d]
           /\ call'[c].start = call[c].start
           /\ call'[c].at \in {"lookup", "fetch", "done", "failed"}
           /\ UNCHANGED site
<1>1. call \in [Clients -> Walks!Call]
  BY DEF Walks!IInv, Walks!TypeOK
<1>2. QED
  BY <1>1 DEF Walks!Call, Pages!Work, Pages!Hit, Pages!Miss, Pages!Receive, Pages!Fail,
              Pages!TakePage, Pages!StopFull, Pages!StopAtEnd, Pages!StopAtRepeat, Pages!Follow

\* The tokens of SearchWells are those of ContinuationTokensProofs.
LEMMA SameTokens ==
    /\ \A f, K : Tokens!Keep(f, K) = Tickets!Keep(f, K)
    /\ \A f, key, v : Tokens!With(f, key, v) = Tickets!With(f, key, v)
    /\ \A t : Tokens!TooOld(t) = Tickets!TooOld(t)
    /\ \A f : Tokens!Purged(f) = Tickets!Purged(f)
    /\ \A id, date : Tokens!Valid(id, date) = Tickets!Valid(id, date)
<1>1. \A f, K : Tokens!Keep(f, K) = Tickets!Keep(f, K)
  BY DEF Tokens!Keep, Tickets!Keep
<1>2. \A t : Tokens!TooOld(t) = Tickets!TooOld(t)
  BY DEF Tokens!TooOld, Tickets!TooOld
<1>3. \A f : Tokens!Purged(f) = Tickets!Purged(f)
  BY <1>1, <1>2 DEF Tokens!Purged, Tickets!Purged
<1>4. \A id, date : Tokens!Valid(id, date) = Tickets!Valid(id, date)
  BY <1>2 DEF Tokens!Valid, Tickets!Valid
<1>5. QED BY <1>1, <1>2, <1>3, <1>4 DEF Tokens!With, Tickets!With

LEMMA TokensStay == ASSUME Tickets!IInv, UNCHANGED tokenVars PROVE Tickets!IInv'
<1>1. UNCHANGED Tickets!vars
  BY DEF Tickets!vars, tokenVars
<1>2. QED BY <1>1, TicketsAssumptions, Tickets!Inductive

LEMMA TokenIssued ==
    ASSUME Tickets!IInv, NEW id \in TokenIds, NEW rest \in Rest, Tokens!Encode(Server, id, rest)
    PROVE  /\ Tickets!Next /\ Tickets!IInv'
           /\ id \in DOMAIN minted' /\ minted'[id].state = rest
           /\ \A x \in DOMAIN minted : x \in DOMAIN minted' /\ minted'[x] = minted[x]
<1>1. Tickets!Encode(Server, id, rest)
  BY SameTokens DEF Tokens!Encode, Tickets!Encode, Tokens!NoReply, Tickets!NoReply
<1>2. Tickets!Next
  BY <1>1 DEF Tickets!Next
<1>3. Tickets!IInv'
  BY <1>2, TicketsAssumptions, Tickets!Inductive
<1>4. QED BY <1>2, <1>3 DEF Tokens!Encode, Tokens!With

\* A token that is presented to the server, with the date it was issued.
LEMMA TokenPresented ==
    ASSUME Tickets!IInv, NEW id \in DOMAIN minted,
           \/ Tokens!DecodeExpired(Server, id, minted[id].issued)
           \/ Tokens!DecodeUnavailable(Server, id, minted[id].issued)
           \/ Tokens!DecodeHonoured(Server, id, minted[id].issued)
    PROVE  Tickets!Next /\ Tickets!IInv' /\ UNCHANGED minted
<1>1. minted[id].issued \in 0..MaxTime
  BY DEF Tickets!IInv, Tickets!TypeOK
<1>2. Tickets!Decode(Server, id, minted[id].issued)
  BY SameTokens
     DEF Tickets!Decode, Tokens!DecodeExpired, Tickets!DecodeExpired, Tokens!DecodeUnavailable,
         Tickets!DecodeUnavailable, Tokens!DecodeHonoured, Tickets!DecodeHonoured,
         Tokens!Refuse, Tickets!Refuse
<1>3. Tickets!Next
  BY <1>1, <1>2 DEF Tickets!Next
<1>4. UNCHANGED minted
  BY DEF Tokens!DecodeExpired, Tokens!DecodeUnavailable, Tokens!DecodeHonoured, Tokens!Refuse
<1>5. QED BY <1>3, <1>4, TicketsAssumptions, Tickets!Inductive
-----------------------------------------------------------------------------
\* What lies beyond a URL does not change, since SGU's pages do not.
LEMMA PagesStay == ASSUME UNCHANGED site PROVE \A s, u : Want(s, u)' = Want(s, u)
BY DEF Want, Pages!Reachable, Selected

LEMMA SessionsKept ==
    ASSUME UNCHANGED site, \A c \in Clients : SessionInv(session'[c], call'[c])
    PROVE  \A c \in Clients : SessionInv(session[c], call[c])'
<1> TAKE c \in Clients
<1>1. SessionInv(session'[c], call'[c])
  OBVIOUS
<1>2. QED BY <1>1, PagesStay DEF SessionInv, Beyond, FreshChain

\* A step of one client keeps the sessions in order if it does so for this client.
LEMMA OneSession ==
    ASSUME IInv, UNCHANGED site, NEW c \in Clients, NEW s,
           session' = [session EXCEPT ![c] = s],
           SessionInv(s, call'[c]), TokenInv(s, minted'),
           \A d \in Clients \ {c} : call'[d] = call[d],
           \A x \in DOMAIN minted : x \in DOMAIN minted' /\ minted'[x] = minted[x]
    PROVE  /\ session' = [d \in Clients |-> session'[d]]
           /\ \A d \in Clients : SessionInv(session[d], call[d])' /\ TokenInv(session[d], minted)'
<1>1. session' = [d \in Clients |-> session'[d]] /\ session'[c] = s
      /\ \A d \in Clients \ {c} : session'[d] = session[d]
  BY DEF IInv
<1>2. \A d \in Clients : SessionInv(session'[d], call'[d])
  BY <1>1 DEF IInv
<1>3. \A d \in Clients : SessionInv(session[d], call[d])'
  BY <1>2, SessionsKept
<1>4. \A d \in Clients : TokenInv(session[d], minted)'
  <2> TAKE d \in Clients
  <2>1. CASE d = c
    BY <1>1, <2>1 DEF TokenInv
  <2>2. CASE d # c
    BY <1>1, <2>2 DEF IInv, TokenInv
  <2>3. QED BY <2>1, <2>2
<1>5. QED BY <1>1, <1>3, <1>4

LEMMA SessionsStay ==
    ASSUME IInv, UNCHANGED <<site, session, minted>>,
           \A c \in Clients : SessionInv(session[c], call'[c])
    PROVE  /\ session' = [d \in Clients |-> session'[d]]
           /\ \A d \in Clients : SessionInv(session[d], call[d])' /\ TokenInv(session[d], minted)'
<1>1. \A d \in Clients : SessionInv(session[d], call[d])'
  BY SessionsKept
<1>2. \A d \in Clients : TokenInv(session[d], minted)'
  BY DEF IInv, TokenInv
<1>3. QED BY <1>1, <1>2 DEF IInv

\* A client at the start, and one whose request was refused.
LEMMA BlankSession ==
    ASSUME NEW k
    PROVE  Blank \in Session /\ SessionInv(Blank, k) /\ TokenInv(Blank, minted)
<1>1. Blank \in Session
  BY DEF Blank, Session
<1>2. QED BY <1>1 DEF SessionInv, TokenInv, FreshChain, Blank

LEMMA RefuseInv == ASSUME IInv, NEW c \in Clients, NEW r \in Requests, Refuse(c, r) PROVE IInv'
<1>1. PICK i \in DOMAIN SearchChecks(r) :
         session' = [session EXCEPT ![c] = [Blank EXCEPT
            !.at = "refused", !.error = SearchChecks(r)[i][2], !.refused = r]]
  BY DEF Refuse
<1> DEFINE error == SearchChecks(r)[i][2]
           s == [Blank EXCEPT !.at = "refused", !.error = error, !.refused = r]
<1>2. error \in Errors
  <2>1. i \in 1..8
    BY <1>1 DEF SearchChecks
  <2>2. /\ SearchChecks(r)[1][2] \in Errors /\ SearchChecks(r)[2][2] \in Errors
        /\ SearchChecks(r)[3][2] \in Errors /\ SearchChecks(r)[4][2] \in Errors
        /\ SearchChecks(r)[5][2] \in Errors /\ SearchChecks(r)[6][2] \in Errors
        /\ SearchChecks(r)[7][2] \in Errors /\ SearchChecks(r)[8][2] \in Errors
    BY DEF SearchChecks, Errors
  <2>3. QED BY <2>1, <2>2
<1> HIDE DEF error
<1>3. s \in Session
  <2>1. Blank \in Session
    BY BlankSession
  <2>2. QED BY <1>2, <2>1 DEF Blank, Session
<1>4. /\ s.at = "refused" /\ ~s.served /\ FreshChain(s) /\ ~s.near
  BY DEF Blank, FreshChain
<1>5. session' = [session EXCEPT ![c] = s]
  BY <1>1 DEF error
<1> HIDE DEF s
<1>6. SessionInv(s, call'[c]) /\ TokenInv(s, minted')
  BY <1>3, <1>4 DEF SessionInv, TokenInv, FreshChain
<1>7. UNCHANGED <<site, call, minted>> /\ UNCHANGED pageVars /\ UNCHANGED tokenVars
  BY DEF Refuse, pageVars, tokenVars
<1>8. /\ session' = [d \in Clients |-> session'[d]]
      /\ \A d \in Clients : SessionInv(session[d], call[d])' /\ TokenInv(session[d], minted)'
  BY <1>5, <1>6, <1>7, OneSession
<1>9. QED BY <1>7, <1>8, WalkStays, TokensStay DEF IInv

LEMMA SearchInv == ASSUME IInv, NEW c \in Clients, NEW r, Search(c, r) PROVE IInv'
<1> DEFINE u == First[Area(r)]
           near == (Area(r) = "near")
           s == [Blank EXCEPT !.at = "searching", !.radius = near, !.near = near, !.start = u]
<1>1. u \in Urls /\ near \in BOOLEAN
  BY FirstAssumption DEF Area, Areas
<1>2. Pages!Start(c, u, Limit) /\ UNCHANGED tokenVars /\ UNCHANGED minted
      /\ session' = [session EXCEPT ![c] = s]
  BY DEF Search, tokenVars
<1> HIDE DEF u, near
<1>3. s \in Session
  <2>1. Blank \in Session
    BY BlankSession
  <2>2. QED BY <1>1, <2>1 DEF Blank, Session
<1>4. /\ s.at = "searching" /\ ~s.served /\ FreshChain(s) /\ s.radius = s.near /\ s.start = u
  BY DEF Blank, FreshChain
<1> HIDE DEF s
<1>5. /\ Walks!IInv' /\ call'[c].at = "lookup" /\ call'[c].start = u
      /\ \A d \in Clients \ {c} : call'[d] = call[d]
      /\ UNCHANGED site
  BY <1>1, <1>2, WalkStart DEF IInv
<1>6. SessionInv(s, call'[c]) /\ TokenInv(s, minted')
  BY <1>3, <1>4, <1>5 DEF SessionInv, TokenInv, FreshChain
<1>7. /\ session' = [d \in Clients |-> session'[d]]
      /\ \A d \in Clients : SessionInv(session[d], call[d])' /\ TokenInv(session[d], minted)'
  BY <1>2, <1>5, <1>6, OneSession
<1>8. QED BY <1>2, <1>5, <1>7, TokensStay DEF IInv

\* A client with a token has had an answer, and the token goes on where its chain does.
LEMMA TokenHeld ==
    ASSUME IInv, NEW c \in Clients, session[c].at = "answered", session[c].token # None
    PROVE  /\ session[c] \in Session
           /\ session[c].served /\ session[c].offer # None
           /\ session[c].token \in DOMAIN minted
           /\ minted[session[c].token].state = [url |-> session[c].offer, near |-> session[c].near]
BY DEF IInv, SessionInv, TokenInv, FreshChain

\* A token that is honoured starts a walk there, with the radius of the chain.
LEMMA TokenHonoured ==
    ASSUME IInv, NEW c \in Clients, session[c].at = "answered", session[c].token # None,
           ContinueHonoured(c, session[c].token)
    PROVE  /\ session[c].offer \in Urls
           /\ Pages!Start(c, session[c].offer, Limit)
           /\ session' = [session EXCEPT ![c] =
                             [session[c] EXCEPT !.at = "searching", !.radius = session[c].near,
                                                   !.error = None]]
<1> DEFINE id == session[c].token
<1>1. /\ id \in DOMAIN minted
      /\ minted[id].state = [url |-> session[c].offer, near |-> session[c].near]
  BY TokenHeld
<1>2. id \in DOMAIN states[Server]
  BY DEF ContinueHonoured, Tokens!DecodeHonoured
<1>3. states[Server][id].state = [url |-> session[c].offer, near |-> session[c].near]
  BY <1>1, <1>2 DEF IInv, Tickets!IInv, Tickets!TypeOK
<1>4. minted[id].state \in Rest
  BY <1>1 DEF IInv, Tickets!IInv, Tickets!TypeOK
<1>5. session[c].offer \in Urls
  BY <1>1, <1>4 DEF Rest
<1>6. QED BY <1>3, <1>5 DEF ContinueHonoured, IInv

\* A token that is honoured starts a walk where the chain goes on, with the radius of the
\* chain; one that is refused changes nothing the client knows.
LEMMA ContinueInv == ASSUME IInv, NEW c \in Clients, Continue(c) PROVE IInv'
<1> DEFINE id == session[c].token
<1>1. /\ session[c].at = "answered" /\ id # None /\ session[c] \in Session
      /\ SessionInv(session[c], call[c])
      /\ session[c].served /\ session[c].offer # None
  BY TokenHeld DEF Continue, IInv
<1>2. id \in DOMAIN minted
      /\ minted[id].state = [url |-> session[c].offer, near |-> session[c].near]
  BY <1>1, TokenHeld
<1>3. CASE ContinueRefused(c, id)
  <2>1. Tickets!IInv' /\ UNCHANGED minted
    BY <1>2, <1>3, TokenPresented DEF ContinueRefused, IInv
  <2>2. UNCHANGED <<site, call, session>> /\ UNCHANGED pageVars
    BY <1>3 DEF ContinueRefused, pageVars
  <2>3. QED BY <2>1, <2>2, SessionsStay, WalkStays DEF IInv
<1>4. CASE ContinueHonoured(c, id)
  <2> DEFINE u == session[c].offer
             s == [session[c] EXCEPT !.at = "searching", !.radius = session[c].near, !.error = None]
  <2>1. Tickets!IInv' /\ UNCHANGED minted
    BY <1>2, <1>4, TokenPresented DEF ContinueHonoured, IInv
  <2>7. u \in Urls /\ Pages!Start(c, u, Limit) /\ session' = [session EXCEPT ![c] = s]
    BY <1>1, <1>4, TokenHonoured
  <2>8. /\ Walks!IInv' /\ call'[c].at = "lookup" /\ call'[c].start = u
        /\ \A d \in Clients \ {c} : call'[d] = call[d]
        /\ UNCHANGED site
    BY <2>7, WalkStart DEF IInv
  <2>9. /\ s \in Session /\ s.at = "searching" /\ s.radius = s.near /\ s.served
        /\ s.near = session[c].near /\ s.offer = u /\ s.token = id
        /\ s.got = session[c].got /\ s.start = session[c].start
        /\ s.cutNow = session[c].cutNow /\ s.cutBefore = session[c].cutBefore
    BY <1>1 DEF Session
  <2> HIDE DEF s, u
  <2>10. SessionInv(s, call'[c])
    BY <1>1, <2>8, <2>9 DEF SessionInv, Want, Beyond, u
  <2>11. TokenInv(s, minted')
    BY <1>1, <1>2, <2>1, <2>9 DEF TokenInv, u
  <2>12. /\ session' = [d \in Clients |-> session'[d]]
         /\ \A d \in Clients : SessionInv(session[d], call[d])' /\ TokenInv(session[d], minted)'
    BY <2>1, <2>7, <2>8, <2>10, <2>11, OneSession
  <2>13. QED BY <2>1, <2>8, <2>12 DEF IInv
<1>5. QED BY <1>3, <1>4 DEF Continue

LEMMA WalkInv == ASSUME IInv, NEW c \in Clients, Walk(c) PROVE IInv'
<1>1. UNCHANGED <<site, session, minted>> /\ UNCHANGED tokenVars
  BY WalkKeeps DEF Walk, tokenVars, IInv
<1>2. Walks!IInv'
  BY WalkStep DEF Walk, IInv
<1>3. \A d \in Clients : SessionInv(session[d], call'[d])
  BY WalkKeeps DEF Walk, IInv, SessionInv
<1>4. QED BY <1>1, <1>2, <1>3, SessionsStay, TokensStay DEF IInv
-----------------------------------------------------------------------------
\* An answer delivers what its walk found, and what the walk leaves out lies beyond the
\* next link, unless the limit cut its last page in two.
LEMMA WalkDelivers ==
    ASSUME IInv, NEW c \in Clients, session[c].at = "searching", call[c].at = "done",
           NEW s \in Session, s.near = session[c].near
    PROVE  /\ Selected(call[c].records, s.near) \in SUBSET Ids
           /\ Onward(c) \in Urls \cup {None}
           /\ ~CutInside(c) =>
                 Want(s, call[c].start) \subseteq Selected(call[c].records, s.near)
                    \cup (IF Onward(c) = None THEN {} ELSE Want(s, Onward(c)))
           /\ ~call[c].truncated =>
                 Want(s, call[c].start) \subseteq Selected(call[c].records, s.near)
<1> DEFINE k == call[c]
<1>1. /\ k \in Walks!Call /\ Walks!WalkInv(k) /\ k.at = "done"
      /\ k.records \in Seq(Ids \cup {NoId}) /\ k.url \in Urls
  BY DEF IInv, Walks!IInv, Walks!TypeOK, Walks!Call, Walks!WalkInv
<1>2. c \in Walks!Done
  BY <1>1 DEF Walks!Done
<1>3. \A q : Walks!ToSet(q) = ToSet(q)
  BY DEF Walks!ToSet, ToSet
<1>4. \A u : Walks!Reachable(u) = Pages!Reachable(u)
  BY DEF Walks!Reachable, Pages!Reachable
<1>5. Selected(k.records, s.near) \in SUBSET Ids
  BY <1>1 DEF Selected, ToSet
<1>6. Onward(c) \in Urls \cup {None}
  <2>1. site \in [Urls -> Walks!Page]
    BY WalksAssumptions DEF IInv, Walks!IInv, Walks!TypeOK, Walks!SitesAssumption
  <2>2. QED BY <1>1, <2>1 DEF Walks!Page, Onward
<1>7. \A a, b : ToSet(a) \ {NoId} \subseteq ToSet(b) =>
         Selected(a, s.near) \subseteq Selected(b, s.near)
  BY DEF Selected
<1>8. ASSUME ~CutInside(c)
      PROVE  Want(s, k.start) \subseteq Selected(k.records, s.near)
                \cup (IF Onward(c) = None THEN {} ELSE Want(s, Onward(c)))
  <2> SUFFICES ASSUME NEW v \in Pages!Reachable(k.start), NEW f \in Selected(site[v].features, s.near)
               PROVE  \/ f \in Selected(k.records, s.near)
                      \/ Onward(c) # None /\ f \in Want(s, Onward(c))
    BY DEF Want
  <2>1. Walks!ToSet(site[k.url].features) \ {NoId} \subseteq Walks!ToSet(k.records)
    BY <1>3, <1>8 DEF CutInside
  <2>2. \/ Walks!ToSet(site[v].features) \ {NoId} \subseteq Walks!ToSet(k.records)
        \/ Onward(c) # None /\ v \in Walks!Reachable(Onward(c))
    BY <1>2, <1>4, <2>1, WalksAssumptions, Walks!InvGoesOn DEF Onward, IInv
  <2>3. QED BY <1>3, <1>4, <1>7, <2>2 DEF Want
<1>9. ASSUME ~k.truncated
      PROVE  Want(s, k.start) \subseteq Selected(k.records, s.near)
  <2>1. \A v \in Pages!Reachable(k.start) :
           ToSet(site[v].features) \ {NoId} \subseteq ToSet(k.records)
    BY <1>2, <1>3, <1>4, <1>9, WalksAssumptions, Walks!InvLosesNothing DEF Walks!NoSilentLoss, IInv
  <2>2. QED BY <1>7, <2>1 DEF Want
<1>10. QED BY <1>5, <1>6, <1>8, <1>9

\* The chain after an answer is in order.
LEMMA ExtendedInv ==
    ASSUME IInv, NEW c \in Clients, session[c].at = "searching", call[c].at = "done",
           NEW id \in TokenIds \cup {None}, (id = None) <=> (Onward(c) = None)
    PROVE  SessionInv(Extended(c, id), call[c])
<1> DEFINE s == Extended(c, id)
           k == call[c]
           chosen == Selected(k.records, session[c].near)
<1>1. /\ session[c] \in Session /\ SessionInv(session[c], k)
      /\ session[c].radius = session[c].near
      /\ k \in Walks!Call
  BY DEF IInv, SessionInv, Walks!IInv, Walks!TypeOK
<1>2. /\ chosen \in SUBSET Ids /\ Onward(c) \in Urls \cup {None}
      /\ ~CutInside(c) =>
            Want(session[c], k.start) \subseteq chosen
               \cup (IF Onward(c) = None THEN {} ELSE Want(session[c], Onward(c)))
      /\ ~k.truncated => Want(session[c], k.start) \subseteq chosen
  BY <1>1, WalkDelivers
<1>3. CutInside(c) \in BOOLEAN /\ Complete(Onward(c), k.truncated) \in BOOLEAN
  BY DEF CutInside, Complete
<1> HIDE DEF chosen
<1>4. /\ s.at = "answered" /\ s.served /\ s.token = id
      /\ s.offer = (IF id = None THEN None ELSE Onward(c))
      /\ s.complete = Complete(Onward(c), k.truncated)
      /\ s.got = session[c].got \cup chosen
      /\ s.cutBefore = (session[c].cutBefore \/ session[c].cutNow) /\ s.cutNow = CutInside(c)
      /\ s.near = session[c].near /\ s.start = session[c].start
  BY <1>1 DEF Session, Extended, chosen
<1>5. s \in Session
  <2> DEFINE complete == Complete(Onward(c), k.truncated)
             offer == IF id = None THEN None ELSE Onward(c)
             got == session[c].got \cup chosen
             before == session[c].cutBefore \/ session[c].cutNow
             now == CutInside(c)
  <2>1. /\ complete \in BOOLEAN /\ now \in BOOLEAN /\ before \in BOOLEAN
        /\ offer \in Urls \cup {None} /\ got \in SUBSET Ids
    BY <1>1, <1>2, <1>3 DEF Session
  <2> DEFINE t == [session[c] EXCEPT !.at = "answered", !.token = id, !.complete = complete]
             u == [t EXCEPT !.offer = offer, !.served = TRUE, !.got = got]
             v == [u EXCEPT !.cutBefore = before, !.cutNow = now]
  <2>2. v = s
    BY <1>1 DEF Extended, chosen
  <2> HIDE DEF s, complete, offer, got, before, now
  <2>3. t \in Session
    BY <1>1, <2>1 DEF Session
  <2> HIDE DEF t
  <2>4. u \in Session
    BY <2>1, <2>3 DEF Session
  <2> HIDE DEF u
  <2>5. v \in Session
    BY <2>1, <2>4 DEF Session
  <2>6. QED BY <2>2, <2>5
<1>6. \A u : Want(s, u) = Want(session[c], u)
  BY <1>4 DEF Want
<1> HIDE DEF s
<1>7. Beyond(s) = IF Onward(c) = None THEN {} ELSE Want(session[c], Onward(c))
  <2>1. s.offer = Onward(c)
    BY <1>4
  <2>2. QED BY <1>6, <2>1 DEF Beyond
\* Before the answer, what the chain lacked lay where its walk began.
<1>8. ASSUME ~s.cutBefore
      PROVE  Want(session[c], session[c].start) \subseteq session[c].got \cup Want(session[c], k.start)
  <2>1. CASE session[c].served
    BY <1>1, <1>4, <1>8, <2>1 DEF SessionInv, Beyond
  <2>2. CASE ~session[c].served
    BY <1>1, <2>2 DEF SessionInv
  <2>3. QED BY <2>1, <2>2
<1>9. ~s.cutNow /\ ~s.cutBefore => Want(s, s.start) \subseteq s.got \cup Beyond(s)
  BY <1>2, <1>4, <1>6, <1>7, <1>8
<1>10. s.complete /\ ~s.cutBefore => Want(s, s.start) \subseteq s.got
  BY <1>2, <1>4, <1>6, <1>8 DEF Complete
<1>11. s.near => \A f \in s.got : Wells[f] = "inside"
  BY <1>1, <1>4 DEF SessionInv, Selected, chosen
<1>12. s.token # None => s.offer # None
  BY <1>4
<1>13. QED BY <1>4, <1>5, <1>9, <1>10, <1>11, <1>12 DEF SessionInv, s

LEMMA AnswerInv == ASSUME IInv, NEW c \in Clients, Answer(c) PROVE IInv'
<1> DEFINE next == Onward(c)
           near == session[c].radius
<1>1. session[c].at = "searching" /\ call[c].at = "done" /\ UNCHANGED pageVars
      /\ UNCHANGED <<site, call>> /\ session[c] \in Session /\ near = session[c].near
  BY DEF Answer, pageVars, IInv, SessionInv
<1>2. PICK id \in TokenIds \cup {None} :
         Token(next, near, call[c].truncated, id) /\ session' = [session EXCEPT ![c] = Extended(c, id)]
  BY DEF Answer
<1>3. next \in Urls \cup {None} /\ near \in BOOLEAN
  BY <1>1, WalkDelivers DEF Session
<1>4. (id = None) <=> (next = None)
  BY <1>2, NoneAssumption DEF Token
<1>5. /\ Tickets!IInv'
      /\ \A x \in DOMAIN minted : x \in DOMAIN minted' /\ minted'[x] = minted[x]
      /\ id # None => id \in DOMAIN minted' /\ minted'[id].state = [url |-> next, near |-> near]
  <2>1. CASE next = None
    <3>1. UNCHANGED tokenVars /\ UNCHANGED minted
      BY <1>2, <2>1 DEF Token, tokenVars
    <3>2. QED BY <1>4, <2>1, <3>1, TokensStay DEF IInv
  <2>2. CASE next # None
    <3>1. id \in TokenIds /\ Tokens!Encode(Server, id, [url |-> next, near |-> near])
      BY <1>2, <2>2 DEF Token
    <3>2. [url |-> next, near |-> near] \in Rest
      BY <1>3, <2>2 DEF Rest
    <3>3. QED BY <3>1, <3>2, TokenIssued DEF IInv
  <2>3. QED BY <2>1, <2>2
<1>6. SessionInv(Extended(c, id), call'[c])
  BY <1>1, <1>4, ExtendedInv
<1>7. Extended(c, id).token = id /\ Extended(c, id).near = near
      /\ Extended(c, id).offer = IF id = None THEN None ELSE next
  BY <1>1 DEF Extended, Session
<1> DEFINE s == Extended(c, id)
<1> HIDE DEF s, next, near
<1>8. TokenInv(s, minted')
  BY <1>5, <1>7 DEF TokenInv, s
<1>9. /\ session' = [d \in Clients |-> session'[d]]
      /\ \A d \in Clients : SessionInv(session[d], call[d])' /\ TokenInv(session[d], minted)'
  BY <1>1, <1>2, <1>5, <1>6, <1>8, OneSession DEF s
<1>10. QED BY <1>1, <1>5, <1>9, WalkStays DEF IInv

LEMMA AnswerErrorInv == ASSUME IInv, NEW c \in Clients, AnswerError(c) PROVE IInv'
<1>0. PICK error \in Failures : session' = [session EXCEPT ![c] =
         [session[c] EXCEPT !.at = "answered", !.complete = FALSE, !.error = error]]
  BY DEF AnswerError
<1> DEFINE s == [session[c] EXCEPT !.at = "answered", !.complete = FALSE, !.error = error]
<1>1. /\ session[c].at = "searching" /\ session[c] \in Session
      /\ SessionInv(session[c], call[c]) /\ TokenInv(session[c], minted)
  BY DEF AnswerError, IInv, SessionInv
<1>2. session' = [session EXCEPT ![c] = s] /\ UNCHANGED <<site, call, minted>>
      /\ UNCHANGED pageVars /\ UNCHANGED tokenVars
  BY <1>0 DEF AnswerError, pageVars, tokenVars, IInv
<1>3. /\ s \in Session /\ s.at = "answered" /\ ~s.complete /\ s.served = session[c].served
      /\ s.near = session[c].near /\ s.offer = session[c].offer /\ s.token = session[c].token
      /\ s.got = session[c].got /\ s.start = session[c].start
      /\ s.cutNow = session[c].cutNow /\ s.cutBefore = session[c].cutBefore
  BY <1>1 DEF Session
<1> HIDE DEF s
<1>4. SessionInv(s, call'[c])
  BY <1>1, <1>3 DEF SessionInv, Want, Beyond, FreshChain
<1>5. TokenInv(s, minted')
  BY <1>1, <1>2, <1>3 DEF TokenInv
<1>6. /\ session' = [d \in Clients |-> session'[d]]
      /\ \A d \in Clients : SessionInv(session[d], call[d])' /\ TokenInv(session[d], minted)'
  BY <1>2, <1>4, <1>5, OneSession
<1>7. QED BY <1>2, <1>6, WalkStays, TokensStay DEF IInv

LEMMA ExpireInv == ASSUME IInv, Expire PROVE IInv'
<1>1. UNCHANGED <<site, call, session, minted>> /\ UNCHANGED tokenVars
  BY DEF Expire, Pages!Expire, tokenVars
<1>2. Walks!Next
  BY DEF Expire, Pages!Expire, Walks!Expire, Walks!Next
<1>3. Walks!IInv'
  BY <1>2, WalksAssumptions, Walks!Inductive DEF IInv
<1>4. QED BY <1>1, <1>3, SessionsStay, TokensStay DEF IInv

LEMMA SetClockInv == ASSUME IInv, SetClock PROVE IInv'
<1>1. UNCHANGED <<site, call, session, minted>> /\ UNCHANGED pageVars
  BY DEF SetClock, Tokens!SetClock, pageVars
<1>2. Tickets!Next
  BY DEF SetClock, Tokens!SetClock, Tickets!SetClock, Tickets!Next
<1>3. Tickets!IInv'
  BY <1>2, TicketsAssumptions, Tickets!Inductive DEF IInv
<1>4. QED BY <1>1, <1>3, SessionsStay, WalkStays DEF IInv

\* Searches under way fail, what is cached is lost, and no token is good any more.
LEMMA RestartInv == ASSUME IInv, Restart PROVE IInv'
<1> DEFINE S == {c \in Clients : session[c].at = "searching"}
<1>1. UNCHANGED <<site, session, minted>> /\ cache' \in [Urls -> BOOLEAN \cup {None}]
  BY DEF Restart, Tokens!Restart, Pages!Restart
<1>2. call' = [c \in Clients |-> IF c \in S THEN Walks!Failed(call[c]) ELSE call[c]]
  BY DEF Restart, Pages!Restart, Walks!Failed
<1>3. Walks!IInv'
  BY <1>1, <1>2, WalksAssumptions, Walks!FailedInv DEF IInv
<1>4. Tickets!IInv'
  <2>1. Tickets!Next
    BY DEF Restart, Tokens!Restart, Tokens!NoReply, Tickets!Restart, Tickets!NoReply, Tickets!Next
  <2>2. QED BY <2>1, TicketsAssumptions, Tickets!Inductive DEF IInv
<1>5. \A c \in Clients : SessionInv(session[c], call'[c])
  <2> TAKE c \in Clients
  <2>1. call[c] \in Walks!Call /\ SessionInv(session[c], call[c])
    BY DEF IInv, Walks!IInv, Walks!TypeOK
  <2>2. CASE c \in S
    <3>1. call'[c].at = "failed" /\ call'[c].start = call[c].start
      BY <1>2, <2>1, <2>2 DEF Walks!Failed, Walks!Call
    <3>2. QED BY <2>1, <3>1 DEF SessionInv
  <2>3. CASE c \notin S
    BY <1>2, <2>1, <2>3
  <2>4. QED BY <2>2, <2>3
<1>6. QED BY <1>1, <1>3, <1>4, <1>5, SessionsStay DEF IInv

LEMMA Initial == Init => IInv
<1> SUFFICES ASSUME Init PROVE IInv
  OBVIOUS
<1>1. Walks!Init
  BY DEF Init, Pages!Init, Walks!Init
<1>2. Walks!IInv
  BY <1>1, WalksAssumptions, Walks!Initial
<1>3. Tickets!Init
  BY DEF Init, Tokens!Init, Tickets!Init, Tokens!NoReply, Tickets!NoReply
<1>4. Tickets!IInv
  BY <1>3, TicketsAssumptions, Tickets!Initial
<1>5. \A c \in Clients : SessionInv(session[c], call[c]) /\ TokenInv(session[c], minted)
  BY BlankSession DEF Init
<1>6. QED BY <1>2, <1>4, <1>5 DEF Init, IInv

\* The inductive step: one case per action.
LEMMA Inductive == IInv /\ [Next]_vars => IInv'
<1> SUFFICES ASSUME IInv, [Next]_vars PROVE IInv'
  OBVIOUS
<1>1. CASE UNCHANGED vars
  <2>1. UNCHANGED <<site, call, session, minted>> /\ UNCHANGED pageVars /\ UNCHANGED tokenVars
    BY <1>1 DEF vars, pageVars, tokenVars
  <2>2. QED BY <2>1, SessionsStay, WalkStays, TokensStay DEF IInv
<1>2. QED BY <1>1, RefuseInv, SearchInv, ContinueInv, WalkInv, AnswerInv, AnswerErrorInv,
             ExpireInv, SetClockInv, RestartInv DEF Next

\* In every reachable state what a chain still lacks lies where it goes on.
THEOREM SearchInvariant == Spec => []IInv
BY Initial, Inductive, PTL DEF Spec

-----------------------------------------------------------------------------
\* Every step of the tool is a step of its walks, or leaves them alone: a token goes on
\* at a URL, with the one limit there is.
LEMMA StepsWalk == IInv /\ [Next]_vars => [Walks!Next]_Walks!vars
<1> SUFFICES ASSUME IInv, [Next]_vars PROVE Walks!Next \/ UNCHANGED pageVars
  BY DEF Walks!vars, pageVars
<1>1. CASE UNCHANGED vars
  BY <1>1 DEF vars, pageVars
<1>2. ASSUME NEW c \in Clients, NEW r \in Requests, Search(c, r) PROVE Walks!Next
  <2>1. First[Area(r)] \in Urls
    BY FirstAssumption DEF Area, Areas
  <2>2. QED BY <1>2, <2>1, WalkStart DEF Search, IInv
<1>3. ASSUME NEW c \in Clients, Continue(c) PROVE Walks!Next \/ UNCHANGED pageVars
  BY <1>3, TokenHonoured, WalkStart DEF Continue, ContinueRefused, IInv
<1>4. ASSUME NEW c \in Clients, Walk(c) PROVE Walks!Next
  BY <1>4, WalkStep DEF Walk, IInv
<1>5. CASE Expire
  BY <1>5 DEF Expire, Pages!Expire, Walks!Expire, Walks!Next
<1>6. CASE Restart
  <2>1. PICK lost \in SUBSET Clients : Pages!Restart(lost)
    BY <1>6 DEF Restart
  <2>2. Walks!Restart(lost)
    BY <2>1 DEF Pages!Restart, Walks!Restart, Pages!UnderWay, Walks!UnderWay
  <2>3. QED BY <2>2 DEF Walks!Next
<1>7. ASSUME NEW c \in Clients, (\E r \in Requests : Refuse(c, r)) \/ Answer(c) \/ AnswerError(c)
      PROVE  UNCHANGED pageVars
  BY <1>7 DEF Refuse, Answer, AnswerError
<1>8. CASE SetClock
  BY <1>8 DEF SetClock
<1>9. QED BY <1>1, <1>2, <1>3, <1>4, <1>5, <1>6, <1>7, <1>8 DEF Next

\* The same of its tokens: what is encoded is a place to go on at, and a client presents a
\* token with the date it was issued.
LEMMA StepsTicket == IInv /\ [Next]_vars => [Tickets!Next]_Tickets!vars
<1> SUFFICES ASSUME IInv, [Next]_vars PROVE Tickets!Next \/ UNCHANGED tokenVars
  BY DEF Tickets!vars, tokenVars
<1>1. CASE UNCHANGED vars
  BY <1>1 DEF vars, tokenVars
<1>2. ASSUME NEW c \in Clients, Continue(c) PROVE Tickets!Next
  BY <1>2, TokenHeld, TokenPresented DEF Continue, ContinueHonoured, ContinueRefused, IInv
<1>3. ASSUME NEW c \in Clients, Answer(c) PROVE Tickets!Next \/ UNCHANGED tokenVars
  <2> DEFINE rest == [url |-> Onward(c), near |-> session[c].radius]
  <2>1. PICK id \in TokenIds \cup {None} : Token(Onward(c), session[c].radius, call[c].truncated, id)
    BY <1>3 DEF Answer
  <2>2. Onward(c) \in Urls \cup {None} /\ session[c].radius \in BOOLEAN
    <3>1. session[c] \in Session
      BY DEF IInv, SessionInv
    <3>2. QED BY <1>3, <3>1, WalkDelivers DEF Answer, Session
  <2>3. CASE Onward(c) = None
    BY <2>1, <2>3 DEF Token
  <2>4. CASE Onward(c) # None
    <3>1. id \in TokenIds /\ Tokens!Encode(Server, id, rest)
      BY <2>1, <2>4 DEF Token
    <3>2. rest \in Rest
      BY <2>2, <2>4 DEF Rest
    <3>3. QED BY <3>1, <3>2, TokenIssued DEF IInv
  <2>5. QED BY <2>3, <2>4
<1>4. CASE SetClock
  BY <1>4 DEF SetClock, Tokens!SetClock, Tickets!SetClock, Tickets!Next
<1>5. CASE Restart
  BY <1>5 DEF Restart, Tokens!Restart, Tokens!NoReply, Tickets!Restart, Tickets!NoReply, Tickets!Next
<1>6. ASSUME NEW c \in Clients,
             \/ \E r \in Requests : Search(c, r) \/ Refuse(c, r)
             \/ Walk(c) \/ AnswerError(c)
      PROVE  UNCHANGED tokenVars
  BY <1>6 DEF Search, Refuse, Walk, AnswerError
<1>7. CASE Expire
  BY <1>7 DEF Expire
<1>8. QED BY <1>1, <1>2, <1>3, <1>4, <1>5, <1>6, <1>7 DEF Next

\* The tool drives its two parts as they are specified: what GetItemsProofs shows of
\* get_items, and ContinuationTokensProofs of the tokens, holds within search_wells.
THEOREM SearchRefinesParts == Spec => Walks!Spec /\ Tickets!Spec
<1>1. Init => Walks!Init /\ Tickets!Init
  BY DEF Init, Pages!Init, Walks!Init, Tokens!Init, Tickets!Init, Tokens!NoReply, Tickets!NoReply
<1>2. QED BY <1>1, StepsWalk, StepsTicket, SearchInvariant, PTL DEF Spec, Walks!Spec, Tickets!Spec

\* The searches of all clients, which share the cache, agree on what lies at a URL.
THEOREM SearchWalksAgree == Spec => []Walks!ResultsAgree
<1>1. Walks!Spec => []Walks!ResultsAgree
  BY WalksAssumptions, Walks!ItemsAgree
<1>2. QED BY <1>1, SearchRefinesParts, PTL

\* Within the tool a token is spent once, a fresh one is not forgotten, and what it yields
\* is what it was issued for, in time.
THEOREM SearchTokens == Spec => []Tickets!SingleUse /\ Tickets!NoFreshTokenLost /\ Tickets!IsExpiringStore
<1>1. Tickets!Spec => []Tickets!SingleUse
  BY TicketsAssumptions, Tickets!TokensSingleUse
<1>2. Tickets!Spec => Tickets!NoFreshTokenLost
  BY TicketsAssumptions, Tickets!TokensLoseNoFresh
<1>3. Tickets!Spec => Tickets!IsExpiringStore
  BY TicketsAssumptions, Tickets!TokensRefineStore
<1>4. QED BY <1>1, <1>2, <1>3, SearchRefinesParts, PTL

\* A walk is under way only for a session that searches.
Owned(s, k) == k.at \in {"lookup", "fetch"} => s.at = "searching"
WalksOwned == \A c \in Clients : Owned(session[c], call[c])

LEMMA StepsOwned == IInv /\ WalksOwned /\ [Next]_vars => WalksOwned'
<1> SUFFICES ASSUME IInv, WalksOwned, [Next]_vars, NEW c \in Clients
             PROVE  Owned(session'[c], call'[c])
  BY DEF WalksOwned, Owned
<1>1. call \in [Clients -> Walks!Call] /\ session = [d \in Clients |-> session[d]]
      /\ Owned(session[c], call[c])
  BY DEF IInv, Walks!IInv, Walks!TypeOK, WalksOwned
<1>2. CASE UNCHANGED <<call, session>>
  BY <1>1, <1>2
<1>3. ASSUME NEW d \in Clients, NEW r, Search(d, r) PROVE Owned(session'[c], call'[c])
  <2>1. CASE c = d
    BY <1>1, <1>3, <2>1 DEF Search, Blank, Owned
  <2>2. CASE c # d
    BY <1>1, <1>3, <2>2 DEF Search, Pages!Start
  <2>3. QED BY <2>1, <2>2
<1>4. ASSUME NEW d \in Clients, NEW r, Refuse(d, r) PROVE Owned(session'[c], call'[c])
  <2>1. call' = call /\ \A e \in Clients \ {d} : session'[e] = session[e]
    BY <1>1, <1>4 DEF Refuse, pageVars
  <2>2. session[d].at # "searching"
    BY <1>4 DEF Refuse
  <2>3. QED BY <1>1, <2>1, <2>2 DEF Owned
<1>5. ASSUME NEW d \in Clients, Continue(d), ~UNCHANGED <<call, session>>
      PROVE  Owned(session'[c], call'[c])
  <2>1. /\ Pages!Start(d, session[d].offer, Limit) /\ session[d] \in Session
        /\ session' = [session EXCEPT ![d] =
                          [session[d] EXCEPT !.at = "searching", !.radius = session[d].near, !.error = None]]
    BY <1>5, TokenHonoured, TokenHeld DEF Continue, ContinueRefused, pageVars
  <2>2. CASE c = d
    BY <1>1, <2>1, <2>2 DEF Session, Owned
  <2>3. CASE c # d
    BY <1>1, <2>1, <2>3 DEF Pages!Start
  <2>4. QED BY <2>2, <2>3
<1>6. ASSUME NEW d \in Clients, Walk(d) PROVE Owned(session'[c], call'[c])
  <2>1. /\ session' = session /\ call[d].at \in {"lookup", "fetch"}
        /\ \A e \in Clients \ {d} : call'[e] = call[e]
    BY <1>6, WalkKeeps DEF Walk, IInv, Pages!Work, Pages!Hit, Pages!Miss, Pages!Receive, Pages!Fail
  <2>2. QED BY <1>1, <2>1 DEF Owned, WalksOwned
<1>7. ASSUME NEW d \in Clients, Answer(d) \/ AnswerError(d) PROVE Owned(session'[c], call'[c])
  <2>1. /\ call' = call /\ call[d].at \in {"done", "failed"}
        /\ \A e \in Clients \ {d} : session'[e] = session[e]
    BY <1>1, <1>7 DEF Answer, AnswerError, pageVars
  <2>2. QED BY <1>1, <2>1 DEF Owned
<1>8. CASE Restart
  <2>1. session' = session /\ (session[c].at = "searching" \/ call'[c] = call[c])
    BY <1>8 DEF Restart, Pages!Restart
  <2>2. QED BY <1>1, <2>1 DEF Owned
<1>9. CASE Expire \/ SetClock
  BY <1>2, <1>9 DEF Expire, Pages!Expire, SetClock, pageVars
<1>10. QED
  BY <1>2, <1>3, <1>4, <1>5, <1>6, <1>7, <1>8, <1>9 DEF Next, vars

\* So a restart, which fails the searches, fails every call of get_items there is: its
\* guard in GetItems never keeps the process from restarting.
THEOREM SearchWalksOwned == Spec => []WalksOwned
<1>1. Init => WalksOwned
  BY DEF Init, Pages!Init, WalksOwned, Owned
<1>2. QED BY <1>1, StepsOwned, SearchInvariant, PTL DEF Spec
-----------------------------------------------------------------------------
\* Between the calls of a chain nothing is lost, unless the limit cut a page in two.
THEOREM SearchLosesNothing == Spec => []NothingLostBetweenCalls
<1>1. IInv => NothingLostBetweenCalls
  BY DEF IInv, SessionInv, NothingLostBetweenCalls, Answered, Asked, Offered, Wanted, Want, Beyond
<1>2. QED BY SearchInvariant, <1>1, PTL

\* "complete" is said only of a chain that has delivered all that was asked for.
THEOREM SearchComplete == Spec => []CompleteMeansAll
<1>1. IInv => CompleteMeansAll
  BY DEF IInv, SessionInv, CompleteMeansAll, Answered, Asked, Wanted, Want
<1>2. QED BY SearchInvariant, <1>1, PTL

\* The radius of the first search holds for every record of the chain.
THEOREM SearchKeepsRadius == Spec => []RadiusKept
<1>1. IInv => RadiusKept
  BY DEF IInv, SessionInv, RadiusKept
<1>2. QED BY SearchInvariant, <1>1, PTL

\* The walks, the tokens and the sessions keep their types, and a token its place.
THEOREM SearchTypes == Spec => []TypeOK
<1>1. IInv => TypeOK
  <2> SUFFICES ASSUME IInv PROVE TypeOK
    OBVIOUS
  <2>1. Pages!TypeOK
    BY DEF IInv, Walks!IInv, Walks!TypeOK, Pages!TypeOK, Walks!Call, Pages!Call
  <2>2. Tokens!TypeOK
    BY DEF IInv, Tickets!IInv, Tickets!TypeOK, Tokens!TypeOK, Tickets!MintedBy, Tokens!MintedBy,
           Tickets!NoReply, Tokens!NoReply
  <2>3. session \in [Clients -> Session]
    BY DEF IInv, SessionInv
  <2>4. QED BY <2>1, <2>2, <2>3 DEF IInv, TokenInv, TypeOK
<1>2. QED BY SearchInvariant, <1>1, PTL

\* The token of an answer goes on nearer to the last page than the call began: where its
\* link leads is reachable from there, and leads back only if SGU's links run in a loop.
LEMMA AnswerShortens ==
    ASSUME IInv, [Next]_vars, NEW c \in Clients, NEW from, NEW to,
           from = call[c].start, to = session'[c].offer,
           session[c].at = "searching", call[c].at = "done", session'[c].at = "answered",
           to # None, ~Loops(from)
    PROVE  /\ Pages!Reachable(to) \subseteq Pages!Reachable(from)
           /\ from \notin Pages!Reachable(to)
<1>1. /\ session[c] \in Session /\ call[c].url \in Urls /\ from \in Urls
      /\ call[c].url \in Walks!Reachable(from)
  <2>1. Walks!WalkInv(call[c]) /\ call[c].url \in Walks!Seen(call[c])
    BY DEF IInv, Walks!IInv, Walks!TypeOK, Walks!Seen
  <2>2. QED BY <2>1 DEF IInv, SessionInv, Walks!WalkInv
<1>2. Answer(c)
  <2>1. session'[c] # session[c]
    OBVIOUS
  <2>2. ~(Expire \/ SetClock \/ Restart \/ UNCHANGED vars)
    BY <2>1 DEF Expire, SetClock, Restart, vars
  <2>3. PICK d \in Clients : \/ \E r \in Requests : Search(d, r) \/ Refuse(d, r)
                             \/ Continue(d) \/ Walk(d) \/ Answer(d) \/ AnswerError(d)
    BY <2>2 DEF Next
  <2>4. d = c
    BY <2>1, <2>3 DEF Search, Refuse, Continue, ContinueHonoured, ContinueRefused, Walk, Answer,
                      AnswerError, IInv
  <2>5. QED BY <2>1, <2>3, <2>4 DEF Search, Refuse, Continue, Walk, AnswerError
<1>3. to = Onward(c)
  BY <1>1, <1>2 DEF Answer, IInv, Extended, Session
<1>4. to \in Urls
  BY <1>1, <1>3, WalkDelivers
<1>5. \A u : Walks!Reachable(u) = Pages!Reachable(u)
  BY DEF Walks!Reachable, Pages!Reachable
<1>6. \A u, v : v \in Pages!Reachable(u) => Pages!Reachable(v) \subseteq Pages!Reachable(u)
  BY DEF Pages!Reachable
<1>7. to \in Pages!Reachable(from)
  BY <1>1, <1>3, <1>4, <1>5, WalksAssumptions, Walks!ReachableSteps DEF Onward
<1>8. from \notin Pages!Reachable(to)
  BY <1>1, <1>3, <1>5, <1>6 DEF Loops, Onward
<1>9. QED BY <1>6, <1>7, <1>8

\* Unless SGU's links run in a loop, a chain of searches comes nearer to the last page
\* with every answer that has a token.
THEOREM SearchShortens == Spec => ChainsShorten
<1> DEFINE Shorter ==
       \A c \in Clients :
          LET from == call[c].start
              to == session'[c].offer
          IN session[c].at = "searching" /\ call[c].at = "done" /\ session'[c].at = "answered"
             /\ to # None /\ ~Loops(from) =>
                /\ Pages!Reachable(to) \subseteq Pages!Reachable(from)
                /\ from \notin Pages!Reachable(to)
<1>1. IInv /\ [Next]_vars => [Shorter]_vars
  BY AnswerShortens
<1>2. QED BY SearchInvariant, <1>1, PTL DEF Spec, ChainsShorten
=============================================================================
