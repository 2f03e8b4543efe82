------------------------- MODULE ContinuationTokens -------------------------
(***************************************************************************)
(* mcp_sgu.pagination: a continuation token names state that the process   *)
(* which issued it keeps in memory, may be redeemed once, and is refused   *)
(* when older than MaxAge.  The service runs as several processes with one *)
(* signing secret; a client's next request may reach any of them, they     *)
(* restart, and the wall clock may be set forward or back.                 *)
(***************************************************************************)
EXTENDS Integers, FiniteSets

CONSTANTS Instances,  \* processes of the service
          TokenIds,   \* random token ids, never drawn twice
          States,     \* what a token may continue
          None,
          MaxAge,     \* _TOKEN_MAX_AGE
          MaxTime     \* bound: the clock shows 0 to MaxTime

ASSUME AgesAssumption == MaxAge \in Nat /\ MaxTime \in Nat
ASSUME NoneAssumption == None \notin Instances \cup TokenIds \cup (Instances \X TokenIds)
                                     \cup States \cup [value : States, expires : Int]

VARIABLES clock,      \* int(time.time())
          states,     \* states[i]: _states of instance i
          minted,     \* history: for each token ever issued, by whom, when, for what
          redeemed,   \* history: how often each token was honoured
          reply       \* the latest decode: who was asked, the token, the state or None

vars == <<clock, states, minted, redeemed, reply>>

Stored == [issued : 0..MaxTime, state : States]
NoReply == [at |-> None, id |-> None, state |-> None]
MintedBy(i) == {id \in DOMAIN minted : minted[id].by = i}

TypeOK ==
    /\ clock \in 0..MaxTime
    /\ DOMAIN minted \subseteq TokenIds
    /\ minted \in [DOMAIN minted -> [by : Instances, issued : 0..MaxTime, state : States]]
    /\ DOMAIN states = Instances
    /\ \A i \in Instances :
          /\ DOMAIN states[i] \subseteq MintedBy(i)
          /\ \A id \in DOMAIN states[i] :
                states[i][id] = [issued |-> minted[id].issued, state |-> minted[id].state]
    /\ redeemed \in [TokenIds -> Nat]
    /\ reply \in [at : Instances, id : TokenIds, state : States \cup {None}] \cup {NoReply}

Init == /\ clock \in 0..MaxTime
        /\ states = [i \in Instances |-> [id \in {} |-> None]]
        /\ minted = [id \in {} |-> None]
        /\ redeemed = [id \in TokenIds |-> 0]
        /\ reply = NoReply
-----------------------------------------------------------------------------
\* f without the keys outside K, and f with one key set.
Keep(f, K) == [k \in DOMAIN f \cap K |-> f[k]]
With(f, key, v) == [k \in DOMAIN f \cup {key} |-> IF k = key THEN v ELSE f[k]]

TooOld(issued) == clock - issued > MaxAge

PurgedEarly(store) ==             \* altered: drops a token in its last second
    Keep(store, {id \in DOMAIN store : clock - store[id].issued < MaxAge})

\* _purge
Purged(store) == Keep(store, {id \in DOMAIN store : ~TooOld(store[id].issued)})

EncodeUndated(i, id, s) ==        \* altered: the state is stored without its date
    /\ id \in TokenIds \ DOMAIN minted
    /\ states' = [states EXCEPT ![i] = With(Purged(@), id, [issued |-> 0, state |-> s])]
    /\ minted' = With(minted, id, [by |-> i, issued |-> clock, state |-> s])
    /\ reply' = NoReply
    /\ UNCHANGED <<clock, redeemed>>

EncodeUnswept(i, id, s) ==        \* altered: purges nothing
    /\ id \in TokenIds \ DOMAIN minted
    /\ states' = [states EXCEPT ![i] = With(@, id, [issued |-> clock, state |-> s])]
    /\ minted' = With(minted, id, [by |-> i, issued |-> clock, state |-> s])
    /\ reply' = NoReply
    /\ UNCHANGED <<clock, redeemed>>

Encode(i, id, s) ==
    /\ id \in TokenIds \ DOMAIN minted
    /\ states' = [states EXCEPT ![i] = With(Purged(@), id, [issued |-> clock, state |-> s])]
    /\ minted' = With(minted, id, [by |-> i, issued |-> clock, state |-> s])
    /\ reply' = NoReply
    /\ UNCHANGED <<clock, redeemed>>

Refuse(i, id) ==
    /\ reply' = [at |-> i, id |-> id, state |-> None]
    /\ UNCHANGED <<clock, minted, redeemed>>

\* A token whose date is not the one signed: refused before anything is read.
DecodeUnsigned(i, id, date) ==
    /\ date # minted[id].issued
    /\ Refuse(i, id)
    /\ UNCHANGED states

DecodeExpired(i, id, date) ==
    /\ date = minted[id].issued
    /\ date > clock \/ TooOld(date)
    /\ Refuse(i, id)
    /\ UNCHANGED states

Valid(id, date) == date = minted[id].issued /\ date <= clock /\ ~TooOld(date)

\* Signed and in time, but this process has no such state, or another's.
DecodeUnavailable(i, id, date) ==
    /\ Valid(id, date)
    /\ id \in DOMAIN states[i] => states[i][id].issued # date
    /\ states' = [states EXCEPT ![i] = Keep(@, TokenIds \ {id})]
    /\ Refuse(i, id)

DecodeAnyAge(i, id, date) ==      \* altered: the age is not checked
    /\ date = minted[id].issued
    /\ id \in DOMAIN states[i] /\ states[i][id].issued = date
    /\ states' = [states EXCEPT ![i] = Keep(@, TokenIds \ {id})]
    /\ redeemed' = [redeemed EXCEPT ![id] = @ + 1]
    /\ reply' = [at |-> i, id |-> id, state |-> states[i][id].state]
    /\ UNCHANGED <<clock, minted>>

DecodeKeeping(i, id, date) ==     \* altered: the state is read, not popped
    /\ Valid(id, date)
    /\ id \in DOMAIN states[i] /\ states[i][id].issued = date
    /\ redeemed' = [redeemed EXCEPT ![id] = @ + 1]
    /\ reply' = [at |-> i, id |-> id, state |-> states[i][id].state]
    /\ UNCHANGED <<clock, minted, states>>

DecodeHonoured(i, id, date) ==
    /\ Valid(id, date)
    /\ id \in DOMAIN states[i] /\ states[i][id].issued = date
    /\ states' = [states EXCEPT ![i] = Keep(@, TokenIds \ {id})]
    /\ redeemed' = [redeemed EXCEPT ![id] = @ + 1]
    /\ reply' = [at |-> i, id |-> id, state |-> states[i][id].state]
    /\ UNCHANGED <<clock, minted>>

\* A client presents a token it was given, perhaps with another date, to any
\* process, as often as it likes.
Decode(i, id, date) ==
    \/ DecodeUnsigned(i, id, date) \/ DecodeExpired(i, id, date)
    \/ DecodeUnavailable(i, id, date) \/ DecodeHonoured(i, id, date)

Restart(i) ==
    /\ states' = [states EXCEPT ![i] = [id \in {} |-> None]]
    /\ reply' = NoReply
    /\ UNCHANGED <<clock, minted, redeemed>>

SetClock ==
    /\ clock' \in 0..MaxTime
    /\ UNCHANGED <<states, minted, redeemed, reply>>

Next == \/ \E i \in Instances, id \in TokenIds, s \in States : Encode(i, id, s)
        \/ \E i \in Instances, id \in DOMAIN minted, date \in 0..MaxTime : Decode(i, id, date)
        \/ \E i \in Instances : Restart(i)
        \/ SetClock

Spec == Init /\ [][Next]_vars
-----------------------------------------------------------------------------
\* A token is honoured at most once, whichever processes it is presented to, in
\* whatever order, and however often they restart.
SingleUse == \A id \in TokenIds : redeemed[id] <= 1

\* A process forgets a token's state only when it honours the token, restarts,
\* or purges it at a time at which the token was too old: a fresh token that was
\* never used is good at the process that issued it.
ForgottenFor(i, id) ==
    \/ redeemed'[id] = redeemed[id] + 1
    \/ DOMAIN states'[i] = {} /\ reply' = NoReply
    \/ TooOld(states[i][id].issued)
NoFreshTokenLost ==
    [][\A i \in Instances : \A id \in DOMAIN states[i] \ DOMAIN states'[i] :
          ForgottenFor(i, id)]_vars

\* _states has no limit and its states no timer: what bounds it is that a process which
\* issues a token is left with tokens of the latest MaxAge seconds only, whatever the
\* clock did since it issued them.
SweptByEncode ==
    [][\A id \in DOMAIN minted' \ DOMAIN minted :
          LET kept == states'[minted'[id].by]
          IN \A x \in DOMAIN kept : clock - minted'[x].issued <= MaxAge]_vars

\* The tokens of all processes keep the promise of a store whose entries expire:
\* what a token yields is the state it was issued for, at most MaxAge later.
Abstract == INSTANCE ExpiringStore WITH
    Keys <- Instances \X TokenIds, Values <- States,
    held <- [k \in Instances \X TokenIds |->
                IF k[2] \in DOMAIN states[k[1]]
                THEN [value |-> states[k[1]][k[2]].state,
                      expires |-> states[k[1]][k[2]].issued + MaxAge + 1]
                ELSE None],
    answer <- IF reply = NoReply THEN [key |-> None, value |-> None]
              ELSE [key |-> <<reply.at, reply.id>>, value |-> reply.state]
IsExpiringStore == Abstract!Spec
=============================================================================
