---------------------- MODULE ContinuationTokensProofs ----------------------
(***************************************************************************)
(* TLAPS proofs about ContinuationTokens, for any processes, tokens, ages  *)
(* and clocks: a token is honoured at most once, no fresh one is lost, and *)
(* the tokens implement ExpiringStore.                                     *)
(***************************************************************************)
EXTENDS ContinuationTokens, TLAPS

\* The inductive invariant.  A token whose state is still kept was never
\* honoured: with the fact that only the process that issued it keeps it
\* (TypeOK), no second process can honour it again.
KeptIsUnused == \A i \in Instances : \A id \in DOMAIN states[i] : redeemed[id] = 0
UnissuedIsUnused == \A id \in TokenIds \ DOMAIN minted : redeemed[id] = 0
IInv == TypeOK /\ KeptIsUnused /\ UnissuedIsUnused /\ SingleUse

\* Narrowing the states one process keeps, and changing nothing else but the
\* reply, keeps the invariant.
LEMMA NarrowingInv ==
    ASSUME IInv, NEW i \in Instances, NEW K,
           states' = [states EXCEPT ![i] = Keep(states[i], K)],
           UNCHANGED <<clock, minted, redeemed>>,
           reply' \in [at : Instances, id : TokenIds, state : States \cup {None}] \cup {NoReply}
    PROVE  IInv'
<1>1. /\ DOMAIN states' = Instances
      /\ \A j \in Instances : /\ DOMAIN states'[j] \subseteq DOMAIN states[j]
                              /\ \A id \in DOMAIN states'[j] : states'[j][id] = states[j][id]
  BY DEF Keep, IInv, TypeOK
<1>2. TypeOK'
  BY <1>1 DEF IInv, TypeOK, MintedBy
<1>3. KeptIsUnused' /\ UnissuedIsUnused' /\ SingleUse'
  BY <1>1 DEF IInv, TypeOK, KeptIsUnused, UnissuedIsUnused, SingleUse
<1>4. QED BY <1>2, <1>3 DEF IInv

\* What Encode does to the states and to the history.
LEMMA EncodeStates ==
    ASSUME IInv, NEW i \in Instances, NEW id \in TokenIds, NEW s \in States, Encode(i, id, s)
    PROVE  /\ DOMAIN states' = Instances
           /\ DOMAIN minted' = DOMAIN minted \cup {id} /\ id \notin DOMAIN minted
           /\ minted'[id] = [by |-> i, issued |-> clock, state |-> s]
           /\ \A x \in DOMAIN minted : minted'[x] = minted[x]
           /\ \A j \in Instances : \A x \in DOMAIN states'[j] :
                 \/ x \in DOMAIN states[j] /\ states'[j][x] = states[j][x]
                 \/ j = i /\ x = id /\ states'[j][x] = [issued |-> clock, state |-> s]
           /\ \A j \in Instances : \A x \in DOMAIN states[j] :
                 x \in DOMAIN states'[j] \/ TooOld(states[j][x].issued)
           /\ \A x \in DOMAIN states'[i] \ {id} : ~TooOld(states[i][x].issued)
           /\ id \in DOMAIN states'[i]
<1>1. /\ DOMAIN states' = Instances
      /\ states'[i] = With(Purged(states[i]), id, [issued |-> clock, state |-> s])
      /\ \A j \in Instances \ {i} : states'[j] = states[j]
  BY DEF Encode, IInv, TypeOK
<1>2. /\ DOMAIN minted' = DOMAIN minted \cup {id} /\ id \notin DOMAIN minted
      /\ minted'[id] = [by |-> i, issued |-> clock, state |-> s]
      /\ \A x \in DOMAIN minted : minted'[x] = minted[x]
  BY DEF Encode, With
<1>3. \A x \in DOMAIN states[i] : x \in DOMAIN minted
  BY DEF IInv, TypeOK, MintedBy
<1>4. /\ DOMAIN Purged(states[i]) = {x \in DOMAIN states[i] : ~TooOld(states[i][x].issued)}
      /\ \A x \in DOMAIN Purged(states[i]) : Purged(states[i])[x] = states[i][x]
  BY DEF Purged, Keep
<1>5. /\ DOMAIN states'[i] = DOMAIN Purged(states[i]) \cup {id}
      /\ \A x \in DOMAIN states'[i] :
            states'[i][x] = IF x = id THEN [issued |-> clock, state |-> s] ELSE Purged(states[i])[x]
  BY <1>1 DEF With
<1>6. QED BY <1>1, <1>2, <1>3, <1>4, <1>5

\* Issuing a token keeps the invariant: its id is new, so nobody has honoured it.
LEMMA EncodeInv ==
    ASSUME IInv, NEW i \in Instances, NEW id \in TokenIds, NEW s \in States, Encode(i, id, s)
    PROVE  IInv'
<1>0. /\ DOMAIN states' = Instances
      /\ DOMAIN minted' = DOMAIN minted \cup {id} /\ id \notin DOMAIN minted
      /\ minted'[id] = [by |-> i, issued |-> clock, state |-> s]
      /\ \A x \in DOMAIN minted : minted'[x] = minted[x]
      /\ \A j \in Instances : \A x \in DOMAIN states'[j] :
            \/ x \in DOMAIN states[j] /\ states'[j][x] = states[j][x]
            \/ j = i /\ x = id /\ states'[j][x] = [issued |-> clock, state |-> s]
  BY EncodeStates
<1>1. UNCHANGED <<clock, redeemed>> /\ reply' = NoReply
  BY DEF Encode
<1>2. minted' \in [DOMAIN minted' -> [by : Instances, issued : 0..MaxTime, state : States]]
  <2>1. \A x \in DOMAIN minted' : minted'[x] \in [by : Instances, issued : 0..MaxTime, state : States]
    BY <1>0 DEF IInv, TypeOK
  <2>2. minted' = [x \in DOMAIN minted' |-> minted'[x]]
    BY DEF Encode, With
  <2>3. QED BY <2>1, <2>2
<1>3. \A j \in Instances : /\ DOMAIN states'[j] \subseteq MintedBy(j)'
                           /\ \A x \in DOMAIN states'[j] :
                                 states'[j][x] = [issued |-> minted'[x].issued, state |-> minted'[x].state]
  <2> SUFFICES ASSUME NEW j \in Instances, NEW x \in DOMAIN states'[j]
               PROVE  /\ x \in DOMAIN minted' /\ minted'[x].by = j
                      /\ states'[j][x] = [issued |-> minted'[x].issued, state |-> minted'[x].state]
    BY DEF MintedBy
  <2>1. CASE x \in DOMAIN states[j] /\ states'[j][x] = states[j][x]
    BY <2>1, <1>0 DEF IInv, TypeOK, MintedBy
  <2>2. CASE j = i /\ x = id /\ states'[j][x] = [issued |-> clock, state |-> s]
    BY <2>2, <1>0
  <2>3. QED BY <2>1, <2>2, <1>0
<1>4. TypeOK'
  BY <1>1, <1>2, <1>3, <1>0 DEF IInv, TypeOK
<1>5. KeptIsUnused'
  <2>1. redeemed[id] = 0
    BY <1>0 DEF IInv, UnissuedIsUnused
  <2>2. QED BY <1>1, <2>1, <1>0 DEF IInv, KeptIsUnused
<1>6. UnissuedIsUnused' /\ SingleUse'
  BY <1>1, <1>0 DEF IInv, UnissuedIsUnused, SingleUse
<1>7. QED BY <1>4, <1>5, <1>6 DEF IInv

\* Honouring a token takes its state from the only process that kept it.
LEMMA HonouredInv ==
    ASSUME IInv, NEW i \in Instances, NEW id \in DOMAIN minted, NEW date,
           DecodeHonoured(i, id, date)
    PROVE  IInv'
<1>1. id \in TokenIds /\ id \in DOMAIN states[i] /\ redeemed[id] = 0
  BY DEF DecodeHonoured, IInv, TypeOK, KeptIsUnused
<1>2. redeemed' = [redeemed EXCEPT ![id] = 1] /\ UNCHANGED <<clock, minted>>
  BY <1>1 DEF DecodeHonoured, IInv, TypeOK
<1>3. /\ DOMAIN states' = Instances
      /\ \A j \in Instances : /\ DOMAIN states'[j] \subseteq DOMAIN states[j]
                              /\ \A x \in DOMAIN states'[j] : states'[j][x] = states[j][x]
      /\ id \notin DOMAIN states'[i]
  BY DEF DecodeHonoured, Keep, IInv, TypeOK
<1>4. \A j \in Instances : id \notin DOMAIN states'[j]
  BY <1>1, <1>3 DEF IInv, TypeOK, MintedBy
<1>5. reply' \in [at : Instances, id : TokenIds, state : States \cup {None}]
  BY <1>1 DEF DecodeHonoured, IInv, TypeOK
<1>6. TypeOK'
  BY <1>2, <1>3, <1>5 DEF IInv, TypeOK, MintedBy
<1>7. KeptIsUnused'
  BY <1>2, <1>3, <1>4 DEF IInv, TypeOK, KeptIsUnused, MintedBy
<1>8. UnissuedIsUnused' /\ SingleUse'
  BY <1>1, <1>2 DEF IInv, TypeOK, UnissuedIsUnused, SingleUse
<1>9. QED BY <1>6, <1>7, <1>8 DEF IInv

\* A presented token is refused, found missing or honoured.
LEMMA DecodeInv ==
    ASSUME IInv, NEW i \in Instances, NEW id \in DOMAIN minted, NEW date, Decode(i, id, date)
    PROVE  IInv'
<1> USE DEF Refuse
<1>1. id \in TokenIds
  BY DEF IInv, TypeOK
<1>2. CASE DecodeUnsigned(i, id, date) \/ DecodeExpired(i, id, date)
  BY <1>1, <1>2 DEF DecodeUnsigned, DecodeExpired, IInv, TypeOK, MintedBy,
     KeptIsUnused, UnissuedIsUnused, SingleUse
<1>3. CASE DecodeUnavailable(i, id, date)
  BY <1>1, <1>3, NarrowingInv DEF DecodeUnavailable
<1>4. CASE DecodeHonoured(i, id, date)
  BY <1>4, HonouredInv
<1>5. QED BY <1>2, <1>3, <1>4 DEF Decode

\* A restart narrows the states of the process to none.
LEMMA RestartInv == ASSUME IInv, NEW i \in Instances, Restart(i) PROVE IInv'
<1>1. Keep(states[i], {}) = [id \in {} |-> None]
  BY DEF Keep
<1>2. states' = [states EXCEPT ![i] = Keep(states[i], {})]
  BY <1>1 DEF Restart
<1>3. QED BY <1>2, NarrowingInv DEF Restart

\* No token has been issued at the start.
LEMMA Initial == Init => IInv
BY AgesAssumption DEF Init, IInv, TypeOK, MintedBy, KeptIsUnused, UnissuedIsUnused, SingleUse

\* The inductive step: one case per action.
LEMMA Inductive == IInv /\ [Next]_vars => IInv'
<1> SUFFICES ASSUME IInv, [Next]_vars PROVE IInv'
  OBVIOUS
<1>1. CASE SetClock
  BY <1>1 DEF SetClock, IInv, TypeOK, MintedBy, KeptIsUnused, UnissuedIsUnused, SingleUse
<1>2. CASE UNCHANGED vars
  BY <1>2 DEF vars, IInv, TypeOK, MintedBy, KeptIsUnused, UnissuedIsUnused, SingleUse
<1>3. QED BY <1>1, <1>2, EncodeInv, DecodeInv, RestartInv DEF Next

\* The invariant holds in every reachable state.
THEOREM TokensInvariant == Spec => []IInv
BY Initial, Inductive, PTL DEF Spec

\* A token is honoured at most once, over all processes, orders and restarts.
THEOREM TokensSingleUse == Spec => []SingleUse
<1>1. IInv => SingleUse
  BY DEF IInv
<1>2. QED BY TokensInvariant, <1>1, PTL

\* Each process keeps only states of tokens it issued, as it issued them.
THEOREM TokensTypes == Spec => []TypeOK
<1>1. IInv => TypeOK
  BY DEF IInv
<1>2. QED BY TokensInvariant, <1>1, PTL

\* A process drops a token's state only on honouring the token, on a restart, or
\* when the token is too old.  The case that needs the invariant is a signed
\* token whose state is found with another date: there is none.
LEMMA StepLosesNoFresh ==
    ASSUME IInv, Next, NEW i \in Instances, NEW id \in DOMAIN states[i] \ DOMAIN states'[i]
    PROVE  ForgottenFor(i, id)
<1>1. id \in DOMAIN minted /\ states[i][id].issued = minted[id].issued /\ redeemed[id] \in Nat
  BY DEF IInv, TypeOK, MintedBy
<1>2. ASSUME NEW j \in Instances, NEW x \in TokenIds, NEW s \in States, Encode(j, x, s)
      PROVE  ForgottenFor(i, id)
  <2>1. id \in DOMAIN states'[i] \/ TooOld(states[i][id].issued)
    BY <1>2, EncodeStates
  <2>2. QED BY <2>1 DEF ForgottenFor
<1>3. ASSUME NEW j \in Instances, NEW x \in DOMAIN minted, NEW date, Decode(j, x, date)
      PROVE  ForgottenFor(i, id)
  <2>1. CASE DecodeUnsigned(j, x, date) \/ DecodeExpired(j, x, date)
    BY <2>1 DEF DecodeUnsigned, DecodeExpired
  <2>2. CASE DecodeUnavailable(j, x, date)
    <3>1. i = j /\ id = x
      BY <2>2 DEF DecodeUnavailable, Keep, IInv, TypeOK, MintedBy
    <3>2. QED BY <1>1, <2>2, <3>1 DEF DecodeUnavailable, Valid
  <2>3. CASE DecodeHonoured(j, x, date)
    <3>1. i = j /\ id = x
      BY <2>3 DEF DecodeHonoured, Keep, IInv, TypeOK, MintedBy
    <3>2. redeemed'[id] = redeemed[id] + 1
      BY <2>3, <3>1 DEF DecodeHonoured, IInv, TypeOK
    <3>3. QED BY <3>2 DEF ForgottenFor
  <2>4. QED BY <1>3, <2>1, <2>2, <2>3 DEF Decode
<1>4. ASSUME NEW j \in Instances, Restart(j) PROVE ForgottenFor(i, id)
  <2>1. i = j
    BY <1>4 DEF Restart, IInv, TypeOK
  <2>2. DOMAIN states'[i] = {} /\ reply' = NoReply
    BY <1>4, <2>1 DEF Restart, IInv, TypeOK
  <2>3. QED BY <2>2 DEF ForgottenFor
<1>5. CASE SetClock
  BY <1>5 DEF SetClock
<1>6. QED BY <1>2, <1>3, <1>4, <1>5 DEF Next

\* A fresh token that was never used stays good at the process that issued it.
THEOREM TokensLoseNoFresh == Spec => NoFreshTokenLost
<1>1. IInv /\ [Next]_vars
        => [\A i \in Instances : \A id \in DOMAIN states[i] \ DOMAIN states'[i] :
               ForgottenFor(i, id)]_vars
  BY StepLosesNoFresh DEF vars
<1>2. QED BY TokensInvariant, <1>1, PTL DEF Spec, NoFreshTokenLost

\* What a process keeps when it has issued a token is not too old.
LEMMA EncodeLeavesFresh ==
    ASSUME IInv, NEW i \in Instances, NEW id \in TokenIds, NEW s \in States, Encode(i, id, s)
    PROVE  \A kept \in DOMAIN states'[i] : clock - minted'[kept].issued <= MaxAge
<1>1. /\ DOMAIN states' = Instances
      /\ DOMAIN minted' = DOMAIN minted \cup {id} /\ id \notin DOMAIN minted
      /\ minted'[id] = [by |-> i, issued |-> clock, state |-> s]
      /\ \A x \in DOMAIN minted : minted'[x] = minted[x]
      /\ \A j \in Instances : \A x \in DOMAIN states'[j] :
            \/ x \in DOMAIN states[j] /\ states'[j][x] = states[j][x]
            \/ j = i /\ x = id /\ states'[j][x] = [issued |-> clock, state |-> s]
      /\ \A x \in DOMAIN states'[i] \ {id} : ~TooOld(states[i][x].issued)
  BY EncodeStates
<1> TAKE kept \in DOMAIN states'[i]
<1>2. CASE kept = id
  BY <1>1, <1>2, AgesAssumption DEF IInv, TypeOK
<1>3. CASE kept # id
  <2>1. kept \in DOMAIN minted /\ states[i][kept].issued = minted[kept].issued
        /\ minted[kept].issued \in Int /\ clock \in Int
    BY <1>1, <1>3 DEF IInv, TypeOK, MintedBy
  <2>2. QED BY <1>1, <1>3, <2>1, AgesAssumption DEF TooOld
<1>4. QED BY <1>2, <1>3

\* A process that issues a token keeps the states of tokens not yet too old only.
THEOREM TokensSwept == Spec => SweptByEncode
<1> DEFINE Swept == \A id \in DOMAIN minted' \ DOMAIN minted :
                       LET kept == states'[minted'[id].by]
                       IN \A x \in DOMAIN kept : clock - minted'[x].issued <= MaxAge
<1>1. IInv /\ [Next]_vars => [Swept]_vars
  <2> SUFFICES ASSUME IInv, Next, NEW id \in DOMAIN minted' \ DOMAIN minted,
                      NEW x \in DOMAIN states'[minted'[id].by]
               PROVE  clock - minted'[x].issued <= MaxAge
    OBVIOUS
  <2>1. PICK i \in Instances, new \in TokenIds, s \in States : Encode(i, new, s)
    BY DEF Next, Decode, DecodeUnsigned, DecodeExpired, DecodeUnavailable, DecodeHonoured,
       Refuse, Restart, SetClock
  <2>2. minted'[id].by = i
    BY <2>1 DEF Encode, With
  <2>3. QED BY <2>1, <2>2, EncodeLeavesFresh
<1>2. QED BY TokensInvariant, <1>1, PTL DEF Spec, SweptByEncode

\* Issuing a token puts its state into the store, with the deadline MaxAge sets.
LEMMA EncodePuts ==
    ASSUME IInv, NEW i \in Instances, NEW id \in TokenIds, NEW s \in States, Encode(i, id, s)
    PROVE  Abstract!Put(<<i, id>>, s)
<1> DEFINE Slots == Instances \X TokenIds
           held == [k \in Slots |->
                      IF k[2] \in DOMAIN states[k[1]]
                      THEN [value |-> states[k[1]][k[2]].state,
                            expires |-> states[k[1]][k[2]].issued + MaxAge + 1]
                      ELSE None]
<1> HIDE DEF held, Slots
<1>1. /\ DOMAIN states' = Instances
      /\ DOMAIN minted' = DOMAIN minted \cup {id} /\ id \notin DOMAIN minted
      /\ minted'[id] = [by |-> i, issued |-> clock, state |-> s]
      /\ \A x \in DOMAIN minted : minted'[x] = minted[x]
      /\ \A j \in Instances : \A x \in DOMAIN states'[j] :
            \/ x \in DOMAIN states[j] /\ states'[j][x] = states[j][x]
            \/ j = i /\ x = id /\ states'[j][x] = [issued |-> clock, state |-> s]
  BY EncodeStates
<1>2. id \in DOMAIN states'[i]
  BY EncodeStates
<1>3. states'[i][id] = [issued |-> clock, state |-> s]
  BY <1>1, <1>2 DEF IInv, TypeOK, MintedBy
<1>4. clock \in Int /\ clock' \in Int /\ reply' = NoReply
  BY DEF Encode, IInv, TypeOK
<1>5. held'[<<i, id>>] = [value |-> s, expires |-> clock + MaxAge + 1]
  BY <1>2, <1>3 DEF held, Slots
<1>6. held'[<<i, id>>] # None /\ held'[<<i, id>>].value = s
  BY <1>4, <1>5, NoneAssumption, AgesAssumption
<1>7. \A k \in Slots \ {<<i, id>>} : held'[k] \in {held[k], None}
  BY <1>1 DEF held, Slots
<1>8. \A j \in Instances : \A x \in DOMAIN states'[j] :
         x \in TokenIds /\ states'[j][x].issued \in Int /\ states'[j][x].state \in States
  <2>1. TypeOK'
    BY EncodeInv DEF IInv
  <2>2. QED BY <2>1 DEF TypeOK, MintedBy
<1>9. held' \in [Slots -> Abstract!Entry \cup {None}]
  BY <1>8, AgesAssumption DEF Abstract!Entry, held, Slots
<1>10. Abstract!OthersMayGo({<<i, id>>})
  BY <1>7 DEF Abstract!OthersMayGo, held, Slots
<1>11. QED BY <1>4, <1>6, <1>9, <1>10 DEF Abstract!Put, Abstract!NoAnswer, held, Slots

\* The tokens of all processes implement ExpiringStore: what a token yields is
\* the state it was issued for, at most MaxAge later.
THEOREM TokensRefineStore == Spec => IsExpiringStore
<1> DEFINE Slots == Instances \X TokenIds
           held == [k \in Slots |->
                      IF k[2] \in DOMAIN states[k[1]]
                      THEN [value |-> states[k[1]][k[2]].state,
                            expires |-> states[k[1]][k[2]].issued + MaxAge + 1]
                      ELSE None]
<1>1. Init => Abstract!Init
  BY DEF Init, NoReply, Abstract!Init, Abstract!NoAnswer
<1>2. IInv /\ [Next]_vars => [Abstract!Next]_(Abstract!vars)
  <2> SUFFICES ASSUME IInv, [Next]_vars PROVE [Abstract!Next]_(Abstract!vars)
    OBVIOUS
  <2> USE DEF Abstract!NoAnswer
  <2>1. IInv'
    BY Inductive
  <2>2. \A i \in Instances : \A id \in DOMAIN states[i] :
           /\ id \in TokenIds /\ states[i][id].issued \in Int /\ states[i][id].state \in States
    BY DEF IInv, TypeOK, MintedBy
  <2>3. \A i \in Instances : \A id \in DOMAIN states'[i] :
           /\ id \in TokenIds /\ states'[i][id].issued \in Int /\ states'[i][id].state \in States
    BY <2>1 DEF IInv, TypeOK, MintedBy
  <2>4. held \in [Slots -> Abstract!Entry \cup {None}]
    BY <2>2, AgesAssumption DEF Abstract!Entry
  <2>5. held' \in [Slots -> Abstract!Entry \cup {None}]
    BY <2>3, AgesAssumption DEF Abstract!Entry
  <2>6. clock' \in Int /\ clock \in Int
    BY <2>1 DEF IInv, TypeOK
  <2>7. ASSUME \A i \in Instances : /\ DOMAIN states'[i] \subseteq DOMAIN states[i]
                                    /\ \A id \in DOMAIN states'[i] : states'[i][id] = states[i][id]
        PROVE  Abstract!OthersMayGo({})
    BY <2>7 DEF Abstract!OthersMayGo
  <2>8. ASSUME NEW i \in Instances, NEW id \in TokenIds, NEW s \in States, Encode(i, id, s)
        PROVE  Abstract!Put(<<i, id>>, s)
    BY <2>8, EncodePuts
  <2>9. ASSUME NEW i \in Instances, NEW id \in DOMAIN minted, NEW date, Decode(i, id, date)
        PROVE  Abstract!Lookup(<<i, id>>)
    <3>1. id \in TokenIds /\ <<i, id>> \in Slots
      BY DEF IInv, TypeOK
    <3>2. Abstract!OthersMayGo({}) /\ UNCHANGED clock
      <4>1. \A j \in Instances : /\ DOMAIN states'[j] \subseteq DOMAIN states[j]
                                 /\ \A x \in DOMAIN states'[j] : states'[j][x] = states[j][x]
        BY <2>9 DEF Decode, DecodeUnsigned, DecodeExpired, DecodeUnavailable, DecodeHonoured,
           Keep, IInv, TypeOK
      <4>2. UNCHANGED clock
        BY <2>9 DEF Decode, DecodeUnsigned, DecodeExpired, DecodeUnavailable, DecodeHonoured, Refuse
      <4>3. QED BY <2>7, <4>1, <4>2
    <3>3. CASE reply' = [at |-> i, id |-> id, state |-> None]
      <4>1. reply' # NoReply
        BY <3>3, NoneAssumption DEF NoReply
      <4>2. Abstract!Miss(<<i, id>>)
        BY <3>3, <4>1 DEF Abstract!Miss
      <4>3. QED BY <2>5, <3>2, <4>2 DEF Abstract!Lookup
    <3>4. CASE DecodeHonoured(i, id, date)
      <4>1. /\ id \in DOMAIN states[i] /\ states[i][id].issued = date
            /\ clock - date <= MaxAge /\ reply' = [at |-> i, id |-> id, state |-> states[i][id].state]
        BY <2>2, <2>6, <3>4, AgesAssumption DEF DecodeHonoured, Valid, TooOld
      <4>2. held[<<i, id>>] = [value |-> states[i][id].state, expires |-> date + MaxAge + 1]
        BY <3>1, <4>1
      <4>3. clock < date + MaxAge + 1 /\ held[<<i, id>>] # None
        BY <2>2, <2>6, <4>1, <4>2, AgesAssumption, NoneAssumption
      <4>4. reply' # NoReply
        BY <2>2, <4>1, NoneAssumption DEF NoReply
      <4>5. Abstract!Serve(<<i, id>>)
        BY <4>1, <4>2, <4>3, <4>4 DEF Abstract!Serve
      <4>6. QED BY <2>5, <3>2, <4>5 DEF Abstract!Lookup
    <3>5. QED BY <2>9, <3>3, <3>4
              DEF Decode, DecodeUnsigned, DecodeExpired, DecodeUnavailable, Refuse
  <2>10. ASSUME NEW i \in Instances, Restart(i) PROVE Abstract!Forget
    <3>1. \A j \in Instances : /\ DOMAIN states'[j] \subseteq DOMAIN states[j]
                               /\ \A x \in DOMAIN states'[j] : states'[j][x] = states[j][x]
      BY <2>10 DEF Restart, IInv, TypeOK
    <3>2. QED BY <2>5, <2>7, <2>10, <3>1 DEF Restart, Abstract!Forget
  <2>11. CASE SetClock
    BY <2>6, <2>11 DEF SetClock, Abstract!Pass, Abstract!Next
  <2>12. CASE UNCHANGED vars
    BY <2>12 DEF vars, Abstract!vars
  <2>13. ASSUME NEW i \in Instances, NEW id \in TokenIds, NEW s \in States, Encode(i, id, s)
         PROVE  Abstract!Next
    BY <2>8, <2>13 DEF Abstract!Next
  <2>14. ASSUME NEW i \in Instances, NEW id \in DOMAIN minted, NEW date, Decode(i, id, date)
         PROVE  Abstract!Next
    <3>1. <<i, id>> \in Slots
      BY DEF IInv, TypeOK
    <3>2. QED BY <2>9, <2>14, <3>1 DEF Abstract!Next
  <2>15. QED BY <2>10, <2>11, <2>12, <2>13, <2>14 DEF Next, Abstract!Next
<1>3. QED BY <1>1, <1>2, TokensInvariant, PTL DEF Spec, IsExpiringStore, Abstract!Spec
=============================================================================
