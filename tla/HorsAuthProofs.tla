--------------------------- MODULE HorsAuthProofs ---------------------------
(***************************************************************************)
(* TLAPS proofs about HorsAuth, for every set of requests, headers and     *)
(* deployments and every timing that satisfies TimingAssumption and        *)
(* NonceOutlivesHeader.                                                    *)
(***************************************************************************)
EXTENDS HorsAuth, TLAPS

-----------------------------------------------------------------------------
(***************************************************************************)
(* The replay store.                                                       *)
(***************************************************************************)

\* A store holds exactly the keys whose expiry is in the future.
LEMMA HoldsIsUnexpired ==
  ASSUME NEW Keys, NEW store \in [Keys -> Nat], NEW key \in Keys, NEW t \in Nat
  PROVE  Holds(store, key, t) <=> store[key] > t
BY DEF Holds, Cleanup, Absent

\* consume() leaves a store.
LEMMA ConsumeType ==
  ASSUME NEW Keys, NEW store \in [Keys -> Nat], NEW key \in Keys,
         NEW t \in Nat, NEW ttl \in Nat
  PROVE  Consume(store, key, t, ttl) \in [Keys -> Nat]
<1>1. Cleanup(store, t) \in [Keys -> Nat]
  BY DEF Cleanup, Absent
<1> QED
  BY <1>1 DEF Consume

LEMMA EmptyStoreType ==
  ASSUME NEW Keys
  PROVE  EmptyStore(Keys) \in [Keys -> Nat]
BY DEF EmptyStore, Absent
-----------------------------------------------------------------------------
(***************************************************************************)
(* Type correctness.                                                       *)
(***************************************************************************)

\* A request that verification works on carries a header, so the stores are only
\* asked about nonces and call ids.
AuthTyped == AuthTypeOK /\ CarriesHeader

LEMMA AuthInitTyped == AuthInit => AuthTyped
BY ConstantsAssumption, EmptyStoreType
   DEF AuthInit, AuthTyped, AuthTypeOK, CarriesHeader, SpentNonce, Phases, Awaiting

\* One step of verification keeps every variable in its type.
LEMMA VerifyStepTyped ==
  ASSUME AuthTyped, NEW r \in Reqs, VerifyStep(r)
  PROVE  AuthTyped'
<1> USE ConstantsAssumption, TimingAssumption
<1> USE DEF AuthTyped, AuthTypeOK, CarriesHeader, SpentNonce, Goto, Phases, Awaiting,
            Rejected, Faulted, clientVars, processVars, storeVars
<1>1. CASE RejectSignature(r)
  BY <1>1 DEF RejectSignature
<1>2. CASE ConsumeNonce(r)
  <2>1. NonceOf[msgOf[r]] \in Nonces
    BY <1>2 DEF ConsumeNonce
  <2>2. nonceStore' \in [Nonces -> Nat]
    BY <1>2, <2>1, ConsumeType DEF ConsumeNonce
  <2> QED
    BY <1>2, <2>2 DEF ConsumeNonce
<1>3. CASE ConsumeCallId(r)
  <2>1. CallIdOf[msgOf[r]] \in CallIds
    BY <1>3 DEF ConsumeCallId
  <2>2. callIdStore' \in [CallIds -> Nat]
    BY <1>3, <2>1, ConsumeType DEF ConsumeCallId
  <2> QED
    BY <1>3, <2>2 DEF ConsumeCallId
<1>4. CASE LookupHuman(r)
  BY <1>4 DEF LookupHuman
<1>5. CASE LookupFails(r)
  BY <1>5 DEF LookupFails
<1>6. CASE NonceStoreFails(r)
  <2>1. NonceOf[msgOf[r]] \in Nonces
    BY <1>6 DEF NonceStoreFails
  <2>2. Consume(nonceStore, NonceOf[msgOf[r]], now, NonceTTL) \in [Nonces -> Nat]
    BY <2>1, ConsumeType
  <2>3. nonceStore' \in [Nonces -> Nat]
    BY <1>6, <2>2 DEF NonceStoreFails
  <2> QED
    BY <1>6, <2>3 DEF NonceStoreFails
<1>7. CASE CallIdStoreFails(r)
  <2>1. CallIdOf[msgOf[r]] \in CallIds
    BY <1>7 DEF CallIdStoreFails
  <2>2. Consume(callIdStore, CallIdOf[msgOf[r]], now, CallIdTTL) \in [CallIds -> Nat]
    BY <2>1, ConsumeType
  <2>3. callIdStore' \in [CallIds -> Nat]
    BY <1>7, <2>2 DEF CallIdStoreFails
  <2> QED
    BY <1>7, <2>3 DEF CallIdStoreFails
<1> QED
  BY <1>1, <1>2, <1>3, <1>4, <1>5, <1>6, <1>7, VerifyStep(r) DEF VerifyStep

\* Every step keeps every variable in its type.
LEMMA AuthStepTyped == AuthTyped /\ [AuthNext]_authVars => AuthTyped'
<1> SUFFICES ASSUME AuthTyped, [AuthNext]_authVars
             PROVE  AuthTyped'
  OBVIOUS
<1> USE ConstantsAssumption, TimingAssumption
<1> USE DEF AuthTyped, AuthTypeOK, CarriesHeader, SpentNonce, Goto, Phases, Awaiting,
            Rejected, Faulted, clientVars, processVars, storeVars
<1>1. ASSUME NEW m \in Msgs, Sign(m) PROVE AuthTyped'
  BY <1>1 DEF Sign
<1>2. ASSUME NEW r \in Reqs, NEW m \in Msgs, Arrive(r, m) PROVE AuthTyped'
  BY <1>2 DEF Arrive
<1>3. ASSUME NEW r \in Reqs, ArriveMalformed(r) PROVE AuthTyped'
  BY <1>3 DEF ArriveMalformed
<1>4. ASSUME NEW a \in Addrs, NEW h \in Humans \cup {NoHuman}, Register(a, h)
      PROVE  AuthTyped'
  BY <1>4 DEF Register
<1>5. ASSUME NEW d \in Deployments, Restart(d) PROVE AuthTyped'
  BY <1>5, EmptyStoreType DEF Restart, StoresSurvive
<1>6. CASE Tick
  BY <1>6 DEF Tick
<1>7. ASSUME NEW r \in Reqs, VerifyStep(r) PROVE AuthTyped'
  BY <1>7, VerifyStepTyped
<1>8. CASE UNCHANGED authVars
  BY <1>8 DEF authVars
<1> QED
  BY <1>1, <1>2, <1>3, <1>4, <1>5, <1>6, <1>7, <1>8
     DEF AuthNext, ClientStep, WorldStep

\* Type correctness of the verifier (verify.ts and its stores).
THEOREM AuthTypeCorrect == AuthSpec => []AuthTypeOK
<1>1. AuthTyped => AuthTypeOK
  BY DEF AuthTyped
<1> QED
  BY <1>1, AuthInitTyped, AuthStepTyped, PTL DEF AuthSpec

-----------------------------------------------------------------------------
(***************************************************************************)
(* At most one spender per header.                                         *)
(***************************************************************************)

\* The conjuncts of the inductive invariant about time and the stores.
AuthSafe ==
  /\ SkewBounded
  /\ InFlightTimely
  /\ RecordsThePast
  /\ NonceRemembered
  /\ CallIdRemembered
  /\ HeaderSpentOnce
  /\ CallIdWindow

LEMMA AuthInitSafe == AuthInit => AuthSafe
BY ConstantsAssumption, TimingAssumption
   DEF AuthInit, AuthSafe, SkewBounded, InFlightTimely, RecordsThePast, NonceRemembered,
       CallIdRemembered, HeaderSpentOnce, CallIdWindow, SpentNonce, SpentCallId, Awaiting

\* A newly signed header is one that no request carries yet.
LEMMA SignSafe ==
  ASSUME AuthTyped, AuthSafe, NEW m \in Msgs, Sign(m)
  PROVE  AuthSafe'
<1> USE TimingAssumption
<1> USE DEF AuthTyped, AuthTypeOK, CarriesHeader, AuthSafe, Sign, processVars, storeVars
<1>1. m \notin signed /\ issuedAt'[m] <= now + MaxSkew
  OBVIOUS
<1>2. \A r \in Reqs : pc[r] \in Awaiting \/ SpentNonce(r) =>
                      issuedAt'[msgOf[r]] = issuedAt[msgOf[r]]
  BY <1>1
<1>3. SkewBounded'
  BY <1>1 DEF SkewBounded
<1>4. InFlightTimely'
  BY <1>2 DEF InFlightTimely
<1>5. NonceRemembered'
  BY <1>2 DEF NonceRemembered, SpentNonce, Current, Deadline
<1> QED
  BY <1>3, <1>4, <1>5
     DEF RecordsThePast, CallIdRemembered, HeaderSpentOnce, CallIdWindow,
         SpentNonce, SpentCallId, SameStores, Current

\* A request that arrives has spent nothing, and its header is fresh.
LEMMA ArriveSafe ==
  ASSUME AuthTyped, AuthSafe, NEW r \in Reqs,
         (\E m \in Msgs : Arrive(r, m)) \/ ArriveMalformed(r)
  PROVE  AuthSafe'
<1> USE TimingAssumption
<1> USE DEF AuthTyped, AuthTypeOK, AuthSafe, Goto, clientVars, processVars, storeVars
<1>1. \A q \in Reqs :
        /\ SpentNonce(q)' <=> SpentNonce(q) /\ q # r
        /\ SpentCallId(q)' <=> SpentCallId(q) /\ q # r
        /\ q # r => msgOf'[q] = msgOf[q] /\ epochOf'[q] = epochOf[q] /\ pc'[q] = pc[q]
  BY DEF Arrive, ArriveMalformed, SpentNonce, SpentCallId
<1>2. UNCHANGED <<now, issuedAt, signed, epoch, nonceStore, callIdStore, spentAt>>
  BY DEF Arrive, ArriveMalformed
<1>3. epochOf'[r] = epoch
  BY DEF Arrive, ArriveMalformed
<1>4. SkewBounded'
  BY <1>2 DEF SkewBounded
<1>5. InFlightTimely'
  BY <1>1, <1>2 DEF InFlightTimely, Arrive, ArriveMalformed, Fresh, Awaiting
<1>6. RecordsThePast'
  BY <1>1, <1>2, <1>3 DEF RecordsThePast
<1>7. NonceRemembered' /\ CallIdRemembered'
  BY <1>1, <1>2 DEF NonceRemembered, CallIdRemembered, Current, Deadline
<1>8. HeaderSpentOnce' /\ CallIdWindow'
  BY <1>1, <1>2 DEF HeaderSpentOnce, CallIdWindow, SameStores
<1> QED
  BY <1>4, <1>5, <1>6, <1>7, <1>8

\* Rejections and lookups change no store, so only what r spent needs a look.
LEMMA LookupSafe ==
  ASSUME AuthTyped, AuthSafe, NEW r \in Reqs,
         RejectSignature(r) \/ LookupHuman(r) \/ LookupFails(r)
  PROVE  AuthSafe'
<1> USE DEF AuthTyped, AuthTypeOK, AuthSafe, Goto, clientVars, processVars, storeVars
<1>1. \A q \in Reqs :
        /\ SpentNonce(q)' <=> SpentNonce(q)
        /\ SpentCallId(q)' <=> SpentCallId(q)
        /\ pc'[q] \in Awaiting => pc[q] \in Awaiting
  BY DEF RejectSignature, LookupHuman, LookupFails, SpentNonce, SpentCallId, Awaiting
<1>2. UNCHANGED <<now, issuedAt, signed, epoch, nonceStore, callIdStore,
                  msgOf, arrivedAt, epochOf, spentAt>>
  BY DEF RejectSignature, LookupHuman, LookupFails
<1> QED
  BY <1>1, <1>2
     DEF SkewBounded, InFlightTimely, RecordsThePast, NonceRemembered, CallIdRemembered,
         HeaderSpentOnce, CallIdWindow, Current, Deadline, SameStores

\* The heart of the argument: a request that gets past the nonce store is not late, so
\* an earlier spender of the same header would still be in the store; and its own
\* entry is made to outlast every later copy.
LEMMA ConsumeNonceSafe ==
  ASSUME AuthTyped, AuthSafe, NEW r \in Reqs, ConsumeNonce(r)
  PROVE  AuthSafe'
<1> USE TimingAssumption, ConstantsAssumption
<1> USE DEF AuthTyped, AuthTypeOK, CarriesHeader, AuthSafe, clientVars, processVars
<1> DEFINE m == msgOf[r]
           nonce == NonceOf[m]
           replayed == Holds(nonceStore, nonce, now)
<1>1. /\ pc[r] = "signature"
      /\ m \in signed /\ m \in Msgs /\ nonce \in Nonces
  BY DEF ConsumeNonce, Awaiting
<1>2. UNCHANGED <<now, issuedAt, signed, epoch, callIdStore,
                  msgOf, arrivedAt, epochOf, spentAt>>
  BY DEF ConsumeNonce
<1>3. \A q \in Reqs :
        /\ SpentNonce(q)' <=> SpentNonce(q) \/ (q = r /\ ~replayed)
        /\ SpentCallId(q)' <=> SpentCallId(q)
        /\ pc'[q] \in Awaiting => pc[q] \in Awaiting
        /\ q # r => pc'[q] = pc[q]
  BY <1>1 DEF ConsumeNonce, Goto, SpentNonce, SpentCallId, Awaiting
<1>4. now <= Deadline(m) /\ epochOf[r] = epoch
  BY <1>1 DEF InFlightTimely, Deadline, Awaiting
<1>5. now + NonceTTL > Deadline(m)
  BY <1>1, NonceOutlivesHeader DEF SkewBounded, Deadline
<1>6. \A k \in Nonces :
        /\ nonceStore[k] > now => nonceStore'[k] = nonceStore[k]
        /\ ~replayed => nonceStore'[nonce] = now + NonceTTL
  <2>1. /\ nonceStore \in [Nonces -> Nat] /\ now \in Nat /\ NonceTTL \in Nat
        /\ nonceStore' = Consume(nonceStore, nonce, now, NonceTTL)
    BY DEF ConsumeNonce
  <2>2. \A k \in Nonces :
          /\ nonceStore[k] > now => Consume(nonceStore, nonce, now, NonceTTL)[k] = nonceStore[k]
          /\ ~replayed => Consume(nonceStore, nonce, now, NonceTTL)[nonce] = now + NonceTTL
    BY <1>1, <2>1 DEF Consume, Holds, Cleanup, Absent
  <2> QED
    BY ONLY <2>1, <2>2
<1>7. \A q \in Reqs : SpentNonce(q) => msgOf[q] \in Msgs /\ NonceOf[msgOf[q]] \in Nonces
  BY DEF SpentNonce
<1>8. NonceRemembered'
  <2> SUFFICES ASSUME NEW q \in Reqs, SpentNonce(q)', Current(q)', ~(now > Deadline(msgOf[q]))
               PROVE  nonceStore'[NonceOf[msgOf[q]]] > Deadline(msgOf[q])
    BY <1>2 DEF NonceRemembered, Deadline
  <2>1. CASE SpentNonce(q)
    <3>1. nonceStore[NonceOf[msgOf[q]]] > Deadline(msgOf[q])
      BY <1>2, <2>1 DEF NonceRemembered, Current
    <3>2. msgOf[q] \in Msgs /\ NonceOf[msgOf[q]] \in Nonces
      BY <1>7, <2>1
    <3>3. Deadline(msgOf[q]) \in Int
      BY <3>2 DEF Deadline
    <3>4. nonceStore[NonceOf[msgOf[q]]] > now
      BY <3>1, <3>2, <3>3
    <3> QED
      BY <1>6, <3>1, <3>2, <3>4
  <2>2. CASE q = r /\ ~replayed
    BY <1>1, <1>5, <1>6, <2>2
  <2> QED
    BY <1>3, <2>1, <2>2
<1>9. HeaderSpentOnce'
  <2> SUFFICES ASSUME NEW q \in Reqs, q # r, msgOf[q] = m, SameStores(q, r),
                      SpentNonce(q), ~replayed
               PROVE  FALSE
    BY <1>2, <1>3, <1>1 DEF HeaderSpentOnce, SameStores, SpentNonce
  <2>1. Current(q)
    BY <1>4 DEF SameStores, Current
  <2>2. nonceStore[nonce] > Deadline(m)
    BY <1>4, <2>1 , <1>1 DEF NonceRemembered, Deadline
  <2>3. nonceStore[nonce] > now
    BY <1>1, <1>4, <2>2 DEF Deadline
  <2> QED
    BY <1>1, <2>3, HoldsIsUnexpired
<1>10. CallIdRemembered' /\ CallIdWindow'
  BY <1>2, <1>3 DEF CallIdRemembered, CallIdWindow, Current, SameStores
<1>11. SkewBounded' /\ InFlightTimely' /\ RecordsThePast'
  BY <1>2, <1>3 DEF SkewBounded, InFlightTimely, RecordsThePast
<1> QED
  BY <1>8, <1>9, <1>10, <1>11

\* A call id that the store does not hold was consumed a full lifetime ago, if ever.
LEMMA ConsumeCallIdSafe ==
  ASSUME AuthTyped, AuthSafe, NEW r \in Reqs, ConsumeCallId(r)
  PROVE  AuthSafe'
<1> USE TimingAssumption, ConstantsAssumption
<1> USE DEF AuthTyped, AuthTypeOK, CarriesHeader, AuthSafe, clientVars, processVars
<1> DEFINE callId == CallIdOf[msgOf[r]]
           replayed == Holds(callIdStore, callId, now)
<1>1. /\ pc[r] = "nonce"
      /\ msgOf[r] \in Msgs /\ callId \in CallIds
      /\ epochOf[r] = epoch
  BY DEF ConsumeCallId, InFlightTimely, Awaiting
<1>2. UNCHANGED <<now, issuedAt, signed, epoch, nonceStore, msgOf, arrivedAt, epochOf>>
  BY DEF ConsumeCallId
<1>3. \A q \in Reqs :
        /\ SpentNonce(q)' <=> SpentNonce(q)
        /\ SpentCallId(q)' <=> SpentCallId(q) \/ (q = r /\ ~replayed)
        /\ pc'[q] \in Awaiting => pc[q] \in Awaiting
        /\ q # r => spentAt'[q] = spentAt[q]
        /\ ~replayed => spentAt'[r] = now
  BY <1>1 DEF ConsumeCallId, Goto, SpentNonce, SpentCallId, Awaiting
<1>4. \A k \in CallIds :
        /\ callIdStore[k] > now => callIdStore'[k] = callIdStore[k]
        /\ ~replayed => callIdStore'[callId] = now + CallIdTTL
  <2>1. /\ callIdStore \in [CallIds -> Nat] /\ now \in Nat /\ CallIdTTL \in Nat
        /\ callIdStore' = Consume(callIdStore, callId, now, CallIdTTL)
    BY DEF ConsumeCallId
  <2>2. \A k \in CallIds :
          /\ callIdStore[k] > now => Consume(callIdStore, callId, now, CallIdTTL)[k] = callIdStore[k]
          /\ ~replayed => Consume(callIdStore, callId, now, CallIdTTL)[callId] = now + CallIdTTL
    BY <1>1, <2>1 DEF Consume, Holds, Cleanup, Absent
  <2> QED
    BY ONLY <2>1, <2>2
<1>5. ~SpentCallId(r)
  BY <1>1 DEF SpentCallId
<1>6. CallIdRemembered'
  <2> SUFFICES ASSUME NEW q \in Reqs, SpentCallId(q)', Current(q)',
                      ~(now >= spentAt'[q] + CallIdTTL)
               PROVE  callIdStore'[CallIdOf[msgOf[q]]] >= spentAt'[q] + CallIdTTL
    BY <1>2 DEF CallIdRemembered
  <2>1. CASE SpentCallId(q)
    <3>1. q # r /\ spentAt'[q] = spentAt[q]
      BY <1>3, <1>5, <2>1
    <3>2. msgOf[q] \in Msgs /\ CallIdOf[msgOf[q]] \in CallIds
      BY <2>1 DEF SpentCallId, SpentNonce
    <3>3. callIdStore[CallIdOf[msgOf[q]]] >= spentAt[q] + CallIdTTL
      BY <1>2, <2>1, <3>1 DEF CallIdRemembered, Current
    <3> QED
      BY <1>4, <3>1, <3>2, <3>3
  <2>2. CASE q = r /\ ~replayed
    BY <1>1, <1>3, <1>4, <2>2
  <2> QED
    BY <1>3, <2>1, <2>2
<1>7. CallIdWindow'
  <2>1. ASSUME NEW q \in Reqs, q # r, SpentCallId(q), ~replayed, SameStores(q, r),
               CallIdOf[msgOf[q]] = callId
        PROVE  spentAt[q] + CallIdTTL <= now
    <3>1. Current(q)
      BY <1>1, <2>1 DEF SameStores, Current
    <3>2. callIdStore[callId] <= now
      BY <1>1, <2>1, HoldsIsUnexpired
    <3> QED
      BY <1>1, <2>1, <3>1, <3>2 DEF CallIdRemembered
  <2> QED
    BY <1>2, <1>3, <2>1, <1>5 DEF CallIdWindow, SameStores
<1>8. HeaderSpentOnce' /\ NonceRemembered'
  <2>1. HeaderSpentOnce'
    BY <1>2, <1>3 DEF HeaderSpentOnce, SameStores
  <2>2. NonceRemembered'
    BY <1>2, <1>3 DEF NonceRemembered, Current, Deadline
  <2> QED
    BY <2>1, <2>2
<1>9. SkewBounded' /\ InFlightTimely' /\ RecordsThePast'
  <2>1. SkewBounded' /\ InFlightTimely'
    BY <1>2, <1>3 DEF SkewBounded, InFlightTimely
  <2>2. RecordsThePast'
    <3>1. \A q \in Reqs : SpentCallId(q)' => spentAt'[q] <= now
      BY <1>3, <1>5 DEF RecordsThePast
    <3> QED
      BY <1>2, <3>1 DEF RecordsThePast
  <2> QED
    BY <2>1, <2>2
<1> QED
  BY <1>6, <1>7, <1>8, <1>9

\* consume() drops nothing that has not expired, whether or not its caller hears of it.
LEMMA ConsumeKeeps ==
  ASSUME NEW Keys, NEW store \in [Keys -> Nat], NEW key \in Keys, NEW k \in Keys,
         NEW t \in Nat, NEW ttl \in Nat, store[k] > t
  PROVE  Consume(store, key, t, ttl)[k] = store[k]
BY DEF Consume, Holds, Cleanup, Absent

\* A request whose store rejects has spent nothing new, and what others spent stays.
LEMMA StoreFailsSafe ==
  ASSUME AuthTyped, AuthSafe, NEW r \in Reqs, NonceStoreFails(r) \/ CallIdStoreFails(r)
  PROVE  AuthSafe'
<1> USE TimingAssumption, ConstantsAssumption
<1> USE DEF AuthTyped, AuthTypeOK, CarriesHeader, AuthSafe, clientVars, processVars
<1>1. \A q \in Reqs :
        /\ SpentNonce(q)' <=> SpentNonce(q)
        /\ SpentCallId(q)' <=> SpentCallId(q)
        /\ pc'[q] \in Awaiting => pc[q] \in Awaiting
  BY DEF NonceStoreFails, CallIdStoreFails, Goto, SpentNonce, SpentCallId, Awaiting
<1>2. UNCHANGED <<now, issuedAt, signed, epoch, msgOf, arrivedAt, epochOf, spentAt>>
  BY DEF NonceStoreFails, CallIdStoreFails
<1>3. NonceOf[msgOf[r]] \in Nonces /\ CallIdOf[msgOf[r]] \in CallIds
  BY DEF NonceStoreFails, CallIdStoreFails, SpentNonce, Awaiting
<1>4. \A k \in Nonces : nonceStore[k] > now => nonceStore'[k] = nonceStore[k]
  <2>1. \/ nonceStore' = nonceStore
        \/ nonceStore' = Consume(nonceStore, NonceOf[msgOf[r]], now, NonceTTL)
    BY DEF NonceStoreFails, CallIdStoreFails
  <2>2. nonceStore \in [Nonces -> Nat] /\ now \in Nat /\ NonceTTL \in Nat
    OBVIOUS
  <2> QED
    BY ONLY <1>3, <2>1, <2>2, ConsumeKeeps
<1>5. \A k \in CallIds : callIdStore[k] > now => callIdStore'[k] = callIdStore[k]
  <2>1. \/ callIdStore' = callIdStore
        \/ callIdStore' = Consume(callIdStore, CallIdOf[msgOf[r]], now, CallIdTTL)
    BY DEF NonceStoreFails, CallIdStoreFails
  <2>2. callIdStore \in [CallIds -> Nat] /\ now \in Nat /\ CallIdTTL \in Nat
    OBVIOUS
  <2> QED
    BY ONLY <1>3, <2>1, <2>2, ConsumeKeeps
<1>6. NonceRemembered'
  <2> SUFFICES ASSUME NEW q \in Reqs, SpentNonce(q), Current(q), ~(now > Deadline(msgOf[q]))
               PROVE  nonceStore'[NonceOf[msgOf[q]]] > Deadline(msgOf[q])
    BY <1>1, <1>2 DEF NonceRemembered, Deadline, Current
  <2>1. msgOf[q] \in Msgs /\ NonceOf[msgOf[q]] \in Nonces /\ Deadline(msgOf[q]) \in Int
    BY DEF SpentNonce, Deadline
  <2>2. nonceStore[NonceOf[msgOf[q]]] > Deadline(msgOf[q])
    BY DEF NonceRemembered
  <2>3. nonceStore[NonceOf[msgOf[q]]] > now
    BY <2>1, <2>2
  <2> QED
    BY <1>4, <2>1, <2>2, <2>3
<1>7. CallIdRemembered'
  <2> SUFFICES ASSUME NEW q \in Reqs, SpentCallId(q), Current(q),
                      ~(now >= spentAt[q] + CallIdTTL)
               PROVE  callIdStore'[CallIdOf[msgOf[q]]] >= spentAt[q] + CallIdTTL
    BY <1>1, <1>2 DEF CallIdRemembered, Current
  <2>1. msgOf[q] \in Msgs /\ CallIdOf[msgOf[q]] \in CallIds
    BY DEF SpentCallId, SpentNonce
  <2>2. callIdStore[CallIdOf[msgOf[q]]] >= spentAt[q] + CallIdTTL
    BY DEF CallIdRemembered
  <2>3. callIdStore[CallIdOf[msgOf[q]]] > now
    BY <2>1, <2>2
  <2> QED
    BY <1>5, <2>1, <2>2, <2>3
<1>8. HeaderSpentOnce' /\ CallIdWindow'
  BY <1>1, <1>2 DEF HeaderSpentOnce, CallIdWindow, SameStores
<1>9. SkewBounded' /\ InFlightTimely' /\ RecordsThePast'
  BY <1>1, <1>2 DEF SkewBounded, InFlightTimely, RecordsThePast
<1> QED
  BY <1>6, <1>7, <1>8, <1>9

\* In-memory stores are emptied only together with every request that used them; a
\* durable store goes on holding what earlier processes consumed.
LEMMA RestartSafe ==
  ASSUME AuthTyped, AuthSafe, NEW d \in Deployments, Restart(d)
  PROVE  AuthSafe'
<1> USE TimingAssumption, ConstantsAssumption
<1> USE DEF AuthTyped, AuthTypeOK, AuthSafe, clientVars, storeVars
<1>1. UNCHANGED <<now, issuedAt, signed, msgOf, arrivedAt, epochOf, spentAt>>
  BY DEF Restart, StoresSurvive
<1>2. epoch' = epoch + 1
  BY DEF Restart, StoresSurvive
<1>3. \A q \in Reqs :
        /\ pc'[q] \notin Awaiting
        /\ SpentNonce(q)' => SpentNonce(q)
        /\ SpentCallId(q)' => SpentCallId(q)
  BY DEF Restart, StoresSurvive, SpentNonce, SpentCallId, Awaiting
<1>4. \A q \in Reqs : Current(q)' => Durable /\ Current(q)
  BY <1>1, <1>2 DEF Current, RecordsThePast
<1>5. Durable => UNCHANGED <<nonceStore, callIdStore>>
  BY DEF Restart, StoresSurvive
<1>6. SkewBounded' /\ InFlightTimely' /\ RecordsThePast'
  BY <1>1, <1>2, <1>3 DEF SkewBounded, InFlightTimely, RecordsThePast
<1>7. NonceRemembered'
  BY <1>1, <1>3, <1>4, <1>5 DEF NonceRemembered, Deadline
<1>8. CallIdRemembered'
  BY <1>1, <1>3, <1>4, <1>5 DEF CallIdRemembered
<1>9. HeaderSpentOnce' /\ CallIdWindow'
  BY <1>1, <1>3 DEF HeaderSpentOnce, CallIdWindow, SameStores
<1> QED
  BY <1>6, <1>7, <1>8, <1>9

\* Time does not pass over a request that would become late.
LEMMA TickSafe ==
  ASSUME AuthTyped, AuthSafe, Tick
  PROVE  AuthSafe'
<1> USE TimingAssumption, ConstantsAssumption
<1> USE DEF AuthTyped, AuthTypeOK, CarriesHeader, AuthSafe, clientVars, processVars, storeVars
<1>1. now' = now + 1 /\ \A r \in Reqs : pc[r] \in Awaiting => now < arrivedAt[r] + MaxDelay
  BY DEF Tick
<1>2. UNCHANGED <<issuedAt, signed, epoch, nonceStore, callIdStore,
                  pc, msgOf, arrivedAt, epochOf, spentAt>>
  BY DEF Tick
<1>3. SkewBounded'
  BY <1>1, <1>2 DEF SkewBounded
<1>4. InFlightTimely'
  BY <1>1, <1>2 DEF InFlightTimely
<1>5. RecordsThePast'
  BY <1>1, <1>2 DEF RecordsThePast, SpentCallId
<1>6. NonceRemembered'
  <2>1. \A r \in Reqs : SpentNonce(r) => Deadline(msgOf[r]) \in Int
    BY DEF Deadline
  <2> QED
    BY <1>1, <1>2, <2>1 DEF NonceRemembered, SpentNonce, Current, Deadline
<1>7. CallIdRemembered'
  BY <1>1, <1>2 DEF CallIdRemembered, SpentCallId, Current
<1>8. HeaderSpentOnce' /\ CallIdWindow'
  BY <1>2 DEF HeaderSpentOnce, CallIdWindow, SameStores, SpentNonce, SpentCallId
<1> QED
  BY <1>3, <1>4, <1>5, <1>6, <1>7, <1>8

\* Nothing the invariant speaks of changes.
LEMMA StutterSafe ==
  ASSUME AuthSafe,
         UNCHANGED <<now, issuedAt, signed, epoch, nonceStore, callIdStore,
                     pc, msgOf, arrivedAt, epochOf, spentAt>>
  PROVE  AuthSafe'
BY DEF AuthSafe, SkewBounded, InFlightTimely, RecordsThePast, NonceRemembered,
       CallIdRemembered, HeaderSpentOnce, CallIdWindow, SpentNonce, SpentCallId,
       Current, Deadline, SameStores

LEMMA AuthStepSafe == AuthTyped /\ AuthSafe /\ [AuthNext]_authVars => AuthSafe'
<1> SUFFICES ASSUME AuthTyped, AuthSafe, [AuthNext]_authVars
             PROVE  AuthSafe'
  OBVIOUS
<1>1. ASSUME NEW m \in Msgs, Sign(m) PROVE AuthSafe'
  BY <1>1, SignSafe
<1>2. ASSUME NEW r \in Reqs, NEW m \in Msgs, Arrive(r, m) PROVE AuthSafe'
  BY <1>2, ArriveSafe
<1>3. ASSUME NEW r \in Reqs, ArriveMalformed(r) PROVE AuthSafe'
  BY <1>3, ArriveSafe
<1>4. ASSUME NEW a \in Addrs, NEW h \in Humans \cup {NoHuman}, Register(a, h)
      PROVE  AuthSafe'
  BY <1>4, StutterSafe DEF Register, clientVars, processVars, storeVars
<1>5. ASSUME NEW d \in Deployments, Restart(d) PROVE AuthSafe'
  BY <1>5, RestartSafe
<1>6. CASE Tick
  BY <1>6, TickSafe
<1>7. ASSUME NEW r \in Reqs, VerifyStep(r) PROVE AuthSafe'
  BY <1>7, LookupSafe, ConsumeNonceSafe, ConsumeCallIdSafe, StoreFailsSafe DEF VerifyStep
<1>8. CASE UNCHANGED authVars
  BY <1>8, StutterSafe DEF authVars, clientVars, processVars, storeVars
<1> QED
  BY <1>1, <1>2, <1>3, <1>4, <1>5, <1>6, <1>7, <1>8
     DEF AuthNext, ClientStep, WorldStep

\* The inductive invariant: the conjunction the safety properties are read off.
THEOREM AuthInductive == AuthSpec => []AuthIInv
<1>1. AuthTyped /\ AuthSafe => AuthIInv
  BY DEF AuthTyped, AuthSafe, AuthIInv
<1> QED
  BY <1>1, AuthInitTyped, AuthStepTyped, AuthInitSafe, AuthStepSafe, PTL DEF AuthSpec

\* However many copies of a signed header arrive, and however their verification
\* interleaves, one of them at most gets past the nonce store (verify.ts:129).
THEOREM HeadersSpentOnce == AuthSpec => []HeaderSpentOnce
<1>1. AuthIInv => HeaderSpentOnce
  BY DEF AuthIInv
<1> QED
  BY <1>1, AuthInductive, PTL

\* Two calls with one call id are a call-id lifetime apart (verify.ts:133-140).
THEOREM CallIdsSpaced == AuthSpec => []CallIdWindow
<1>1. AuthIInv => CallIdWindow
  BY DEF AuthIInv
<1> QED
  BY <1>1, AuthInductive, PTL

-----------------------------------------------------------------------------
(***************************************************************************)
(* Verification implements HorsGate.                                       *)
(***************************************************************************)

\* The only step that admits a header is its lookup, and it was not admitted before.
LEMMA LookupAdmits ==
  ASSUME AuthTyped, AuthSafe, NEW r \in Reqs, LookupHuman(r)
  PROVE  [Gate!Next]_Admitted
<1> USE DEF AuthTyped, AuthTypeOK
<1>1. UNCHANGED <<msgOf, epochOf, epoch>>
  BY DEF LookupHuman, processVars
<1>2. pc[r] = "callId" /\ msgOf[r] \in Msgs /\ Current(r)
  BY DEF LookupHuman, CarriesHeader, AuthSafe, InFlightTimely, Awaiting, Current
<1>3. CASE pc' = [pc EXCEPT ![r] = "verified"]
  <2>1. Admitted' = Admitted \cup {<<r, msgOf[r]>>}
    BY <1>1, <1>2, <1>3 DEF Admitted, Current
  <2>2. ASSUME NEW ticket \in Admitted PROVE ticket[1] # r /\ ticket[2] # msgOf[r]
    <3>1. PICK q \in Reqs : pc[q] = "verified" /\ Current(q) /\ ticket = <<q, msgOf[q]>>
      BY <2>2 DEF Admitted
    <3>2. q # r /\ SameStores(q, r)
      BY <1>2, <3>1 DEF AuthSafe, InFlightTimely, Awaiting, Current, SameStores
    <3> QED
      BY <1>2, <3>1, <3>2 DEF AuthSafe, HeaderSpentOnce, SpentNonce
  <2> QED
    BY <1>2, <2>1, <2>2 DEF Gate!Next, Gate!Admit
<1>4. CASE pc' = [pc EXCEPT ![r] = "unbound"]
  BY <1>1, <1>2, <1>4 DEF Admitted, Current
<1> QED
  BY <1>3, <1>4 DEF LookupHuman, Goto

\* No other step changes what is admitted, except a restart that loses the stores.
LEMMA AuthStepRefines ==
  AuthTyped /\ AuthSafe /\ [AuthNext]_authVars => [Gate!Next]_Admitted
<1> SUFFICES ASSUME AuthTyped, AuthSafe, [AuthNext]_authVars
             PROVE  [Gate!Next]_Admitted
  OBVIOUS
<1>1. ASSUME UNCHANGED <<epoch, epochOf, msgOf>>,
             \A q \in Reqs : pc'[q] = "verified" <=> pc[q] = "verified"
      PROVE  UNCHANGED Admitted
  BY <1>1 DEF Admitted, Current
<1>2. ASSUME NEW r \in Reqs, NEW m \in Msgs, Arrive(r, m) PROVE UNCHANGED Admitted
  BY <1>2 DEF Arrive, Goto, Admitted, Current, AuthTyped, AuthTypeOK, processVars
<1>3. ASSUME NEW r \in Reqs, ArriveMalformed(r) PROVE UNCHANGED Admitted
  BY <1>3 DEF ArriveMalformed, Goto, Admitted, Current, AuthTyped, AuthTypeOK, processVars
<1>4. ASSUME NEW d \in Deployments, Restart(d) PROVE [Gate!Next]_Admitted
  <2>1. CASE Durable
    BY <1>4, <2>1 DEF Restart, StoresSurvive, Admitted, Current, AuthTyped, AuthTypeOK, Awaiting
  <2>2. CASE ~Durable
    <3>1. \A q \in Reqs : ~Current(q)'
      BY <1>4, <2>2 DEF Restart, StoresSurvive, Current, AuthSafe, RecordsThePast, AuthTyped, AuthTypeOK
    <3> QED
      BY <2>2, <3>1 DEF Admitted, Gate!Next, Gate!Forget
  <2> QED
    BY <2>1, <2>2
<1>5. ASSUME NEW r \in Reqs, VerifyStep(r) PROVE [Gate!Next]_Admitted
  <2>1. CASE LookupHuman(r)
    BY <2>1, LookupAdmits
  <2>2. CASE \/ RejectSignature(r) \/ ConsumeNonce(r) \/ ConsumeCallId(r)
             \/ NonceStoreFails(r) \/ CallIdStoreFails(r) \/ LookupFails(r)
    <3>1. UNCHANGED <<epoch, epochOf, msgOf>>
      BY <2>2 DEF RejectSignature, ConsumeNonce, ConsumeCallId, NonceStoreFails,
                  CallIdStoreFails, LookupFails, processVars
    <3>2. \A q \in Reqs : pc'[q] = "verified" <=> pc[q] = "verified"
      BY <2>2 DEF RejectSignature, ConsumeNonce, ConsumeCallId, NonceStoreFails,
                  CallIdStoreFails, LookupFails, Goto, AuthTyped, AuthTypeOK
    <3> QED
      BY <1>1, <3>1, <3>2
  <2> QED
    BY <1>5, <2>1, <2>2 DEF VerifyStep
<1>6. ASSUME NEW m \in Msgs, Sign(m) PROVE UNCHANGED Admitted
  BY <1>1, <1>6 DEF Sign, processVars
<1>7. ASSUME NEW a \in Addrs, NEW h \in Humans \cup {NoHuman}, Register(a, h)
      PROVE  UNCHANGED Admitted
  BY <1>1, <1>7 DEF Register, processVars
<1>8. CASE Tick \/ UNCHANGED authVars
  BY <1>1, <1>8 DEF Tick, authVars, processVars
<1> QED
  BY <1>2, <1>3, <1>4, <1>5, <1>6, <1>7, <1>8 DEF AuthNext, ClientStep, WorldStep

\* The verifier is a gate that admits each signed header at most once for as long as
\* its stores last (verify.ts:74-162 with the stores of auth-context.ts:81-84).
THEOREM AuthImplementsGate == AuthSpec => GateSpec
<1>1. AuthInit => Gate!Init
  BY DEF AuthInit, Admitted, Gate!Init
<1> QED
  BY <1>1, AuthInitTyped, AuthStepTyped, AuthInitSafe, AuthStepSafe, AuthStepRefines, PTL
     DEF AuthSpec, GateSpec, Gate!Spec
=============================================================================
