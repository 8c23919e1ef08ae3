------------------------------ MODULE HorsAuth ------------------------------
(***************************************************************************)
(* Verification of a Hors-Authorization header (verify.ts) by a server     *)
(* process that answers many requests at once.                             *)
(*                                                                         *)
(* Each request is a slot.  verifyHorsAuthorization awaits the signature   *)
(* check, both replay stores and the AgentBook lookup, and at each await   *)
(* the event loop runs other requests: every phase below ends at one of    *)
(* those awaits.  Freshness is decided on arrival, the nonce is consumed   *)
(* after the signature check, and the call id after the nonce.             *)
(***************************************************************************)
EXTENDS ReplayStore

CONSTANTS
  Reqs,          \* request slots of the server; each is used for one HTTP request
  Msgs,          \* headers clients sign
  Addrs,         \* agent wallet addresses
  Humans,        \* AgentBook human ids
  Nonces,
  CallIds,
  Deployments,   \* versions of the service the operator may deploy
  Hashes,        \* policy content hashes
  SignerOf,      \* the fields of a signed header ...
  NonceOf,
  CallIdOf,
  SignedHashOf,  \* ... and its policy content hash, ZeroHash when the client pins none
  ServedHashOf,  \* the policy content hash of a deployment, ZeroHash when it pins none
  ZeroHash,
  NoHuman,       \* lookupHuman found no registration
  NoMsg,
  MaxAge,        \* maxAge of validateAgentkitMessage
  MaxSkew,       \* how far a client's clock may be from the server's
  MaxDelay,      \* longest time from arrival to the end of verification
  NonceTTL,      \* lifetimes of the replay store entries
  CallIdTTL,
  Durable,       \* TRUE: config.stores that outlive the process; FALSE: stores it keeps
  StoresReject,  \* TRUE: config.stores whose promises may reject
  MaxTime,       \* bound on the clock
  MaxRestarts    \* bound on the number of restarts

ASSUME ConstantsAssumption ==
  /\ SignerOf \in [Msgs -> Addrs]
  /\ NonceOf \in [Msgs -> Nonces]
  /\ CallIdOf \in [Msgs -> CallIds]
  /\ SignedHashOf \in [Msgs -> Hashes]
  /\ ServedHashOf \in [Deployments -> Hashes]
  /\ ZeroHash \in Hashes
  /\ Deployments # {}
  /\ NoHuman \notin Humans
  /\ NoMsg \notin Msgs
  /\ Durable \in BOOLEAN /\ StoresReject \in BOOLEAN

ASSUME TimingAssumption ==
  /\ MaxAge \in Nat /\ MaxSkew \in Nat /\ MaxDelay \in Nat
  /\ NonceTTL \in Nat \ {0} /\ CallIdTTL \in Nat \ {0}
  /\ MaxTime \in Nat /\ MaxRestarts \in Nat

\* The lifetime of a consumed nonce covers every instant at which a copy of the
\* same header can still reach the store: 600 s against a 300 s maxAge.
ASSUME NonceOutlivesHeader == NonceTTL > MaxAge + MaxSkew + MaxDelay

VARIABLES
  now,         \* the server's clock
  issuedAt,    \* the issuedAt field of each signed header
  signed,      \* headers clients have signed so far
  agentBook,   \* the human each address is registered to
  deployment,  \* the deployment that is running
  epoch,       \* how many times the process has restarted
  nonceStore,
  callIdStore,
  pc,          \* the phase of each request
  msgOf,       \* the header it carries
  arrivedAt,   \* when it arrived
  epochOf,     \* the process that serves it
  spentAt,     \* when it consumed its call id
  humanOf      \* callerHumanId

clientVars == <<issuedAt, signed>>
storeVars  == <<nonceStore, callIdStore>>
processVars == <<deployment, epoch>>
authVars ==
  <<now, clientVars, agentBook, processVars, storeVars,
    pc, msgOf, arrivedAt, epochOf, spentAt, humanOf>>

\* "signature": awaiting verifyAgentkitSignature; "nonce": the nonce is consumed;
\* "callId": the call id is consumed too and the lookup is pending.
Awaiting == {"signature", "nonce", "callId"}

\* "refused": malformed, stale or badly signed; "nonceReplay", "callIdReplay": a store
\* already held the key; "unbound": wrong policy hash or no AgentBook registration.
Rejected == {"refused", "nonceReplay", "callIdReplay", "unbound"}

\* The lookup, the nonce store or the call-id store threw: not HORSErrors.
Faulted == {"faulted", "nonceFailed", "callIdFailed"}

\* "lost": the process stopped under the request.
Phases == {"idle", "verified", "lost"} \cup Awaiting \cup Rejected \cup Faulted

AuthTypeOK ==
  /\ now \in Nat
  /\ issuedAt \in [Msgs -> Int]
  /\ signed \subseteq Msgs
  /\ agentBook \in [Addrs -> Humans \cup {NoHuman}]
  /\ deployment \in Deployments
  /\ epoch \in Nat
  /\ nonceStore \in [Nonces -> Nat]
  /\ callIdStore \in [CallIds -> Nat]
  /\ pc \in [Reqs -> Phases]
  /\ msgOf \in [Reqs -> Msgs \cup {NoMsg}]
  /\ arrivedAt \in [Reqs -> Nat]
  /\ epochOf \in [Reqs -> Nat]
  /\ spentAt \in [Reqs -> Nat]
  /\ humanOf \in [Reqs -> Humans \cup {NoHuman}]

AuthInit ==
  /\ now = 0
  /\ issuedAt = [m \in Msgs |-> 0]
  /\ signed = {}
  /\ agentBook \in [Addrs -> Humans \cup {NoHuman}]
  /\ deployment \in Deployments
  /\ epoch = 0
  /\ nonceStore = EmptyStore(Nonces)
  /\ callIdStore = EmptyStore(CallIds)
  /\ pc = [r \in Reqs |-> "idle"]
  /\ msgOf = [r \in Reqs |-> NoMsg]
  /\ arrivedAt = [r \in Reqs |-> 0]
  /\ epochOf = [r \in Reqs |-> 0]
  /\ spentAt = [r \in Reqs |-> 0]
  /\ humanOf = [r \in Reqs |-> NoHuman]

-----------------------------------------------------------------------------
(***************************************************************************)
(* Clients and the world.                                                  *)
(***************************************************************************)

\* signHorsAuthorization: a header gets its issuedAt from the client's clock.
Sign(m) ==
  /\ m \notin signed
  /\ signed' = signed \cup {m}
  /\ \E skew \in -MaxSkew .. MaxSkew :
       issuedAt' = [issuedAt EXCEPT ![m] = now + skew]
  /\ UNCHANGED <<now, agentBook, processVars, storeVars,
                 pc, msgOf, arrivedAt, epochOf, spentAt, humanOf>>

\* The AgentBook contract registers an address, moves it or drops it.
Register(a, h) ==
  /\ agentBook[a] # h
  /\ agentBook' = [agentBook EXCEPT ![a] = h]
  /\ UNCHANGED <<now, clientVars, processVars, storeVars,
                 pc, msgOf, arrivedAt, epochOf, spentAt, humanOf>>

-----------------------------------------------------------------------------
(***************************************************************************)
(* verifyHorsAuthorization, one action per stretch between two awaits.     *)
(***************************************************************************)

Goto(r, phase) == pc' = [pc EXCEPT ![r] = phase]

\* Mutant: the age of a header is not looked at.
FreshAlways(m) == TRUE

\* validateAgentkitMessage with maxAge, and expirationTime = issuedAt + 5 min:
\* nothing is relied on for a header whose issuedAt is ahead of this clock.
Fresh(m) == now <= issuedAt[m] + MaxAge

\* The header is parsed and its age checked before the first await.  Any request
\* may carry a copy of a header some other request carried.
Arrive(r, m) ==
  /\ pc[r] = "idle"
  /\ m \in signed
  /\ Goto(r, IF Fresh(m) THEN "signature" ELSE "refused")
  /\ msgOf' = [msgOf EXCEPT ![r] = m]
  /\ arrivedAt' = [arrivedAt EXCEPT ![r] = now]
  /\ epochOf' = [epochOf EXCEPT ![r] = epoch]
  /\ UNCHANGED <<now, clientVars, agentBook, processVars, storeVars, spentAt, humanOf>>

\* parseAgentkitHeader throws, or the URI is not a hors:// URI of this domain.
ArriveMalformed(r) ==
  /\ pc[r] = "idle"
  /\ Goto(r, "refused")
  /\ epochOf' = [epochOf EXCEPT ![r] = epoch]
  /\ UNCHANGED <<now, clientVars, agentBook, processVars, storeVars,
                 msgOf, arrivedAt, spentAt, humanOf>>

\* verifyAgentkitSignature fails, or parseHorsResources throws: no store is touched.
RejectSignature(r) ==
  /\ pc[r] = "signature"
  /\ Goto(r, "refused")
  /\ UNCHANGED <<now, clientVars, agentBook, processVars, storeVars,
                 msgOf, arrivedAt, epochOf, spentAt, humanOf>>

\* The signature is good: nonceStore.consume(`nonce:${payload.nonce}`).
ConsumeNonce(r) ==
  LET nonce == NonceOf[msgOf[r]] IN
  /\ pc[r] = "signature"
  /\ Goto(r, IF Holds(nonceStore, nonce, now) THEN "nonceReplay" ELSE "nonce")
  /\ nonceStore' = Consume(nonceStore, nonce, now, NonceTTL)
  /\ UNCHANGED <<now, clientVars, agentBook, processVars, callIdStore,
                 msgOf, arrivedAt, epochOf, spentAt, humanOf>>

\* callIdStore.consume(`callid:${resources.callId}`).
ConsumeCallId(r) ==
  LET callId == CallIdOf[msgOf[r]] IN
  /\ pc[r] = "nonce"
  /\ IF Holds(callIdStore, callId, now)
       THEN Goto(r, "callIdReplay") /\ UNCHANGED spentAt
       ELSE Goto(r, "callId") /\ spentAt' = [spentAt EXCEPT ![r] = now]
  /\ callIdStore' = Consume(callIdStore, callId, now, CallIdTTL)
  /\ UNCHANGED <<now, clientVars, agentBook, processVars, nonceStore,
                 msgOf, arrivedAt, epochOf, humanOf>>

\* A store of config.stores rejects, whether or not it has recorded the entry.  The
\* in-memory defaults do not.
NonceStoreFails(r) ==
  LET nonce == NonceOf[msgOf[r]] IN
  /\ StoresReject
  /\ pc[r] = "signature"
  /\ Goto(r, "nonceFailed")
  /\ nonceStore' \in {nonceStore, Consume(nonceStore, nonce, now, NonceTTL)}
  /\ UNCHANGED <<now, clientVars, agentBook, processVars, callIdStore,
                 msgOf, arrivedAt, epochOf, spentAt, humanOf>>

CallIdStoreFails(r) ==
  LET callId == CallIdOf[msgOf[r]] IN
  /\ StoresReject
  /\ pc[r] = "nonce"
  /\ Goto(r, "callIdFailed")
  /\ callIdStore' \in {callIdStore, Consume(callIdStore, callId, now, CallIdTTL)}
  /\ UNCHANGED <<now, clientVars, agentBook, processVars, nonceStore,
                 msgOf, arrivedAt, epochOf, spentAt, humanOf>>

\* assertPolicyHash: a deployment that pins a policy requires its hash.
PolicyHashAccepted(m) ==
  LET served == ServedHashOf[deployment] IN
  served = ZeroHash \/ SignedHashOf[m] = served

\* assertPolicyHash, then lookupHuman: both stores keep what was consumed when
\* either of them refuses the header.
LookupHuman(r) ==
  LET human == agentBook[SignerOf[msgOf[r]]] IN
  /\ pc[r] = "callId"
  /\ IF PolicyHashAccepted(msgOf[r]) /\ human # NoHuman
       THEN Goto(r, "verified") /\ humanOf' = [humanOf EXCEPT ![r] = human]
       ELSE Goto(r, "unbound") /\ UNCHANGED humanOf
  /\ UNCHANGED <<now, clientVars, agentBook, processVars, storeVars,
                 msgOf, arrivedAt, epochOf, spentAt>>

\* The AgentBook RPC throws: not a HORSError, so the wrapper rethrows it.
LookupFails(r) ==
  /\ pc[r] = "callId"
  /\ PolicyHashAccepted(msgOf[r])
  /\ Goto(r, "faulted")
  /\ UNCHANGED <<now, clientVars, agentBook, processVars, storeVars,
                 msgOf, arrivedAt, epochOf, spentAt, humanOf>>

-----------------------------------------------------------------------------
(***************************************************************************)
(* The process and the clock.                                              *)
(***************************************************************************)

\* What the stores hold after a restart.
StoresSurvive ==
  IF Durable
    THEN UNCHANGED storeVars
    ELSE /\ nonceStore' = EmptyStore(Nonces)
         /\ callIdStore' = EmptyStore(CallIds)

\* The process stops, and a process of a possibly different deployment takes its
\* place.  Requests it was serving get no answer.
Restart(d) ==
  /\ epoch < MaxRestarts
  /\ epoch' = epoch + 1
  /\ deployment' = d
  /\ pc' = [r \in Reqs |-> IF pc[r] \in Awaiting THEN "lost" ELSE pc[r]]
  /\ StoresSurvive
  /\ UNCHANGED <<now, clientVars, agentBook, msgOf, arrivedAt, epochOf, spentAt, humanOf>>

\* Time passes; a request spends at most MaxDelay in verification.
Tick ==
  /\ now < MaxTime
  /\ \A r \in Reqs : pc[r] \in Awaiting => now < arrivedAt[r] + MaxDelay
  /\ now' = now + 1
  /\ UNCHANGED <<clientVars, agentBook, processVars, storeVars,
                 pc, msgOf, arrivedAt, epochOf, spentAt, humanOf>>

VerifyStep(r) ==
  \/ RejectSignature(r)
  \/ ConsumeNonce(r)
  \/ ConsumeCallId(r)
  \/ LookupHuman(r)
  \/ NonceStoreFails(r)
  \/ CallIdStoreFails(r)
  \/ LookupFails(r)

ClientStep ==
  \/ \E m \in Msgs : Sign(m)
  \/ \E r \in Reqs, m \in Msgs : Arrive(r, m)
  \/ \E r \in Reqs : ArriveMalformed(r)

WorldStep ==
  \/ \E a \in Addrs, h \in Humans \cup {NoHuman} : Register(a, h)
  \/ \E d \in Deployments : Restart(d)
  \/ Tick

AuthNext ==
  \/ ClientStep
  \/ WorldStep
  \/ \E r \in Reqs : VerifyStep(r)

AuthSpec == AuthInit /\ [][AuthNext]_authVars

-----------------------------------------------------------------------------
(***************************************************************************)
(* Properties.                                                             *)
(***************************************************************************)

\* Two requests that were checked against the same contents of the stores.
SameStores(q, r) == Durable \/ epochOf[q] = epochOf[r]

\* The request consumed its nonce, and its call id, whatever became of it later.
SpentNonce(r) ==
  pc[r] \in {"nonce", "callIdReplay", "callIdFailed", "callId", "unbound", "faulted", "verified"}
SpentCallId(r) ==
  pc[r] \in {"callId", "unbound", "faulted", "verified"}

\* A signed header gets past the nonce store once, however many copies of it arrive,
\* however their verification interleaves and however long it takes; a header whose
\* lookup or call-id store failed after that point is spent for good (verify.ts consumes
\* the nonce before it knows whether the call will be admitted).
HeaderSpentOnce ==
  \A q, r \in Reqs :
    /\ q # r
    /\ msgOf[q] = msgOf[r]
    /\ SameStores(q, r)
    => ~(SpentNonce(q) /\ SpentNonce(r))

\* Two calls that carry the same call id are a full call-id lifetime apart, also when
\* a client signs it into headers with different nonces.
CallIdWindow ==
  \A q, r \in Reqs :
    /\ q # r
    /\ SpentCallId(q) /\ SpentCallId(r)
    /\ CallIdOf[msgOf[q]] = CallIdOf[msgOf[r]]
    /\ SameStores(q, r)
    => \/ spentAt[q] + CallIdTTL <= spentAt[r]
       \/ spentAt[r] + CallIdTTL <= spentAt[q]

-----------------------------------------------------------------------------
(***************************************************************************)
(* The inductive invariant behind the two safety properties.               *)
(***************************************************************************)

\* The stores that hold what r consumed are the ones in use.
Current(r) == Durable \/ epochOf[r] = epoch

\* The last instant at which a copy of header m can reach the nonce store.
Deadline(m) == issuedAt[m] + MaxAge + MaxDelay

\* A header was signed by a clock at most MaxSkew ahead.
SkewBounded == \A m \in signed : issuedAt[m] <= now + MaxSkew

\* A request in verification belongs to this process, arrived with a fresh header and
\* is not late.
InFlightTimely ==
  \A r \in Reqs : pc[r] \in Awaiting =>
    /\ epochOf[r] = epoch
    /\ arrivedAt[r] <= issuedAt[msgOf[r]] + MaxAge
    /\ now <= arrivedAt[r] + MaxDelay

\* A request past its arrival carries a header some client signed.
CarriesHeader ==
  \A r \in Reqs : pc[r] \in Awaiting \/ SpentNonce(r) => msgOf[r] \in signed

\* What a request records lies in the past.
RecordsThePast ==
  \A r \in Reqs : (SpentCallId(r) => spentAt[r] <= now) /\ epochOf[r] <= epoch

\* As long as a copy of a consumed header can still be accepted, the store holds its
\* nonce: the in-memory entry outlives every header that carries it.
NonceRemembered ==
  \A r \in Reqs :
    SpentNonce(r) /\ Current(r) =>
      \/ now > Deadline(msgOf[r])
      \/ nonceStore[NonceOf[msgOf[r]]] > Deadline(msgOf[r])

\* A consumed call id is held for its whole lifetime.
CallIdRemembered ==
  \A r \in Reqs :
    SpentCallId(r) /\ Current(r) =>
      \/ now >= spentAt[r] + CallIdTTL
      \/ callIdStore[CallIdOf[msgOf[r]]] >= spentAt[r] + CallIdTTL

AuthIInv ==
  /\ AuthTypeOK
  /\ SkewBounded
  /\ CarriesHeader
  /\ InFlightTimely
  /\ RecordsThePast
  /\ NonceRemembered
  /\ CallIdRemembered
  /\ HeaderSpentOnce
  /\ CallIdWindow

-----------------------------------------------------------------------------
(***************************************************************************)
(* What the verifier promises: HorsGate.                                   *)
(***************************************************************************)
Admitted == {<<r, msgOf[r]>> : r \in {q \in Reqs : pc[q] = "verified" /\ Current(q)}}

Gate == INSTANCE HorsGate WITH Requests <- Reqs, Calls <- Msgs, admitted <- Admitted

\* Of all the copies of a signed header verification admits at most one for as long as
\* its stores last, and what it admitted it never takes back (verify.ts with the stores
\* of buildAuthContext implements the abstract gate).
GateSpec == Gate!Spec
=============================================================================
