-------------------------- MODULE HorsServerProofs --------------------------
(***************************************************************************)
(* TLAPS proofs about HorsServer, for any requests, headers, tools,        *)
(* deployments and policies and for every timing that satisfies the        *)
(* assumptions of HorsAuth and StepUpOutlivesState.                        *)
(*                                                                         *)
(* Verification inside the server is the verification of HorsAuth, so its  *)
(* invariant carries over.  On top of it: a wrapper that is as far as its  *)
(* verification, states that bind the call they were minted for, and a     *)
(* step-up store that remembers a redeemed state for as long as it can be  *)
(* presented.                                                              *)
(***************************************************************************)
EXTENDS HorsServer, HorsAuthProofs, HorsPolicyProofs

-----------------------------------------------------------------------------
(***************************************************************************)
(* The server verifies headers as HorsAuth does.                           *)
(***************************************************************************)

\* Whatever the server does, what it does to a header is a step of HorsAuth.
LEMMA ServerStepVerifies == AuthTyped /\ [Next]_vars => [AuthNext]_authVars
<1> SUFFICES ASSUME AuthTyped, [Next]_vars
             PROVE  [AuthNext]_authVars
  OBVIOUS
<1> USE DEF AuthNext, ClientStep, WorldStep
<1>1. ASSUME NEW m \in Msgs, Sign(m) PROVE AuthNext
  BY <1>1
<1>2. ASSUME NEW a \in Addrs, NEW h \in Humans \cup {NoHuman}, Register(a, h) PROVE AuthNext
  BY <1>2
<1>3. ASSUME NEW r \in Reqs, NEW m \in signed \cup {NoMsg}, NEW f \in Fns, NEW a \in ArgVals,
             NEW q \in Reqs \cup {NoReq}, NEW ans, Invoke(r, m, f, a, q, ans)
      PROVE  [AuthNext]_authVars
  <2>1. CASE Arrive(r, m)
    BY <2>1 DEF Arrive, AuthTyped, AuthTypeOK
  <2> QED
    BY <1>3, <2>1 DEF Invoke
<1>4. ASSUME NEW r \in Reqs, NEW f \in Fns, InvokeMalformed(r, f) PROVE AuthNext
  BY <1>4 DEF InvokeMalformed
<1>5. ASSUME NEW d \in Deployments, RestartServer(d) PROVE AuthNext
  BY <1>5 DEF RestartServer
<1>6. CASE TickServer
  BY <1>6 DEF TickServer
<1>7. ASSUME NEW r \in Reqs, Verify(r) PROVE AuthNext
  BY <1>7 DEF Verify
<1>8. ASSUME NEW r \in Reqs, Decide(r) \/ Reenter(r) \/ AcceptProof(r) \/ RefuseProof(r)
      PROVE  UNCHANGED authVars
  BY <1>8 DEF Decide, Reenter, AcceptProof, RefuseProof
<1>9. ASSUME NEW r \in Reqs, NEW how, Return(r, how) PROVE UNCHANGED authVars
  BY <1>9 DEF Return
<1>10. ASSUME NEW q \in Reqs, NEW h \in Humans, Complete(q, h) PROVE UNCHANGED authVars
  BY <1>10 DEF Complete
<1>11. CASE UNCHANGED vars
  BY <1>11 DEF vars
<1> QED
  BY <1>1, <1>2, <1>3, <1>4, <1>5, <1>6, <1>7, <1>8, <1>9, <1>10, <1>11
     DEF Next, World, Serve

\* The server verifies headers as HorsAuth specifies: challenges, resumes, proofs and
\* handler runs add no way around it (hors.ts calls verifyHorsAuthorization once per
\* request that carries a header, before anything else).
THEOREM ServerVerifiesHeaders == Spec => AuthSpec
<1>1. Init => AuthInit
  BY DEF Init
<1> QED
  BY <1>1, AuthInitTyped, AuthStepTyped, ServerStepVerifies, PTL DEF Spec, AuthSpec

-----------------------------------------------------------------------------
(***************************************************************************)
(* What no step takes back.                                                *)
(***************************************************************************)

\* What a request carries is fixed when it arrives, and what verification found stays.
HeadersStay ==
  /\ now <= now' /\ epoch <= epoch'
  /\ \A r \in Reqs :
       /\ pc[r] # "idle" =>
            /\ pc'[r] # "idle"
            /\ msgOf'[r] = msgOf[r]
            /\ arrivedAt'[r] = arrivedAt[r]
            /\ epochOf'[r] = epochOf[r]
       /\ pc[r] = "verified" => pc'[r] = "verified" /\ humanOf'[r] = humanOf[r]

LEMMA AuthStepKeeps ==
  ASSUME AuthTyped, [AuthNext]_authVars
  PROVE  HeadersStay
<1> USE DEF HeadersStay, AuthTyped, AuthTypeOK, Goto, clientVars, processVars, storeVars
<1>1. ASSUME NEW m \in Msgs, Sign(m) PROVE UNCHANGED <<now, epoch, pc, msgOf, arrivedAt, epochOf, humanOf>>
  BY <1>1 DEF Sign
<1>2. ASSUME NEW a \in Addrs, NEW h, Register(a, h)
      PROVE  UNCHANGED <<now, epoch, pc, msgOf, arrivedAt, epochOf, humanOf>>
  BY <1>2 DEF Register
<1>3. CASE \E r \in Reqs : ArriveMalformed(r) \/ \E m \in Msgs : Arrive(r, m)
  BY <1>3 DEF Arrive, ArriveMalformed
<1>4. CASE \E r \in Reqs : VerifyStep(r)
  BY <1>4 DEF VerifyStep, RejectSignature, ConsumeNonce, ConsumeCallId, LookupHuman,
              NonceStoreFails, CallIdStoreFails, LookupFails, Phases, Faulted
<1>5. CASE \E d \in Deployments : Restart(d)
  BY <1>5 DEF Restart, StoresSurvive, Awaiting
<1>6. CASE Tick
  BY <1>6 DEF Tick
<1>7. CASE UNCHANGED authVars
  BY <1>7 DEF authVars
<1> QED
  BY <1>1, <1>2, <1>3, <1>4, <1>5, <1>6, <1>7 DEF AuthNext, ClientStep, WorldStep

\* The parts of the type invariant that say the variables of the wrapper are functions.
ServerShape ==
  /\ DOMAIN stage = Reqs /\ stage = [r \in Reqs |-> stage[r]]
  /\ DOMAIN call = Reqs /\ call = [r \in Reqs |-> call[r]]
  /\ DOMAIN state = Reqs /\ state = [r \in Reqs |-> state[r]]
  /\ DOMAIN run = Reqs /\ run = [r \in Reqs |-> run[r]]
  /\ DOMAIN reply = Reqs /\ reply = [r \in Reqs |-> reply[r]]

LEMMA TypedHasShape == TypeOK => ServerShape
BY DEF TypeOK, ServerShape

\* A request is invoked once, a state is minted once, a run is started once and an answer
\* is final; proofs stay.
Keeps ==
  /\ completed \subseteq completed'
  /\ \A r \in Reqs :
       /\ stage[r] # "idle" => stage'[r] # "idle" /\ call'[r] = call[r]
       /\ stage[r] = "done" =>
            stage'[r] = "done" /\ reply'[r] = reply[r] /\ run'[r] = run[r]
       /\ state[r].minted => state'[r] = state[r]
       /\ run[r].started => run'[r] = run[r]

LEMMA ServerStepKeeps ==
  ASSUME TypeOK, StageFollowsPhase, StatesBindCalls, [Next]_vars
  PROVE  Keeps
<1> USE TypedHasShape DEF ServerShape, StageFollowsPhase, StatesBindCalls, Keeps,
                          Answer, StartHandler, serverVars
<1>1. ASSUME NEW r \in Reqs, NEW m, NEW f \in Fns, NEW a \in ArgVals,
             NEW q \in Reqs \cup {NoReq}, NEW ans, Invoke(r, m, f, a, q, ans)
      PROVE  Keeps
  BY <1>1 DEF Invoke
<1>2. ASSUME NEW r \in Reqs, NEW f \in Fns, InvokeMalformed(r, f) PROVE Keeps
  BY <1>2 DEF InvokeMalformed
<1>3. ASSUME NEW r \in Reqs, Verify(r) PROVE Keeps
  BY <1>3 DEF Verify
<1>4. ASSUME NEW r \in Reqs, Decide(r) PROVE Keeps
  BY <1>4 DEF Decide, MintState
<1>5. ASSUME NEW r \in Reqs, Reenter(r) PROVE Keeps
  BY <1>5 DEF Reenter
<1>6. ASSUME NEW r \in Reqs, AcceptProof(r) PROVE Keeps
  BY <1>6 DEF AcceptProof
<1>7. ASSUME NEW r \in Reqs, RefuseProof(r) PROVE Keeps
  BY <1>7 DEF RefuseProof
<1>8. ASSUME NEW r \in Reqs, NEW how, Return(r, how) PROVE Keeps
  BY <1>8 DEF Return
<1>9. ASSUME NEW q \in Reqs, NEW h \in Humans, Complete(q, h) PROVE Keeps
  BY <1>9 DEF Complete
<1>10. ASSUME NEW d \in Deployments, RestartServer(d) PROVE Keeps
  BY <1>10 DEF RestartServer
<1>11. ASSUME UNCHANGED serverVars PROVE Keeps
  BY <1>11
<1> QED
  BY <1>1, <1>2, <1>3, <1>4, <1>5, <1>6, <1>7, <1>8, <1>9, <1>10, <1>11
     DEF Next, World, Serve, TickServer, vars

-----------------------------------------------------------------------------
(***************************************************************************)
(* Type correctness.                                                       *)
(***************************************************************************)

\* The header of an admitted request, and of the request a state was minted by.
LEMMA CarriedTyped ==
  ASSUME AuthTyped, NEW r \in Reqs, pc[r] = "verified"
  PROVE  /\ msgOf[r] \in signed /\ msgOf[r] \in Msgs
         /\ CallIdOf[msgOf[r]] \in CallIds
         /\ FnOf[msgOf[r]] \in Fns /\ ArgsOf[msgOf[r]] \in ArgVals
BY ConstantsAssumption, ServerAssumption
   DEF AuthTyped, AuthTypeOK, CarriesHeader, SpentNonce

\* What a started run and a minted state are.
LEMMA RunRecordTyped ==
  ASSUME NEW q \in Reqs \cup {NoReq}, NEW d \in Deployments
  PROVE  [started |-> TRUE, of |-> q, deployment |-> d] \in RunRecords
BY DEF RunRecords

LEMMA StartedTyped ==
  ASSUME TypeOK, NEW r \in Reqs, run[r].started
  PROVE  run[r] \in RunRecords
<1>1. run[r] # NoRun
  <2>1. NoRun.started = FALSE
    BY DEF NoRun
  <2> QED
    BY <2>1, Zenon
<1>2. run[r] \in {NoRun} \cup RunRecords
  BY DEF TypeOK
<1> QED
  BY <1>1, <1>2

LEMMA MintedTyped ==
  ASSUME TypeOK, NEW q \in Reqs, state[q].minted
  PROVE  state[q] \in StateRecords
<1>1. state[q] # NoState
  <2>1. NoState.minted = FALSE
    BY DEF NoState
  <2> QED
    BY <2>1, Zenon
<1>2. state[q] \in {NoState} \cup StateRecords
  BY DEF TypeOK
<1> QED
  BY <1>1, <1>2

LEMMA ServerInitTyped == Init => TypeOK
<1> SUFFICES ASSUME Init PROVE TypeOK
  OBVIOUS
<1>1. AuthTypeOK
  BY AuthInitTyped DEF Init, AuthTyped
<1>2. NoCall \in CallRecords
  BY ServerAssumption DEF NoCall, CallRecords
<1> QED
  BY <1>1, <1>2, EmptyStoreType DEF Init, TypeOK, Stages, Replies

\* The parts of the invariant the proof that types are kept rests on.
ServerTyped ==
  /\ TypeOK /\ CarriesHeader
  /\ StageFollowsPhase /\ StatesBindCalls /\ ResumesAccepted /\ ProvingMatches

LEMMA ServerStepTyped ==
  ASSUME ServerTyped, [Next]_vars
  PROVE  TypeOK'
<1> DEFINE Typed ==
      /\ stage \in [Reqs -> Stages]
      /\ call \in [Reqs -> CallRecords]
      /\ state \in [Reqs -> {NoState} \cup StateRecords]
      /\ run \in [Reqs -> {NoRun} \cup RunRecords]
      /\ reply \in [Reqs -> Replies]
      /\ completed \subseteq UNION {ProofsOf(q) : q \in {r \in Reqs : state[r].minted}}
      /\ stepUpStore \in [CallIds -> Nat]
      /\ nullifierStore \in [NullifierKeys -> Nat]
<1>0. AuthTyped /\ Typed /\ deployment \in Deployments /\ now \in Nat /\ epoch \in Nat
  BY DEF ServerTyped, TypeOK, AuthTyped, AuthTypeOK
<1> HIDE DEF Typed
<1> SUFFICES Typed'
  BY <1>0, ServerStepVerifies, AuthStepTyped DEF Typed, TypeOK, AuthTyped
<1>1. ASSUME NEW r \in Reqs, NEW m \in signed \cup {NoMsg}, NEW f \in Fns, NEW a \in ArgVals,
             NEW q \in Reqs \cup {NoReq}, NEW ans \in {NoAnswer, Declined} \cup completed,
             Invoke(r, m, f, a, q, ans)
      PROVE  Typed'
  <2>1. [fn |-> f, args |-> a, from |-> q, answer |-> ans] \in CallRecords
    BY <1>1 DEF CallRecords
  <2>2. call' \in [Reqs -> CallRecords']
    BY <1>0, <1>1, <2>1 DEF Typed, Invoke, CallRecords
  <2>3. run' \in [Reqs -> {NoRun} \cup RunRecords]
    BY <1>0, <1>1, RunRecordTyped DEF Typed, Invoke, StartHandler
  <2>4. stage' \in [Reqs -> Stages] /\ reply' \in [Reqs -> Replies]
    BY <1>0, <1>1 DEF Typed, Invoke, Answer, StartHandler, Stages, Replies, Results
  <2> QED
    BY <1>0, <1>1, <2>2, <2>3, <2>4 DEF Typed, Invoke
<1>2. ASSUME NEW r \in Reqs, NEW f \in Fns, InvokeMalformed(r, f) PROVE Typed'
  BY <1>0, <1>2 DEF Typed, InvokeMalformed, Answer, CallRecords, Stages, Replies, Results
<1>3. ASSUME NEW r \in Reqs, Verify(r) PROVE Typed'
  BY <1>0, <1>3 DEF Typed, Verify, Answer, CallRecords, Stages, Replies, Results, Thrown
<1>4. ASSUME NEW r \in Reqs, Decide(r) PROVE Typed'
  <2> DEFINE decision == evaluatePolicy(PolicyFor(call[r].fn), humanOf[r], Owner, <<>>)
  <2>1. call[r].fn \in Fns /\ ValidPolicy(PolicyFor(call[r].fn))
    BY <1>0, ServerAssumption DEF Typed, CallRecords, PolicyFor
  <2>2. /\ humanOf[r] \in Humans /\ ArgsOf[msgOf[r]] \in ArgVals
        /\ Attributes(PolicyFor(call[r].fn)) \in AttributeLists
    BY <1>0, <1>4, <2>1, CarriedTyped
       DEF Decide, ServerTyped, StageFollowsPhase, AttributeLists, PolicyFor
  <2>3. ASSUME decision.status = "step-up-required", MintState(r, decision.required)
        PROVE  /\ state' \in [Reqs -> {NoState} \cup StateRecords]
               /\ \A q \in Reqs : state[q].minted => state'[q].minted
    <3>1. decision.required \in Levels
      BY <2>1, <2>3, StepUpNamesLevel
    <3>2. now + StateTTL \in Nat
      BY <1>0, ServerAssumption
    <3> QED
      BY <1>0, <2>1, <2>2, <2>3, <3>1, <3>2 DEF Typed, MintState, StateRecords
  <2>4. UNCHANGED state \/ (decision.status = "step-up-required" /\ MintState(r, decision.required))
    BY <1>4 DEF Decide
  <2>5. /\ state' \in [Reqs -> {NoState} \cup StateRecords]
        /\ completed' \subseteq UNION {ProofsOf(q) : q \in {s \in Reqs : state'[s].minted}}
    BY <1>0, <1>4, <2>3, <2>4 DEF Typed, Decide
  <2>6. run' \in [Reqs -> {NoRun} \cup RunRecords]
    BY <1>0, <1>4, RunRecordTyped DEF Typed, Decide, StartHandler
  <2>7. stage' \in [Reqs -> Stages] /\ reply' \in [Reqs -> Replies]
    BY <1>0, <1>4 DEF Typed, Decide, Answer, StartHandler, Stages, Replies, Results
  <2> QED
    BY <1>0, <1>4, <2>5, <2>6, <2>7 DEF Typed, Decide, CallRecords
<1>5. ASSUME NEW r \in Reqs, Reenter(r) PROVE Typed'
  <2>1. StepUpKey(r) \in CallIds
    BY <1>0, <1>5, CarriedTyped
       DEF Typed, CallRecords, Reenter, StepUpKey, ServerTyped, StatesBindCalls, ResumesAccepted
  <2>2. stepUpStore' \in [CallIds -> Nat]
    <3>1. Consume(stepUpStore, StepUpKey(r), now, StepUpTTL) \in [CallIds -> Nat]
      BY <1>0, <2>1, ConsumeType, ServerAssumption DEF Typed
    <3> QED
      BY <1>0, <1>5, <3>1 DEF Typed, Reenter
  <2>3. stage' \in [Reqs -> Stages] /\ reply' \in [Reqs -> Replies]
    BY <1>0, <1>5 DEF Typed, Reenter, Answer, Stages, Replies, Results, Thrown
  <2> QED
    BY <1>0, <1>5, <2>2, <2>3 DEF Typed, Reenter, CallRecords
<1>a. ASSUME NEW r \in Reqs, stage[r] = "proving"
      PROVE  Consume(nullifierStore, Nullifier(r), now, NullifierTTL) \in [NullifierKeys -> Nat]
  <2> DEFINE proof == call[r].answer
  <2>1. PICK q \in Reqs : state[q].minted /\ proof \in ProofsOf(q)
    BY <1>0, <1>a DEF Typed, ServerTyped, ProvingMatches
  <2>2. proof.of = q /\ proof.human \in Humans
    BY <2>1 DEF ProofsOf
  <2>3. state[q].level \in Levels
    BY <2>1, MintedTyped DEF ServerTyped, StateRecords
  <2>4. CallIdOf[msgOf[q]] \in CallIds
    BY <1>0, <2>1, CarriedTyped DEF ServerTyped, StatesBindCalls
  <2>5. Nullifier(r) \in NullifierKeys
    BY <2>2, <2>3, <2>4 DEF Nullifier, Action, Actions, NullifierKeys
  <2> QED
    BY <1>0, <2>5, ConsumeType, ServerAssumption DEF Typed
<1>6. ASSUME NEW r \in Reqs, AcceptProof(r) PROVE Typed'
  <2>1. nullifierStore' \in [NullifierKeys -> Nat]
    BY <1>0, <1>6, <1>a DEF Typed, AcceptProof
  <2>2. run' \in [Reqs -> {NoRun} \cup RunRecords]
    <3>1. call[r].from \in Reqs \cup {NoReq}
      BY <1>0 DEF Typed, CallRecords
    <3> QED
      BY <1>0, <1>6, <3>1, RunRecordTyped DEF Typed, AcceptProof, StartHandler
  <2>3. stage' \in [Reqs -> Stages] /\ reply' \in [Reqs -> Replies]
    BY <1>0, <1>6 DEF Typed, AcceptProof, Answer, StartHandler, Stages, Replies, Results, Thrown
  <2> QED
    BY <1>0, <1>6, <2>1, <2>2, <2>3 DEF Typed, AcceptProof, CallRecords
<1>7. ASSUME NEW r \in Reqs, RefuseProof(r) PROVE Typed'
  <2>1. nullifierStore' \in [NullifierKeys -> Nat]
    BY <1>0, <1>7, <1>a DEF Typed, RefuseProof
  <2> QED
    BY <1>0, <1>7, <2>1 DEF Typed, RefuseProof, Answer, CallRecords, Stages, Replies, Thrown
<1>8. ASSUME NEW r \in Reqs, NEW how \in {"executed", "withheld", "handlerThrew"}, Return(r, how)
      PROVE  Typed'
  BY <1>0, <1>8 DEF Typed, Return, Answer, CallRecords, Stages, Replies, Results, Thrown
<1>9. ASSUME NEW q \in Reqs, NEW h \in Humans, Complete(q, h) PROVE Typed'
  BY <1>0, <1>9 DEF Typed, Complete, CallRecords, ProofsOf
<1>10. ASSUME NEW d \in Deployments, RestartServer(d) PROVE Typed'
  BY <1>0, <1>10, EmptyStoreType DEF Typed, RestartServer, StepUpsSurvive, CallRecords, Stages
<1>11. ASSUME UNCHANGED serverVars PROVE Typed'
  BY <1>0, <1>11 DEF Typed, serverVars, CallRecords
<1> QED
  BY <1>1, <1>2, <1>3, <1>4, <1>5, <1>6, <1>7, <1>8, <1>9, <1>10, <1>11
     DEF Next, World, Serve, TickServer, vars

-----------------------------------------------------------------------------
(***************************************************************************)
(* The inductive step, one lemma per part of the invariant.                *)
(***************************************************************************)

\* What every step from a state of the invariant may be assumed to do.
LEMMA ServerStep ==
  ASSUME ServerIInv, [Next]_vars
  PROVE  /\ AuthTyped /\ AuthSafe /\ AuthIInv'
         /\ ServerTyped /\ ServerShape /\ TypeOK' /\ ServerShape'
         /\ [AuthNext]_authVars /\ HeadersStay /\ Keeps
<1>1. AuthTyped /\ AuthSafe
  BY DEF ServerIInv, AuthIInv, AuthTyped, AuthSafe
<1>2. [AuthNext]_authVars
  BY <1>1, ServerStepVerifies
<1>3. AuthIInv'
  BY <1>1, <1>2, AuthStepTyped, AuthStepSafe DEF AuthIInv, AuthTyped, AuthSafe
<1>4. ServerTyped /\ HeadersStay /\ Keeps
  BY <1>1, <1>2, AuthStepKeeps, ServerStepKeeps DEF ServerIInv, ServerTyped, AuthTyped
<1>5. TypeOK'
  BY <1>4, ServerStepTyped
<1>6. ServerShape /\ ServerShape'
  BY <1>4, <1>5 DEF ServerTyped, ServerShape, TypeOK
<1> QED
  BY <1>1, <1>2, <1>3, <1>4, <1>5, <1>6

LEMMA StageStep == ServerIInv /\ [Next]_vars => StageFollowsPhase'
<1> SUFFICES ASSUME ServerIInv, [Next]_vars
             PROVE  StageFollowsPhase'
  OBVIOUS
<1>0. ServerShape /\ AuthTypeOK /\ StageFollowsPhase /\ InFlightTimely /\ Keeps
  BY ServerStep DEF ServerIInv, AuthIInv, AuthTyped
<1> USE <1>0, TimingAssumption
        DEF ServerShape, AuthTypeOK, StageFollowsPhase, Answer, StartHandler, Goto, Phases,
            Awaiting, Rejected, Faulted, clientVars, processVars, storeVars, serverVars
<1>1. ASSUME NEW r \in Reqs, NEW m \in signed \cup {NoMsg}, NEW f \in Fns, NEW a \in ArgVals,
             NEW q \in Reqs \cup {NoReq}, NEW ans \in {NoAnswer, Declined} \cup completed,
             Invoke(r, m, f, a, q, ans)
      PROVE  StageFollowsPhase'
  <2>1. stage[r] = "idle" /\ \A s \in Reqs \ {r} : call'[s] = call[s]
    BY <1>1 DEF Invoke
  <2>2. CASE UNCHANGED <<authVars, run>> /\ stage' = [stage EXCEPT ![r] = "done"]
    BY <2>1, <2>2 DEF authVars
  <2>3. CASE UNCHANGED authVars /\ StartHandler(r, NoReq)
    BY <2>1, <2>3 DEF authVars
  <2>4. ASSUME Arrive(r, m), UNCHANGED run,
               stage' = [stage EXCEPT ![r] = IF pc'[r] = "refused" THEN "done" ELSE "auth"]
        PROVE  StageFollowsPhase'
    BY <2>1, <2>4 DEF Arrive
  <2> QED
    BY <1>1, <2>2, <2>3, <2>4 DEF Invoke
<1>2. ASSUME NEW r \in Reqs, NEW f \in Fns, InvokeMalformed(r, f) PROVE StageFollowsPhase'
  BY <1>2 DEF InvokeMalformed, ArriveMalformed
<1>3. ASSUME NEW r \in Reqs, Verify(r) PROVE StageFollowsPhase'
  <2>1. /\ stage[r] = "auth"
        /\ UNCHANGED <<call, run, now, epoch, arrivedAt, epochOf>>
        /\ stage' = [stage EXCEPT ![r] = IF pc'[r] \in Rejected \cup Faulted THEN "done" ELSE "auth"]
    BY <1>3
       DEF Verify, VerifyStep, RejectSignature, ConsumeNonce, ConsumeCallId, LookupHuman,
           NonceStoreFails, CallIdStoreFails, LookupFails
  <2>2. \E phase \in Awaiting \cup Rejected \cup Faulted \cup {"verified"} :
          pc' = [pc EXCEPT ![r] = phase]
    BY <1>3
       DEF Verify, VerifyStep, RejectSignature, ConsumeNonce, ConsumeCallId, LookupHuman,
           NonceStoreFails, CallIdStoreFails, LookupFails
  <2>3. \A s \in Reqs : pc'[s] = "verified" => humanOf'[s] \in Humans
    <3>1. CASE LookupHuman(r)
      <4>1. agentBook[SignerOf[msgOf[r]]] \in Humans \cup {NoHuman}
        BY <3>1, ConstantsAssumption, ServerStep DEF LookupHuman, AuthTyped, CarriesHeader
      <4> QED
        BY <3>1, <4>1 DEF LookupHuman
    <3>2. CASE \/ RejectSignature(r) \/ ConsumeNonce(r) \/ ConsumeCallId(r)
               \/ NonceStoreFails(r) \/ CallIdStoreFails(r) \/ LookupFails(r)
      BY <3>2 DEF RejectSignature, ConsumeNonce, ConsumeCallId, NonceStoreFails,
                  CallIdStoreFails, LookupFails
    <3> QED
      BY <1>3, <3>1, <3>2 DEF Verify, VerifyStep
  <2> QED
    BY <2>1, <2>2, <2>3
<1>4. ASSUME NEW r \in Reqs, Decide(r) PROVE StageFollowsPhase'
  BY <1>4 DEF Decide, MintState, authVars
<1>5. ASSUME NEW r \in Reqs, Reenter(r) PROVE StageFollowsPhase'
  BY <1>5 DEF Reenter, authVars
<1>6. ASSUME NEW r \in Reqs, AcceptProof(r) PROVE StageFollowsPhase'
  BY <1>6 DEF AcceptProof, authVars
<1>7. ASSUME NEW r \in Reqs, RefuseProof(r) PROVE StageFollowsPhase'
  BY <1>7 DEF RefuseProof, authVars
<1>8. ASSUME NEW r \in Reqs, NEW how, Return(r, how) PROVE StageFollowsPhase'
  BY <1>8 DEF Return, authVars
<1>9. ASSUME NEW q \in Reqs, NEW h \in Humans, Complete(q, h) PROVE StageFollowsPhase'
  BY <1>9 DEF Complete, authVars
<1>10. ASSUME NEW d \in Deployments, RestartServer(d) PROVE StageFollowsPhase'
  BY <1>10 DEF RestartServer, Restart, StoresSurvive
<1>11. CASE TickServer
  BY <1>11 DEF TickServer, Tick
<1>12. ASSUME NEW m \in Msgs, Sign(m), UNCHANGED serverVars PROVE StageFollowsPhase'
  BY <1>12 DEF Sign
<1>13. ASSUME NEW a \in Addrs, NEW h, Register(a, h), UNCHANGED serverVars PROVE StageFollowsPhase'
  BY <1>13 DEF Register
<1>14. CASE UNCHANGED vars
  BY <1>14 DEF vars, authVars
<1> QED
  BY <1>1, <1>2, <1>3, <1>4, <1>5, <1>6, <1>7, <1>8, <1>9, <1>10, <1>11, <1>12, <1>13, <1>14
     DEF Next, World, Serve

\* A state is minted by a step of its own request and of no other.
LEMMA WhoMints ==
  ASSUME ServerIInv, [Next]_vars, NEW q \in Reqs, state'[q].minted, ~state[q].minted
  PROVE  Decide(q) /\ MatchesHeader(q) /\ Answer(q, "challenged") /\ UNCHANGED run
         /\ \E level \in Levels : MintState(q, level)
<1>1. UNCHANGED state \/ \E r \in Reqs : Decide(r)
  <2>1. CASE World
    <3>1. \A r, m, f, a, s, ans : Invoke(r, m, f, a, s, ans) => UNCHANGED state
      BY DEF Invoke
    <3>2. \A r, f, h, d : InvokeMalformed(r, f) \/ Complete(r, h) \/ RestartServer(d) => UNCHANGED state
      BY DEF InvokeMalformed, Complete, RestartServer
    <3>3. UNCHANGED serverVars => UNCHANGED state
      BY DEF serverVars
    <3> QED
      BY <2>1, <3>1, <3>2, <3>3 DEF World, TickServer
  <2>2. ASSUME NEW r \in Reqs, Serve(r) PROVE Decide(r) \/ UNCHANGED state
    BY <2>2 DEF Serve, Verify, Reenter, AcceptProof, RefuseProof, Return
  <2>3. CASE UNCHANGED vars
    BY <2>3 DEF vars, serverVars
  <2> QED
    BY <2>1, <2>2, <2>3 DEF Next
<1>2. PICK r \in Reqs : Decide(r)
  BY <1>1
<1> DEFINE decision == evaluatePolicy(PolicyFor(call[r].fn), humanOf[r], Owner, <<>>)
<1>3. /\ MatchesHeader(r) /\ Answer(r, "challenged") /\ UNCHANGED run
      /\ decision.status = "step-up-required" /\ MintState(r, decision.required)
  BY <1>1, <1>2 DEF Decide
<1>4. r = q
  BY <1>3, ServerStep DEF MintState, ServerShape
<1>5. decision.required \in Levels
  <2>1. ValidPolicy(PolicyFor(call[r].fn))
    BY ServerAssumption DEF ServerIInv, TypeOK, AuthTypeOK, CallRecords, PolicyFor
  <2> QED
    BY <1>3, <2>1, StepUpNamesLevel
<1> QED
  BY <1>2, <1>3, <1>4, <1>5

LEMMA StatesStep == ServerIInv /\ [Next]_vars => StatesBindCalls'
<1> SUFFICES ASSUME ServerIInv, [Next]_vars, NEW q \in Reqs, state'[q].minted
             PROVE  /\ pc'[q] = "verified" /\ stage'[q] = "done" /\ ~run'[q].started
                    /\ state'[q].fn = FnOf[msgOf'[q]] /\ state'[q].args = ArgsOf[msgOf'[q]]
                    /\ state'[q].human = humanOf'[q]
                    /\ state'[q].epoch = epochOf'[q]
                    /\ state'[q].expires <= now' + StateTTL
  BY DEF StatesBindCalls
<1>0. now \in Nat /\ now' \in Nat /\ StateTTL \in Nat
  BY ServerStep, ServerAssumption DEF AuthTyped, AuthTypeOK, TypeOK
<1>1. CASE state[q].minted
  <2>1. state[q].expires \in Nat
    BY <1>1, MintedTyped DEF ServerIInv, StateRecords
  <2> QED
    BY <1>0, <1>1, <2>1, ServerStep DEF ServerIInv, StatesBindCalls, HeadersStay, Keeps
<1>2. CASE ~state[q].minted
  <2>1. PICK level : MintState(q, level) /\ Decide(q) /\ MatchesHeader(q) /\ Answer(q, "challenged") /\ UNCHANGED run
    BY <1>2, WhoMints
  <2> QED
    BY <1>0, <2>1, ServerStep
       DEF MintState, Decide, MatchesHeader, Answer, ServerShape, ServerIInv, StageFollowsPhase, authVars
<1> QED
  BY <1>1, <1>2

\* A request that starts to carry something was idle, so it is not a resume yet.
LEMMA WhoArrives ==
  ASSUME ServerIInv, [Next]_vars, NEW r \in Reqs, pc[r] = "idle", pc'[r] # "idle"
  PROVE  \/ UNCHANGED call /\ stage[r] = "idle"
         \/ \E m \in signed, f \in Fns, a \in ArgVals, q \in Reqs \cup {NoReq},
               ans \in {NoAnswer, Declined} \cup completed :
              /\ Arrive(r, m) /\ Asks(f, a, q, ans)
              /\ q = NoReq \/ StateAccepted(q, m)
              /\ call'[r].from = q /\ UNCHANGED state
<1>0. ServerShape /\ AuthTypeOK
  BY ServerStep DEF AuthTyped
<1>1. CASE UNCHANGED pc
  BY <1>1
<1>2. ASSUME NEW s \in Reqs, NEW m \in signed \cup {NoMsg}, NEW f \in Fns, NEW a \in ArgVals,
             NEW q \in Reqs \cup {NoReq}, NEW ans, Invoke(s, m, f, a, q, ans), pc' # pc
      PROVE  /\ s = r /\ m \in signed /\ Arrive(r, m) /\ Asks(f, a, q, ans)
             /\ q = NoReq \/ StateAccepted(q, m)
             /\ call'[r].from = q /\ UNCHANGED state
  <2>1. Arrive(s, m) /\ OnArrival(f, m # NoMsg, q = NoReq \/ StateAccepted(q, m)) = "verify"
    BY <1>2 DEF Invoke, authVars
  <2>2. s = r
    BY <1>0, <2>1 DEF Arrive, Goto, AuthTypeOK
  <2>3. q = NoReq \/ StateAccepted(q, m)
    BY <2>1 DEF OnArrival
  <2>4. call' = [call EXCEPT ![s] = [fn |-> f, args |-> a, from |-> q, answer |-> ans]]
    BY <1>2 DEF Invoke
  <2> QED
    BY <1>0, <1>2, <2>1, <2>2, <2>3, <2>4 DEF Invoke, Arrive, ServerShape
<1>3. ASSUME NEW s \in Reqs, NEW f \in Fns, InvokeMalformed(s, f)
      PROVE  UNCHANGED call /\ stage[r] = "idle"
  BY <1>0, <1>3 DEF InvokeMalformed, ArriveMalformed, Goto, AuthTypeOK
<1>4. ASSUME NEW s \in Reqs, Verify(s) PROVE FALSE
  BY <1>0, <1>4
     DEF Verify, VerifyStep, RejectSignature, ConsumeNonce, ConsumeCallId, LookupHuman,
         NonceStoreFails, CallIdStoreFails, LookupFails,
         Goto, AuthTypeOK
<1>5. ASSUME NEW s \in Reqs, Decide(s) \/ Reenter(s) \/ AcceptProof(s) \/ RefuseProof(s)
               \/ (\E h : Complete(s, h)) \/ (\E how : Return(s, how))
      PROVE  UNCHANGED pc
  BY <1>5 DEF Decide, Reenter, AcceptProof, RefuseProof, Complete, Return, authVars
<1>6. ASSUME NEW d \in Deployments, RestartServer(d) PROVE FALSE
  BY <1>0, <1>6 DEF RestartServer, Restart, StoresSurvive, AuthTypeOK, Awaiting
<1>7. ASSUME TickServer \/ (\E m : Sign(m)) \/ (\E a, h : Register(a, h)) PROVE UNCHANGED pc
  BY <1>7 DEF TickServer, Tick, Sign, Register
<1>8. UNCHANGED vars => UNCHANGED pc
  BY DEF vars, authVars
<1>9. CASE World /\ pc' # pc
  <2>1. (\E s \in Reqs, m \in signed \cup {NoMsg}, f \in Fns, a \in ArgVals,
           q \in Reqs \cup {NoReq}, ans \in {NoAnswer, Declined} \cup completed :
             Invoke(s, m, f, a, q, ans))
        \/ (\E s \in Reqs, f \in Fns : InvokeMalformed(s, f))
    BY <1>5, <1>6, <1>7, <1>9 DEF World
  <2>2. CASE \E s \in Reqs, f \in Fns : InvokeMalformed(s, f)
    BY <1>3, <2>2
  <2>3. ASSUME NEW s \in Reqs, NEW m \in signed \cup {NoMsg}, NEW f \in Fns, NEW a \in ArgVals,
               NEW q \in Reqs \cup {NoReq}, NEW ans \in {NoAnswer, Declined} \cup completed,
               Invoke(s, m, f, a, q, ans)
        PROVE  \E n \in signed, g \in Fns, b \in ArgVals, p \in Reqs \cup {NoReq},
                  w \in {NoAnswer, Declined} \cup completed :
                 /\ Arrive(r, n) /\ Asks(g, b, p, w)
                 /\ p = NoReq \/ StateAccepted(p, n)
                 /\ call'[r].from = p /\ UNCHANGED state
    BY ONLY <1>2, <1>9, <2>3
  <2> QED
    BY <2>1, <2>2, <2>3
<1>10. CASE \E s \in Reqs : Serve(s)
  BY <1>1, <1>4, <1>5, <1>10 DEF Serve
<1> QED
  BY <1>1, <1>8, <1>9, <1>10 DEF Next

LEMMA ResumesStep == ServerIInv /\ [Next]_vars => ResumesAccepted'
<1> SUFFICES ASSUME ServerIInv, [Next]_vars, NEW r \in Reqs,
                    pc'[r] # "idle", call'[r].from # NoReq
             PROVE  /\ state'[call'[r].from].minted
                    /\ arrivedAt'[r] <= state'[call'[r].from].expires
                    /\ SignerOf[msgOf'[r]] = SignerOf[msgOf'[call'[r].from]]
                    /\ StableKey \/ state'[call'[r].from].epoch = epochOf'[r]
  BY DEF ResumesAccepted
<1>0. \A q \in Reqs : state[q].minted => state'[q] = state[q] /\ msgOf'[q] = msgOf[q]
  BY ServerStep DEF ServerIInv, StatesBindCalls, Keeps, HeadersStay
<1>1. CASE pc[r] # "idle"
  <2>1. /\ call'[r] = call[r] /\ call[r].from \in Reqs
        /\ UNCHANGED <<msgOf[r], arrivedAt[r], epochOf[r]>>
    BY <1>1, ServerStep
       DEF ServerIInv, StageFollowsPhase, Keeps, HeadersStay, TypeOK, CallRecords
  <2> QED
    BY <1>0, <1>1, <2>1 DEF ServerIInv, ResumesAccepted
<1>2. CASE pc[r] = "idle"
  <2>1. ~(UNCHANGED call /\ stage[r] = "idle")
    BY DEF ServerIInv, StageFollowsPhase
  <2>2. PICK m \in signed, f \in Fns, a \in ArgVals, q \in Reqs,
             ans \in {NoAnswer, Declined} \cup completed :
          /\ Arrive(r, m) /\ Asks(f, a, q, ans) /\ StateAccepted(q, m)
          /\ call'[r].from = q /\ UNCHANGED state
    BY <1>2, <2>1, WhoArrives
  <2>3. /\ state[q].minted /\ state'[q] = state[q] /\ msgOf'[q] = msgOf[q]
    BY <1>0, <2>2, ServerAssumption DEF Asks
  <2>4. msgOf'[r] = m /\ arrivedAt'[r] = now /\ epochOf'[r] = epoch
    BY <2>2, ServerStep DEF Arrive, AuthTyped, AuthTypeOK
  <2> QED
    BY <2>2, <2>3, <2>4 DEF StateAccepted
<1> QED
  BY <1>1, <1>2

\* Only a resume that got past the step-up store awaits the World API.
LEMMA WhoProves ==
  ASSUME ServerIInv, [Next]_vars, NEW r \in Reqs, stage[r] # "proving", stage'[r] = "proving"
  PROVE  Reenter(r)
<1>0. ServerShape
  BY ServerStep
<1>1. CASE World
  <2>1. ASSUME NEW s \in Reqs, NEW m, NEW f \in Fns, NEW a \in ArgVals,
               NEW q \in Reqs \cup {NoReq}, NEW ans, Invoke(s, m, f, a, q, ans)
        PROVE  FALSE
    BY <1>0, <2>1 DEF Invoke, Answer, StartHandler, ServerShape
  <2>2. ASSUME NEW s \in Reqs, NEW f \in Fns, InvokeMalformed(s, f) PROVE FALSE
    BY <1>0, <2>2 DEF InvokeMalformed, Answer, ServerShape
  <2>3. ASSUME NEW d \in Deployments, RestartServer(d) PROVE FALSE
    BY <1>0, <2>3 DEF RestartServer, ServerShape
  <2>4. ASSUME NEW s \in Reqs, NEW h \in Humans, Complete(s, h) PROVE FALSE
    BY <2>4 DEF Complete
  <2>5. ~UNCHANGED serverVars
    BY DEF serverVars
  <2> QED
    BY <1>1, <2>1, <2>2, <2>3, <2>4, <2>5 DEF World, TickServer
<1>2. ASSUME NEW s \in Reqs, Serve(s) PROVE Reenter(r)
  <2>1. ASSUME NEW how, Return(s, how) PROVE FALSE
    BY <1>0, <2>1 DEF Return, Answer, ServerShape
  <2>2. ~Verify(s) /\ ~Decide(s) /\ ~AcceptProof(s) /\ ~RefuseProof(s)
    BY <1>0 DEF Verify, Decide, AcceptProof, RefuseProof, Answer, StartHandler, ServerShape
  <2>3. Reenter(s)
    BY <1>2, <2>1, <2>2 DEF Serve
  <2>4. s = r
    BY <1>0, <2>3 DEF Reenter, Answer, ServerShape
  <2> QED
    BY <2>3, <2>4
<1>3. stage' # stage
  OBVIOUS
<1> QED
  BY <1>1, <1>2, <1>3 DEF Next, vars, serverVars

LEMMA ProvingStep == ServerIInv /\ [Next]_vars => ProvingMatches'
<1> SUFFICES ASSUME ServerIInv, [Next]_vars, NEW r \in Reqs, stage'[r] = "proving"
             PROVE  /\ call'[r].from # NoReq
                    /\ call'[r].answer \in completed'
                    /\ call'[r].fn = state'[call'[r].from].fn
                    /\ call'[r].args = state'[call'[r].from].args
  BY DEF ProvingMatches
<1>1. stage[r] # "idle" /\ pc[r] # "idle"
  <2>1. CASE stage[r] = "proving"
    BY <2>1 DEF ServerIInv, StageFollowsPhase
  <2>2. CASE stage[r] # "proving"
    BY <2>2, WhoProves DEF Reenter
  <2> QED
    BY <2>1, <2>2
<1>2. call'[r] = call[r] /\ completed \subseteq completed'
  BY <1>1, ServerStep DEF Keeps
<1>3. call[r].from \in Reqs \cup {NoReq} /\ call[r].answer \in {NoAnswer, Declined} \cup completed
  BY DEF ServerIInv, TypeOK, CallRecords
<1>4. call[r].from # NoReq => state'[call[r].from] = state[call[r].from]
  BY <1>1, <1>3, ServerStep DEF ServerIInv, ResumesAccepted, Keeps
<1>5. CASE stage[r] = "proving"
  BY <1>2, <1>4, <1>5 DEF ServerIInv, ProvingMatches
<1>6. CASE Reenter(r)
  <2>1. /\ call[r].from # NoReq /\ state[call[r].from].fn = call[r].fn
        /\ call[r].answer.kind = "proof" /\ call[r].args = state[call[r].from].args
    BY <1>6, ServerStep DEF Reenter, Answer, ServerShape
  <2>2. call[r].answer \in completed
    BY <1>3, <2>1 DEF NoAnswer, Declined
  <2> QED
    BY <1>2, <1>4, <2>1, <2>2
<1> QED
  BY <1>5, <1>6, WhoProves

\* A handler is started by a public call, an allowed first call or an accepted proof.
LEMMA WhoStarts ==
  ASSUME ServerIInv, [Next]_vars, NEW r \in Reqs, run'[r].started, ~run[r].started
  PROVE  /\ UNCHANGED deployment
         /\ \/ /\ StartHandler(r, NoReq) /\ call'[r].fn \in Fns
               /\ Callable(PolicyFor(call'[r].fn)) /\ SkipsAuthorization(PolicyFor(call'[r].fn))
            \/ Decide(r) /\ StartHandler(r, r)
            \/ AcceptProof(r) /\ StartHandler(r, call[r].from)
<1>0. ServerShape
  BY ServerStep
<1>1. ASSUME NEW s \in Reqs, NEW m, NEW f \in Fns, NEW a \in ArgVals,
             NEW q \in Reqs \cup {NoReq}, NEW ans, Invoke(s, m, f, a, q, ans)
      PROVE  /\ UNCHANGED deployment
             /\ StartHandler(r, NoReq) /\ call'[r].fn \in Fns
             /\ Callable(PolicyFor(call'[r].fn)) /\ SkipsAuthorization(PolicyFor(call'[r].fn))
  <2>1. ~UNCHANGED run
    OBVIOUS
  <2>2. /\ StartHandler(s, NoReq) /\ UNCHANGED authVars
        /\ OnArrival(f, m # NoMsg, q = NoReq \/ StateAccepted(q, m)) = "public"
        /\ call' = [call EXCEPT ![s] = [fn |-> f, args |-> a, from |-> q, answer |-> ans]]
    BY <1>1, <2>1 DEF Invoke
  <2>3. s = r
    BY <1>0, <2>2 DEF StartHandler, ServerShape
  <2>4. call'[r].fn = f
    BY <1>0, <2>2, <2>3 DEF ServerShape
  <2>5. Callable(PolicyFor(f)) /\ SkipsAuthorization(PolicyFor(f))
    BY <2>2 DEF OnArrival
  <2>6. UNCHANGED deployment
    BY <2>2 DEF authVars, processVars
  <2> QED
    BY <2>2, <2>3, <2>4, <2>5, <2>6
<1>2. ASSUME NEW s \in Reqs, Serve(s)
      PROVE  /\ UNCHANGED deployment
             /\ \/ Decide(r) /\ StartHandler(r, r)
                \/ AcceptProof(r) /\ StartHandler(r, call[r].from)
  <2>1. ASSUME NEW how, Return(s, how) PROVE FALSE
    BY <2>1 DEF Return
  <2>2. ~Verify(s) /\ ~Reenter(s) /\ ~RefuseProof(s)
    BY DEF Verify, Reenter, RefuseProof
  <2>3. CASE Decide(s)
    <3>1. StartHandler(s, s) /\ UNCHANGED deployment
      BY <2>3 DEF Decide, authVars, processVars
    <3>2. s = r
      BY <1>0, <3>1 DEF StartHandler, ServerShape
    <3> QED
      BY <2>3, <3>1, <3>2
  <2>4. CASE AcceptProof(s)
    <3>1. StartHandler(s, call[s].from) /\ UNCHANGED deployment
      BY <2>4 DEF AcceptProof, authVars, processVars
    <3>2. s = r
      BY <1>0, <3>1 DEF StartHandler, ServerShape
    <3> QED
      BY <2>4, <3>1, <3>2
  <2> QED
    BY <1>2, <2>1, <2>2, <2>3, <2>4 DEF Serve
<1>3. CASE World
  <2>1. ~(\E s, f : InvokeMalformed(s, f)) /\ ~(\E s, h : Complete(s, h)) /\ ~(\E d : RestartServer(d))
    BY DEF InvokeMalformed, Complete, RestartServer
  <2>2. ~UNCHANGED serverVars
    BY DEF serverVars
  <2> QED
    BY <1>1, <1>3, <2>1, <2>2 DEF World, TickServer
<1>4. run' # run
  OBVIOUS
<1> QED
  BY <1>2, <1>3, <1>4 DEF Next, vars, serverVars

\* What StartHandler records, and that the request keeps its call.
LEMMA StartedRecord ==
  ASSUME ServerIInv, [Next]_vars, NEW r \in Reqs, NEW q \in Reqs \cup {NoReq}, StartHandler(r, q)
  PROVE  /\ run'[r].started /\ run'[r].of = q /\ run'[r].deployment = deployment
         /\ stage[r] # "idle" => call'[r] = call[r]
BY ServerStep DEF StartHandler, ServerShape, Keeps

LEMMA RunsStep == ServerIInv /\ [Next]_vars => RunsForOwnCall'
<1> SUFFICES ASSUME ServerIInv, [Next]_vars, NEW r \in Reqs, run'[r].started, run'[r].of # NoReq
             PROVE  /\ pc'[r] = "verified"
                    /\ run'[r].of = IF call'[r].from = NoReq THEN r ELSE call'[r].from
  BY DEF RunsForOwnCall, Ran
<1>1. CASE run[r].started
  BY <1>1, ServerStep DEF ServerIInv, StageFollowsPhase, RunsForOwnCall, Ran, Keeps, HeadersStay
<1>2. CASE ~run[r].started
  <2>1. CASE StartHandler(r, NoReq)
    BY <2>1, StartedRecord
  <2>2. CASE Decide(r) /\ StartHandler(r, r)
    BY <2>2, StartedRecord DEF Decide, authVars
  <2>3. CASE AcceptProof(r) /\ StartHandler(r, call[r].from)
    <3>1. call[r].from \in Reqs /\ call[r].from # NoReq /\ pc[r] = "verified" /\ UNCHANGED pc
      BY <2>3
         DEF ServerIInv, TypeOK, CallRecords, ProvingMatches, StageFollowsPhase, AcceptProof, authVars
    <3> QED
      BY <2>3, <3>1, StartedRecord DEF AcceptProof
  <2> QED
    BY <1>2, <2>1, <2>2, <2>3, WhoStarts
<1> QED
  BY <1>1, <1>2

LEMMA RunMatchesStep == ServerIInv /\ [Next]_vars => RunMatchesSignedCall'
<1> SUFFICES ASSUME ServerIInv, [Next]_vars, NEW r \in Reqs, run'[r].started, run'[r].of # NoReq
             PROVE  /\ FnOf[msgOf'[run'[r].of]] = call'[r].fn
                    /\ ArgsOf[msgOf'[run'[r].of]] = call'[r].args
                    /\ SignerOf[msgOf'[run'[r].of]] = SignerOf[msgOf'[r]]
  BY DEF RunMatchesSignedCall, Ran, CallRun
<1>0. \A q \in Reqs : pc[q] = "verified" => msgOf'[q] = msgOf[q]
  BY ServerStep DEF HeadersStay
<1>1. CASE run[r].started
  <2>1. run'[r] = run[r] /\ call'[r] = call[r]
    BY <1>1, ServerStep DEF ServerIInv, StageFollowsPhase, Keeps
  <2>2. pc[r] = "verified" /\ run[r].of \in Reqs /\ pc[run[r].of] = "verified"
    <3>1. pc[r] = "verified" /\ run[r].of = IF call[r].from = NoReq THEN r ELSE call[r].from
      BY <1>1, <2>1 DEF ServerIInv, RunsForOwnCall, Ran
    <3>2. call[r].from # NoReq => call[r].from \in Reqs /\ pc[call[r].from] = "verified"
      BY <3>1 DEF ServerIInv, TypeOK, CallRecords, ResumesAccepted, StatesBindCalls
    <3> QED
      BY <3>1, <3>2
  <2> QED
    BY <1>0, <1>1, <2>1, <2>2 DEF ServerIInv, RunMatchesSignedCall, Ran, CallRun
<1>2. CASE Decide(r) /\ StartHandler(r, r)
  <2>1. pc[r] = "verified" /\ MatchesHeader(r) /\ stage[r] # "idle"
    BY <1>2, ServerStep DEF Decide, StartHandler, Answer, ServerShape
  <2> QED
    BY <1>0, <1>2, <2>1, StartedRecord DEF MatchesHeader
<1>3. CASE AcceptProof(r) /\ StartHandler(r, call[r].from)
  <2> DEFINE q == call[r].from
  <2>1. q \in Reqs /\ q # NoReq /\ pc[r] = "verified" /\ stage[r] = "proving"
    BY <1>3 DEF ServerIInv, TypeOK, CallRecords, ProvingMatches, StageFollowsPhase, AcceptProof
  <2>2. state[q].minted /\ SignerOf[msgOf[r]] = SignerOf[msgOf[q]]
    BY <2>1 DEF ServerIInv, ResumesAccepted
  <2>3. /\ pc[q] = "verified"
        /\ state[q].fn = FnOf[msgOf[q]] /\ state[q].args = ArgsOf[msgOf[q]]
    BY <2>1, <2>2 DEF ServerIInv, StatesBindCalls
  <2>4. call[r].fn = state[q].fn /\ call[r].args = state[q].args
    BY <2>1 DEF ServerIInv, ProvingMatches
  <2> QED
    BY <1>0, <1>3, <2>1, <2>2, <2>3, <2>4, StartedRecord
<1>4. CASE StartHandler(r, NoReq)
  BY <1>4, StartedRecord
<1> QED
  BY <1>1, <1>2, <1>3, <1>4, WhoStarts

\* The challenge of a minted state is what its proofs were made for, for good.
LEMMA ChallengeStays ==
  ASSUME ServerIInv, [Next]_vars, NEW q \in Reqs, state[q].minted
  PROVE  /\ state'[q] = state[q] /\ humanOf'[q] = humanOf[q]
         /\ Action(q)' = Action(q) /\ Signal(q)' = Signal(q)
<1>1. pc[q] = "verified"
  BY DEF ServerIInv, StatesBindCalls
<1>2. state'[q] = state[q] /\ humanOf'[q] = humanOf[q] /\ msgOf'[q] = msgOf[q]
  BY <1>1, ServerStep DEF Keeps, HeadersStay
<1> QED
  BY <1>2 DEF Action, Signal

\* Every proof is for a state that was minted.
LEMMA ProofsAreForStates ==
  ASSUME TypeOK, NEW proof \in completed
  PROVE  proof.of \in Reqs /\ state[proof.of].minted
<1>1. PICK q \in Reqs : state[q].minted /\ proof \in ProofsOf(q)
  BY DEF TypeOK
<1>2. proof.of = q
  BY <1>1 DEF ProofsOf
<1> QED
  BY <1>1, <1>2

\* A public call is permitted whoever makes it and without any proof.
LEMMA PublicIsPermitted ==
  ASSUME NEW policy, ValidPolicy(policy), Callable(policy), SkipsAuthorization(policy)
  PROVE  Permitted(policy, NoHuman, Owner, <<>>)
<1>1. evaluatePolicy(policy, NoHuman, Owner, <<>>).status = "allow"
  BY DEF SkipsAuthorization, evaluatePolicy, Allow, Decision, Origins
<1> QED
  BY <1>1, AllowedIsPermitted

\* What a run that is not new has, it keeps: its policy is that of the deployment that
\* started it, and neither the human nor the proofs it was started on go away.
LEMMA EvidenceStays ==
  ASSUME ServerIInv, [Next]_vars, NEW r \in Reqs, run[r].started
  PROVE  /\ run'[r] = run[r] /\ call'[r] = call[r] /\ Resumed(r)' = Resumed(r)
         /\ run[r].of # NoReq => humanOf'[run[r].of] = humanOf[run[r].of]
         /\ Resumed(r) => /\ run[r].of \in Reqs /\ state[run[r].of].minted
                          /\ call[r].from = run[r].of
<1>1. run'[r] = run[r] /\ call'[r] = call[r]
  BY ServerStep DEF ServerIInv, StageFollowsPhase, Keeps
<1>2. call[r].from \in Reqs \cup {NoReq}
  BY DEF ServerIInv, TypeOK, CallRecords
<1>3. run[r].of # NoReq =>
        pc[r] = "verified" /\ run[r].of = IF call[r].from = NoReq THEN r ELSE call[r].from
  BY DEF ServerIInv, RunsForOwnCall, Ran
<1>4. run[r].of # NoReq /\ call[r].from # NoReq => state[call[r].from].minted
  BY <1>3 DEF ServerIInv, ResumesAccepted
<1>5. run[r].of # NoReq => run[r].of \in Reqs /\ pc[run[r].of] = "verified"
  BY <1>2, <1>3, <1>4 DEF ServerIInv, StatesBindCalls
<1>6. run[r].of # NoReq => humanOf'[run[r].of] = humanOf[run[r].of]
  BY <1>5, ServerStep DEF HeadersStay
<1>7. Resumed(r) => /\ run[r].of \in Reqs /\ state[run[r].of].minted
                    /\ call[r].from = run[r].of
  BY <1>3, <1>4, <1>5 DEF Resumed, Ran
<1>8. Resumed(r)' = Resumed(r)
  BY <1>1 DEF Resumed, Ran
<1> QED
  BY <1>1, <1>6, <1>7, <1>8

LEMMA EvidenceStep == ServerIInv /\ [Next]_vars => RunHasEvidence'
<1> DEFINE policy(r) == ServiceOf[run[r].deployment].policies[call[r].fn]
           human(r)  == IF run[r].of = NoReq THEN NoHuman ELSE humanOf[run[r].of]
           proofs(r) == IF Resumed(r) THEN ProofOfStepUp(state[run[r].of].level) ELSE <<>>
           proven(r) == Resumed(r) =>
             \E proof \in completed : /\ Action(proof.of) = Action(run[r].of)
                                      /\ Signal(proof.of) = Signal(run[r].of)
<1> SUFFICES ASSUME ServerIInv, [Next]_vars, NEW r \in Reqs, run'[r].started
             PROVE  /\ Permitted(policy(r), human(r), Owner, proofs(r))'
                    /\ proven(r)'
  BY DEF RunHasEvidence
<1>1. CASE run[r].started
  <2>1. /\ run'[r] = run[r] /\ Resumed(r)' = Resumed(r)
        /\ policy(r)' = policy(r) /\ human(r)' = human(r)
    BY <1>1, EvidenceStays
  <2>2. CASE ~Resumed(r)
    BY <1>1, <2>1, <2>2 DEF ServerIInv, RunHasEvidence, Permitted
  <2>3. CASE Resumed(r)
    <3>1. PICK q \in Reqs : q = run[r].of /\ state[q].minted
      BY <1>1, <2>3, EvidenceStays
    <3>2. /\ Permitted(policy(r), human(r), Owner, proofs(r)) /\ proven(r)
      BY <1>1 DEF ServerIInv, RunHasEvidence
    <3>3. state'[q] = state[q] /\ Action(q)' = Action(q) /\ Signal(q)' = Signal(q)
      BY <3>1, ChallengeStays
    <3>4. proven(r)'
      <4>1. PICK proof \in completed : Action(proof.of) = Action(q) /\ Signal(proof.of) = Signal(q)
        BY <2>3, <3>1, <3>2
      <4>2. /\ Action(proof.of)' = Action(proof.of) /\ Signal(proof.of)' = Signal(proof.of)
        BY ProofsAreForStates, ChallengeStays DEF ServerIInv
      <4>3. proof \in completed'
        BY ServerStep DEF Keeps
      <4>4. run'[r].of = q
        BY <2>1, <3>1
      <4> QED
        BY <3>3, <4>1, <4>2, <4>3, <4>4
    <3>5. proofs(r)' = proofs(r)
      BY <2>1, <3>1, <3>3 DEF ProofOfStepUp
    <3> QED
      BY <2>1, <3>2, <3>4, <3>5 DEF Permitted
  <2> QED
    BY <2>2, <2>3
<1>2. CASE ~run[r].started
  <2>0. /\ deployment \in Deployments /\ UNCHANGED deployment
        /\ call[r].fn \in Fns
        /\ \A f \in Fns : ValidPolicy(PolicyFor(f))
    BY <1>2, WhoStarts, ServerAssumption, ServerStep
       DEF AuthTyped, AuthTypeOK, ServerIInv, TypeOK, CallRecords, PolicyFor
  <2>1. CASE /\ StartHandler(r, NoReq) /\ call'[r].fn \in Fns
             /\ Callable(PolicyFor(call'[r].fn)) /\ SkipsAuthorization(PolicyFor(call'[r].fn))
    <3>1. run'[r].of = NoReq /\ run'[r].deployment = deployment
      BY <2>1, StartedRecord
    <3>2. human(r)' = NoHuman /\ proofs(r)' = <<>> /\ proven(r)'
      BY <3>1 DEF Resumed, Ran
    <3>3. policy(r)' = PolicyFor(call'[r].fn)
      BY <3>1 DEF PolicyFor
    <3>4. Permitted(PolicyFor(call'[r].fn), NoHuman, Owner, <<>>)
      BY <2>0, <2>1, PublicIsPermitted
    <3> QED
      BY <3>2, <3>3, <3>4 DEF Permitted
  <2>2. CASE Decide(r) /\ StartHandler(r, r)
    <3>1. /\ pc[r] = "verified" /\ stage[r] = "auth"
          /\ UNCHANGED humanOf
          /\ evaluatePolicy(PolicyFor(call[r].fn), humanOf[r], Owner, <<>>).status = "allow"
      BY <2>2, ServerStep DEF Decide, StartHandler, Answer, ServerShape, authVars
    <3>2. run'[r].of = r /\ run'[r].deployment = deployment /\ call'[r] = call[r]
      BY <2>2, <3>1, StartedRecord
    <3>3. human(r)' = humanOf[r] /\ proofs(r)' = <<>> /\ proven(r)'
      BY <3>1, <3>2, ServerAssumption DEF Resumed, Ran
    <3>4. policy(r)' = PolicyFor(call[r].fn)
      BY <3>2 DEF PolicyFor
    <3>5. Permitted(PolicyFor(call[r].fn), humanOf[r], Owner, <<>>)
      BY <2>0, <3>1, AllowedIsPermitted
    <3> QED
      BY <3>3, <3>4, <3>5 DEF Permitted
  <2>3. CASE AcceptProof(r) /\ StartHandler(r, call[r].from)
    <3>0. PICK q \in Reqs : q = call[r].from /\ q # NoReq
      BY <2>3 DEF AcceptProof, ServerIInv, TypeOK, CallRecords, ProvingMatches
    <3>1. /\ stage[r] = "proving" /\ ProofFits(r) /\ UNCHANGED humanOf
          /\ evaluatePolicy(PolicyFor(call[r].fn), state[q].human, Owner,
                            ProofOfStepUp(state[q].level)).status = "allow"
      BY <2>3, <3>0, ServerStep DEF AcceptProof, StartHandler, Answer, ServerShape, authVars
    <3>2. pc[r] = "verified" /\ call[r].answer \in completed
      BY <3>1 DEF ServerIInv, ProvingMatches, StageFollowsPhase
    <3>3. state[q].minted
      BY <3>0, <3>2 DEF ServerIInv, ResumesAccepted
    <3>4. q # r /\ state[q].human = humanOf[q]
      BY <3>1, <3>3 DEF ServerIInv, StatesBindCalls
    <3>5. run'[r].of = q /\ run'[r].deployment = deployment /\ call'[r] = call[r]
      BY <2>3, <3>0, <3>1, StartedRecord
    <3>6. state'[q] = state[q] /\ Action(q)' = Action(q) /\ Signal(q)' = Signal(q)
      BY <3>3, ChallengeStays
    <3>7. Resumed(r)'
      BY <3>0, <3>4, <3>5 DEF Resumed, Ran
    <3>8. human(r)' = state[q].human /\ proofs(r)' = ProofOfStepUp(state[q].level)
      BY <3>0, <3>1, <3>4, <3>5, <3>6, <3>7 DEF ProofOfStepUp
    <3>9. policy(r)' = PolicyFor(call[r].fn)
      BY <3>5 DEF PolicyFor
    <3>10. Permitted(PolicyFor(call[r].fn), state[q].human, Owner, ProofOfStepUp(state[q].level))
      <4>1. state[q].level \in Levels
        BY <3>3, MintedTyped DEF ServerIInv, StateRecords
      <4> QED
        BY <2>0, <3>1, <4>1, AllowedIsPermitted
    <3>11. proven(r)'
      <4>0. PICK proof \in completed : proof = call[r].answer
        BY <3>2
      <4>1. proof \in completed'
        BY ServerStep DEF Keeps
      <4>2. Action(proof.of)' = Action(proof.of) /\ Signal(proof.of)' = Signal(proof.of)
        BY ProofsAreForStates, ChallengeStays DEF ServerIInv
      <4>3. Action(proof.of) = Action(q) /\ Signal(proof.of) = Signal(q)
        BY <3>0, <3>1, <4>0 DEF ProofFits
      <4> QED
        BY <3>5, <3>6, <4>1, <4>2, <4>3
    <3> QED
      BY <3>8, <3>9, <3>10, <3>11 DEF Permitted
  <2> QED
    BY <1>2, <2>1, <2>2, <2>3, WhoStarts
<1> QED
  BY <1>1, <1>2

-----------------------------------------------------------------------------
(***************************************************************************)
(* States are redeemed once.                                               *)
(***************************************************************************)

\* The answers that tell of a redeemed state are given to a resume that just reached
\* the step-up store or has been past it.
LEMMA WhoAnswers ==
  ASSUME ServerIInv, [Next]_vars, NEW r \in Reqs,
         reply'[r] # reply[r], reply'[r] \in {"notAssured", "policyDenied"}
  PROVE  Reenter(r) \/ stage[r] = "proving"
<1>0. ServerShape
  BY ServerStep
<1>1. ASSUME NEW s \in Reqs, NEW m, NEW f \in Fns, NEW a \in ArgVals,
             NEW q \in Reqs \cup {NoReq}, NEW ans, Invoke(s, m, f, a, q, ans)
      PROVE  FALSE
  <2>1. OnArrival(f, m # NoMsg, q = NoReq \/ StateAccepted(q, m)) \notin {"notAssured", "policyDenied"}
    BY DEF OnArrival
  <2> QED
    BY <1>0, <1>1, <2>1 DEF Invoke, Answer, StartHandler, ServerShape
<1>2. ASSUME NEW s \in Reqs, NEW f \in Fns, InvokeMalformed(s, f) PROVE FALSE
  BY <1>0, <1>2 DEF InvokeMalformed, Answer, ServerShape
<1>3. ASSUME NEW s \in Reqs, NEW h \in Humans, Complete(s, h) PROVE FALSE
  BY <1>3 DEF Complete
<1>4. ASSUME NEW d \in Deployments, RestartServer(d) PROVE FALSE
  BY <1>4 DEF RestartServer
<1>5. ASSUME NEW s \in Reqs, Serve(s) PROVE Reenter(r) \/ stage[r] = "proving"
  <2>1. ASSUME NEW how \in {"executed", "withheld", "handlerThrew"}, Return(s, how) PROVE FALSE
    BY <1>0, <2>1 DEF Return, Answer, ServerShape
  <2>2. ~Verify(s) /\ ~Decide(s)
    BY <1>0 DEF Verify, Decide, Answer, StartHandler, ServerShape
  <2>3. CASE Reenter(s) \/ AcceptProof(s) \/ RefuseProof(s)
    <3>1. s = r
      BY <1>0, <2>3 DEF Reenter, AcceptProof, RefuseProof, Answer, StartHandler, ServerShape
    <3> QED
      BY <2>3, <3>1 DEF AcceptProof, RefuseProof
  <2> QED
    BY <1>5, <2>1, <2>2, <2>3 DEF Serve
<1>6. ~UNCHANGED serverVars
  BY DEF serverVars
<1> QED
  BY <1>1, <1>2, <1>3, <1>4, <1>5, <1>6 DEF Next, World, TickServer, vars

\* A state is redeemed by a resume whose step-up the store did not hold.
LEMMA WhoRedeems ==
  ASSUME ServerIInv, [Next]_vars, NEW r \in Reqs, Redeemed(r)', ~Redeemed(r)
  PROVE  /\ Reenter(r) /\ ~Holds(stepUpStore, StepUpKey(r), now)
         /\ stepUpStore' = Consume(stepUpStore, StepUpKey(r), now, StepUpTTL)
<1>1. Reenter(r)
  <2>1. CASE Resumed(r)'
    <3>1. ~run[r].started
      BY <2>1, EvidenceStays DEF Redeemed
    <3>2. stage[r] # "proving"
      BY DEF Redeemed
    <3> QED
      BY <2>1, <3>1, <3>2, WhoStarts, StartedRecord DEF AcceptProof, Resumed, Ran
  <2>2. CASE stage'[r] = "proving"
    BY <2>2, WhoProves DEF Redeemed
  <2>3. CASE reply'[r] \in {"notAssured", "policyDenied"}
    BY <2>3, WhoAnswers DEF Redeemed
  <2> QED
    BY <2>1, <2>2, <2>3 DEF Redeemed
<1>2. ServerShape
  BY ServerStep
<1>3. ~Resumed(r)'
  BY <1>1, <1>2, ServerStep DEF Reenter, Redeemed, Resumed, Ran
<1>4. stage'[r] = "proving" \/ reply'[r] \in {"notAssured", "policyDenied"}
  BY <1>3 DEF Redeemed
<1>5. reply[r] \notin {"notAssured", "policyDenied"} /\ stage[r] = "auth"
  BY <1>1 DEF Redeemed, Reenter
<1> QED
  BY <1>1, <1>2, <1>4, <1>5 DEF Reenter, Answer, ServerShape

\* A step-up that has not expired stays in the store until it does or the store is lost.
LEMMA StepUpStays ==
  ASSUME ServerIInv, [Next]_vars, NEW k \in CallIds,
         Durable \/ epoch' = epoch, stepUpStore[k] > now
  PROVE  stepUpStore'[k] = stepUpStore[k]
<1>0. stepUpStore \in [CallIds -> Nat] /\ now \in Nat /\ epoch \in Nat
  BY DEF ServerIInv, TypeOK, AuthTypeOK
<1>1. ASSUME NEW r \in Reqs, Reenter(r) PROVE stepUpStore'[k] = stepUpStore[k]
  <2>1. UNCHANGED stepUpStore \/ stepUpStore' = Consume(stepUpStore, StepUpKey(r), now, StepUpTTL)
    BY <1>1 DEF Reenter
  <2>2. Holds(stepUpStore, k, now)
    BY <1>0, HoldsIsUnexpired
  <2>3. Consume(stepUpStore, StepUpKey(r), now, StepUpTTL)[k] = stepUpStore[k]
    BY <1>0, <2>2 DEF Consume, Cleanup
  <2> QED
    BY <2>1, <2>3
<1>2. ASSUME NEW d \in Deployments, RestartServer(d) PROVE UNCHANGED stepUpStore
  BY <1>0, <1>2 DEF RestartServer, Restart, StepUpsSurvive
<1>3. ASSUME NEW r, NEW m, NEW f, NEW a, NEW q, NEW ans, Invoke(r, m, f, a, q, ans)
      PROVE  UNCHANGED stepUpStore
  BY <1>3 DEF Invoke
<1>4. ASSUME NEW r, NEW x, InvokeMalformed(r, x) \/ Complete(r, x) \/ Return(r, x)
      PROVE  UNCHANGED stepUpStore
  BY <1>4 DEF InvokeMalformed, Complete, Return
<1>5. ASSUME NEW r, Verify(r) \/ Decide(r) \/ AcceptProof(r) \/ RefuseProof(r)
      PROVE  UNCHANGED stepUpStore
  BY <1>5 DEF Verify, Decide, AcceptProof, RefuseProof
<1>6. UNCHANGED serverVars => UNCHANGED stepUpStore
  BY DEF serverVars
<1> QED
  BY <1>1, <1>2, <1>3, <1>4, <1>5, <1>6 DEF Next, World, Serve, TickServer, vars

\* A resume in verification comes before its state is MaxDelay past its expiry, and the
\* store remembers a step-up for longer than that.
LEMMA ResumeInTime ==
  ASSUME ServerIInv, NEW r \in Reqs, stage[r] = "auth", pc[r] = "verified", call[r].from # NoReq
  PROVE  /\ call[r].from \in Reqs /\ state[call[r].from].minted
         /\ state[call[r].from].expires \in Nat
         /\ now <= state[call[r].from].expires + MaxDelay
         /\ state[call[r].from].expires + MaxDelay < now + StepUpTTL
         /\ epochOf[r] = epoch /\ StepUpKey(r) \in CallIds
<1>1. call[r].from \in Reqs /\ now \in Nat /\ arrivedAt[r] \in Nat /\ AuthTyped
  BY DEF ServerIInv, TypeOK, CallRecords, AuthTypeOK, AuthTyped, AuthIInv
<1>2. state[call[r].from].minted /\ arrivedAt[r] <= state[call[r].from].expires
  BY DEF ServerIInv, ResumesAccepted
<1>3. state[call[r].from].expires \in Nat
  BY <1>1, <1>2, MintedTyped DEF ServerIInv, StateRecords
<1>4. state[call[r].from].expires <= now + StateTTL /\ pc[call[r].from] = "verified"
  BY <1>1, <1>2 DEF ServerIInv, StatesBindCalls
<1>5. now <= arrivedAt[r] + MaxDelay /\ epochOf[r] = epoch
  BY DEF ServerIInv, StageFollowsPhase
<1>6. StepUpKey(r) \in CallIds
  BY <1>1, <1>4, CarriedTyped DEF StepUpKey
<1>7. /\ now <= state[call[r].from].expires + MaxDelay
      /\ state[call[r].from].expires + MaxDelay < now + StepUpTTL
  <2> HIDE DEF ServerIInv
  <2> QED
    BY <1>1, <1>2, <1>3, <1>4, <1>5, TimingAssumption, ServerAssumption, StepUpOutlivesState
<1> QED
  BY <1>1, <1>2, <1>3, <1>5, <1>6, <1>7

\* A request that redeemed a state was verified and keeps its call.
LEMMA RedeemedStays ==
  ASSUME ServerIInv, [Next]_vars, NEW r \in Reqs, Redeemed(r)
  PROVE  /\ pc[r] = "verified" /\ pc'[r] = "verified"
         /\ call[r].from \in Reqs /\ call[r].from # NoReq /\ state[call[r].from].minted
         /\ call'[r] = call[r] /\ epochOf'[r] = epochOf[r]
         /\ StepUpKey(r)' = StepUpKey(r) /\ StepUpKey(r) \in CallIds
<1>1. pc[r] = "verified" /\ call[r].from # NoReq
  BY DEF ServerIInv, StepUpRemembered
<1>2. /\ pc'[r] = "verified" /\ call'[r] = call[r] /\ epochOf'[r] = epochOf[r]
  BY <1>1, ServerStep DEF ServerIInv, StageFollowsPhase, Keeps, HeadersStay
<1>3. call[r].from \in Reqs /\ state[call[r].from].minted
  BY <1>1 DEF ServerIInv, TypeOK, CallRecords, ResumesAccepted
<1>4. pc[call[r].from] = "verified"
  BY <1>3 DEF ServerIInv, StatesBindCalls
<1>5. StepUpKey(r) \in CallIds
  BY <1>3, <1>4, CarriedTyped, ServerStep DEF StepUpKey
<1>6. StepUpKey(r)' = StepUpKey(r)
  BY <1>2, <1>3, <1>4, ServerStep DEF StepUpKey, HeadersStay
<1> QED
  BY <1>1, <1>2, <1>3, <1>5, <1>6

LEMMA StepUpStep == ServerIInv /\ [Next]_vars => StepUpRemembered'
<1> SUFFICES ASSUME ServerIInv, [Next]_vars, NEW r \in Reqs, Redeemed(r)'
             PROVE  /\ pc'[r] = "verified" /\ call'[r].from # NoReq
                    /\ Current(r)' =>
                         \/ now' > state'[call'[r].from].expires + MaxDelay
                         \/ stepUpStore'[StepUpKey(r)'] > state'[call'[r].from].expires + MaxDelay
  BY DEF StepUpRemembered
<1>0. /\ now \in Nat /\ now' \in Nat /\ now <= now' /\ MaxDelay \in Nat
      /\ epoch \in Nat /\ epoch' \in Nat /\ epoch <= epoch' /\ epochOf[r] \in Nat
      /\ stepUpStore \in [CallIds -> Nat]
  BY ServerStep, TimingAssumption
     DEF HeadersStay, ServerIInv, AuthIInv, AuthTyped, TypeOK, AuthTypeOK
<1>1. CASE Redeemed(r)
  <2> DEFINE deadline == state[call[r].from].expires + MaxDelay
  <2>1. /\ pc'[r] = "verified" /\ call'[r] = call[r] /\ call[r].from # NoReq
        /\ epochOf'[r] = epochOf[r]
        /\ StepUpKey(r)' = StepUpKey(r) /\ StepUpKey(r) \in CallIds
        /\ call[r].from \in Reqs /\ state[call[r].from].minted
    BY <1>1, RedeemedStays
  <2>2. state'[call[r].from] = state[call[r].from]
    BY <2>1, ServerStep DEF Keeps
  <2>3. state[call[r].from].expires \in Nat /\ deadline \in Nat
    <3>1. state[call[r].from].expires \in Nat
      BY <2>1, MintedTyped DEF ServerIInv, StateRecords
    <3> QED
      BY ONLY <1>0, <3>1
  <2>4. ASSUME Current(r)'
        PROVE  now' > deadline \/ stepUpStore'[StepUpKey(r)] > deadline
    <3>1. epochOf[r] <= epoch
      BY DEF ServerIInv, AuthIInv, RecordsThePast
    <3>2. Current(r) /\ (Durable \/ epoch' = epoch)
      BY <1>0, <2>1, <2>4, <3>1 DEF Current
    <3>3. now > deadline \/ stepUpStore[StepUpKey(r)] > deadline
      BY <1>1, <3>2 DEF ServerIInv, StepUpRemembered
    <3>4. CASE stepUpStore[StepUpKey(r)] > deadline /\ ~(now' > deadline)
      <4>1. stepUpStore[StepUpKey(r)] > now
        <5>1. stepUpStore[StepUpKey(r)] \in Nat
          BY <1>0, <2>1
        <5> HIDE DEF deadline
        <5> QED
          BY <1>0, <2>3, <3>4, <5>1
      <4> QED
        BY <2>1, <3>2, <3>4, <4>1, StepUpStays
    <3> HIDE DEF deadline
    <3> QED
      BY <1>0, <2>3, <3>3, <3>4
  <2> QED
    BY <2>1, <2>2, <2>4
<1>2. CASE ~Redeemed(r)
  <2> DEFINE deadline == state[call[r].from].expires + MaxDelay
  <2>1. /\ Reenter(r) /\ ~Holds(stepUpStore, StepUpKey(r), now)
        /\ stepUpStore' = Consume(stepUpStore, StepUpKey(r), now, StepUpTTL)
    BY <1>2, WhoRedeems
  <2>2. /\ stage[r] = "auth" /\ pc[r] = "verified" /\ call[r].from # NoReq
        /\ UNCHANGED <<call, state, authVars>>
    BY <2>1 DEF Reenter
  <2>3. StepUpKey(r) \in CallIds /\ deadline < now + StepUpTTL
    BY <2>2, ResumeInTime
  <2>4. stepUpStore'[StepUpKey(r)] = now + StepUpTTL
    BY <1>0, <2>1, <2>3 DEF Consume, Cleanup
  <2>5. StepUpKey(r)' = StepUpKey(r) /\ UNCHANGED pc
    BY <2>2 DEF StepUpKey, authVars
  <2> QED
    BY <2>2, <2>3, <2>4, <2>5
<1> QED
  BY <1>1, <1>2

\* A resume does not get past the store with a state that some request redeemed.
LEMMA RedeemedIsHeld ==
  ASSUME ServerIInv, [Next]_vars, NEW q \in Reqs, NEW r \in Reqs,
         Redeemed(q), Redeemed(r)', ~Redeemed(r), SameStores(q, r)
  PROVE  call[q].from # call[r].from
<1> SUFFICES ASSUME call[q].from = call[r].from
             PROVE  FALSE
  OBVIOUS
<1>1. Reenter(r) /\ ~Holds(stepUpStore, StepUpKey(r), now)
  BY WhoRedeems
<1>2. stage[r] = "auth" /\ pc[r] = "verified" /\ call[r].from # NoReq
  BY <1>1 DEF Reenter
<1>3. /\ state[call[r].from].expires \in Nat
      /\ now <= state[call[r].from].expires + MaxDelay
      /\ epochOf[r] = epoch /\ StepUpKey(r) \in CallIds
  BY <1>2, ResumeInTime
<1>4. Current(q)
  BY <1>3 DEF SameStores, Current
<1>5. StepUpKey(q) = StepUpKey(r)
  BY DEF StepUpKey
<1>6. now \in Nat /\ stepUpStore \in [CallIds -> Nat]
  BY DEF ServerIInv, TypeOK, AuthTypeOK
<1>7. \/ now > state[call[r].from].expires + MaxDelay
      \/ stepUpStore[StepUpKey(r)] > state[call[r].from].expires + MaxDelay
  BY <1>4, <1>5 DEF ServerIInv, StepUpRemembered
<1>8. stepUpStore[StepUpKey(r)] > now
  BY <1>3, <1>6, <1>7, TimingAssumption
<1> QED
  BY <1>1, <1>3, <1>6, <1>8, HoldsIsUnexpired

LEMMA RedeemedOnceStep == ServerIInv /\ [Next]_vars => StateRedeemedOnce'
<1> SUFFICES ASSUME ServerIInv, [Next]_vars, NEW q \in Reqs, NEW r \in Reqs, q # r,
                    Redeemed(q)', Redeemed(r)', SameStores(q, r)'
             PROVE  call'[q].from # call'[r].from
  BY DEF StateRedeemedOnce
<1>1. ASSUME NEW s \in Reqs, Redeemed(s)', ~Redeemed(s)
      PROVE  /\ Reenter(s) /\ call'[s] = call[s] /\ epochOf'[s] = epochOf[s]
             /\ stage[s] = "auth" /\ stage'[s] # "auth"
  <2>1. Reenter(s)
    BY <1>1, WhoRedeems
  <2>2. ServerShape
    BY ServerStep
  <2> QED
    BY <2>1, <2>2, <1>1, WhoRedeems DEF Reenter, Answer, ServerShape, authVars
<1>2. /\ call'[q] = call[q] /\ epochOf'[q] = epochOf[q]
      /\ call'[r] = call[r] /\ epochOf'[r] = epochOf[r]
  BY <1>1, RedeemedStays
<1>3. SameStores(q, r) /\ SameStores(r, q)
  BY <1>2 DEF SameStores
<1>4. CASE Redeemed(q) /\ Redeemed(r)
  BY <1>2, <1>3, <1>4 DEF ServerIInv, StateRedeemedOnce
<1>5. CASE Redeemed(q) /\ ~Redeemed(r)
  BY <1>2, <1>3, <1>5, RedeemedIsHeld
<1>6. CASE ~Redeemed(q) /\ Redeemed(r)
  BY <1>2, <1>3, <1>6, RedeemedIsHeld
<1>7. CASE ~Redeemed(q) /\ ~Redeemed(r)
  <2>1. Reenter(q) /\ stage[r] = "auth" /\ stage'[r] # "auth"
    BY <1>1, <1>7
  <2> QED
    BY <2>1, ServerStep DEF Reenter, Answer, ServerShape
<1> QED
  BY <1>4, <1>5, <1>6, <1>7

-----------------------------------------------------------------------------
(***************************************************************************)
(* The theorems.                                                           *)
(***************************************************************************)
LEMMA ServerInit == Init => ServerIInv
<1> SUFFICES ASSUME Init PROVE ServerIInv
  OBVIOUS
<1>1. TypeOK /\ AuthIInv
  BY AuthInitTyped, AuthInitSafe, ServerInitTyped DEF Init, AuthIInv, AuthTyped, AuthSafe
<1>2. StageFollowsPhase
  BY DEF Init, AuthInit, StageFollowsPhase, NoCall, NoRun, Awaiting
<1>3. \A r \in Reqs : ~state[r].minted /\ ~run[r].started /\ call[r].from = NoReq
  BY DEF Init, NoState, NoRun, NoCall
<1>4. \A r \in Reqs : ~Ran(r) /\ ~Redeemed(r) /\ stage[r] # "proving"
  BY <1>3 DEF Init, Ran, Resumed, Redeemed
<1>5. StatesBindCalls /\ ResumesAccepted /\ ProvingMatches /\ RunsForOwnCall
  BY <1>3, <1>4 DEF StatesBindCalls, ResumesAccepted, ProvingMatches, RunsForOwnCall
<1>6. StepUpRemembered /\ StateRedeemedOnce /\ RunMatchesSignedCall /\ RunHasEvidence
  BY <1>3, <1>4 DEF StepUpRemembered, StateRedeemedOnce, RunMatchesSignedCall, RunHasEvidence
<1> QED
  BY <1>1, <1>2, <1>5, <1>6 DEF ServerIInv

LEMMA ServerStepInvariant == ServerIInv /\ [Next]_vars => ServerIInv'
<1> SUFFICES ASSUME ServerIInv, [Next]_vars PROVE ServerIInv'
  OBVIOUS
<1>1. TypeOK' /\ AuthIInv'
  BY ServerStep
<1> QED
  BY <1>1, StageStep, StatesStep, ResumesStep, ProvingStep, RunsStep, StepUpStep,
     RedeemedOnceStep, RunMatchesStep, EvidenceStep
     DEF ServerIInv

\* The invariant of the whole wrapper (hors.ts with verify.ts and policy.ts).
THEOREM ServerInductive == Spec => []ServerIInv
BY ServerInit, ServerStepInvariant, PTL DEF Spec

\* The state of the wrapper keeps its types: no store entry, state or run is made from a
\* header, an answer or a level that is not there.
THEOREM ServerTypeCorrect == Spec => []TypeOK
<1>1. ServerIInv => TypeOK
  BY DEF ServerIInv
<1> QED
  BY <1>1, ServerInductive, PTL

\* The handler gets what the caller's key signed, on a first call and on a resume
\* (hors.ts compares the header with the call, and the state with the resume).
THEOREM RunsMatchSignedCalls == Spec => []RunMatchesSignedCall
<1>1. ServerIInv => RunMatchesSignedCall
  BY DEF ServerIInv
<1> QED
  BY <1>1, ServerInductive, PTL

\* Every run has the evidence the policy of the deployment that started it asks for
\* (evaluatePolicy on a first call, handleStepUpReentry on a resume).
THEOREM RunsHaveEvidence == Spec => []RunHasEvidence
<1>1. ServerIInv => RunHasEvidence
  BY DEF ServerIInv
<1> QED
  BY <1>1, ServerInductive, PTL

\* Among the resumes that are checked against the same store a request state is redeemed
\* once, whatever became of the first redemption (the step-up entry hors.ts consumes
\* outlives the state).
THEOREM StatesRedeemedOnce == Spec => []StateRedeemedOnce
<1>1. ServerIInv => StateRedeemedOnce
  BY DEF ServerIInv
<1> QED
  BY <1>1, ServerInductive, PTL

-----------------------------------------------------------------------------
(***************************************************************************)
(* A signed call runs once.  The key that signs request states must not    *)
(* outlive the replay stores: with config.stateKey set and the in-memory   *)
(* stores, a state minted before a restart is still accepted after it,     *)
(* when the header it was minted for can be presented again as well.       *)
(***************************************************************************)

\* What a run is for: a verified request that was answered with a state unless it is the
\* request that runs.
LEMMA RunFacts ==
  ASSUME ServerIInv, NEW r \in Reqs, Ran(r)
  PROVE  /\ run[r].of \in Reqs /\ pc[run[r].of] = "verified" /\ pc[r] = "verified"
         /\ CallRun(r) = msgOf[run[r].of] /\ CallRun(r) \in Msgs
         /\ StableKey \/ epochOf[run[r].of] = epochOf[r]
         /\ run[r].of # r => /\ run[r].of = call[r].from /\ Redeemed(r)
                             /\ ~run[run[r].of].started
<1>1. /\ pc[r] = "verified"
      /\ run[r].of = IF call[r].from = NoReq THEN r ELSE call[r].from
  BY DEF ServerIInv, RunsForOwnCall
<1>2. CASE call[r].from = NoReq
  <2>1. run[r].of = r
    BY <1>1, <1>2
  <2>2. msgOf[r] \in Msgs
    BY <1>1, CarriedTyped DEF ServerIInv, AuthIInv, AuthTyped
  <2> QED
    BY <1>1, <2>1, <2>2 DEF CallRun
<1>3. CASE call[r].from # NoReq
  <2>1. run[r].of = call[r].from /\ call[r].from \in Reqs
    BY <1>1, <1>3 DEF ServerIInv, TypeOK, CallRecords
  <2>2. /\ state[run[r].of].minted
        /\ StableKey \/ state[run[r].of].epoch = epochOf[r]
    BY <1>1, <1>3, <2>1 DEF ServerIInv, ResumesAccepted
  <2>3. /\ pc[run[r].of] = "verified" /\ ~run[run[r].of].started
        /\ state[run[r].of].epoch = epochOf[run[r].of]
    BY <2>1, <2>2 DEF ServerIInv, StatesBindCalls
  <2>4. msgOf[run[r].of] \in Msgs
    BY <2>1, <2>3, CarriedTyped DEF ServerIInv, AuthIInv, AuthTyped
  <2> QED
    BY <1>1, <2>1, <2>2, <2>3, <2>4 DEF CallRun, Redeemed, Resumed
<1> QED
  BY <1>2, <1>3

LEMMA InvariantRunsOnce ==
  ASSUME Durable \/ ~StableKey
  PROVE  ServerIInv => RunOncePerCall
<1> SUFFICES ASSUME ServerIInv, NEW q \in Reqs, NEW r \in Reqs, q # r,
                    Ran(q), Ran(r), SameStores(q, r), CallRun(q) = CallRun(r)
             PROVE  FALSE
  BY DEF RunOncePerCall
<1> DEFINE s == run[q].of
           t == run[r].of
<1>1. /\ s \in Reqs /\ pc[s] = "verified" /\ t \in Reqs /\ pc[t] = "verified"
      /\ msgOf[s] = msgOf[t] /\ SameStores(s, t)
  BY RunFacts DEF SameStores
<1>2. s = t
  BY <1>1 DEF ServerIInv, AuthIInv, HeaderSpentOnce, SpentNonce
<1>3. CASE s # q /\ t # r
  BY <1>2, <1>3, RunFacts DEF ServerIInv, StateRedeemedOnce
<1>4. CASE s = q \/ t = r
  BY <1>2, <1>4, RunFacts DEF Ran
<1> QED
  BY <1>3, <1>4

\* A signed call runs its handler at most once (hors.ts): no copy of its header, no second
\* resume and no restart makes it run again while the stores last.
THEOREM RunsOncePerCall ==
  ASSUME Durable \/ ~StableKey
  PROVE  Spec => []RunOncePerCall
<1>1. ServerIInv => RunOncePerCall
  BY InvariantRunsOnce
<1> QED
  BY <1>1, ServerInductive, PTL

\* A handler that starts for a signed call is admitted by the gate.
LEMMA StartAdmits ==
  ASSUME ServerIInv, [Next]_vars, RunOncePerCall', NEW r \in Reqs, Ran(r)', ~Ran(r)
  PROVE  RunGate!Next
<1>0. ServerShape /\ ServerShape' /\ AuthTyped
  BY ServerStep
<1>1. ~run[r].started
  BY EvidenceStays DEF Ran
<1>2. PICK q \in Reqs :
        /\ StartHandler(r, q) /\ pc[q] = "verified"
        /\ UNCHANGED authVars /\ stage[r] \in {"auth", "proving"}
  <2>1. ~StartHandler(r, NoReq)
    BY StartedRecord DEF Ran
  <2>2. CASE Decide(r) /\ StartHandler(r, r)
    BY <2>2 DEF Decide
  <2>3. CASE AcceptProof(r) /\ StartHandler(r, call[r].from)
    <3>1. /\ stage[r] = "proving" /\ UNCHANGED authVars
          /\ call[r].from \in Reqs /\ call[r].from # NoReq /\ pc[r] = "verified"
      BY <2>3 DEF AcceptProof, ServerIInv, TypeOK, CallRecords, ProvingMatches, StageFollowsPhase
    <3>2. pc[call[r].from] = "verified"
      BY <3>1 DEF ServerIInv, ResumesAccepted, StatesBindCalls
    <3> QED
      BY <2>3, <3>1, <3>2
  <2> QED
    BY <1>1, <2>1, <2>2, <2>3, WhoStarts DEF Ran
<1>3. UNCHANGED <<msgOf, epoch, epochOf>> /\ \A s \in Reqs \ {r} : run'[s] = run[s]
  BY <1>0, <1>2 DEF authVars, processVars, StartHandler, ServerShape
<1>4. \A s \in Reqs : Current(s)' = Current(s)
  BY <1>3 DEF Current
<1>5. Current(r)'
  BY <1>2, <1>4 DEF ServerIInv, StageFollowsPhase, Current
<1>6. \A s \in Reqs \ {r} : (Ran(s)' = Ran(s)) /\ (Ran(s) => CallRun(s)' = CallRun(s))
  BY <1>3 DEF Ran, CallRun
<1>7. PICK c : c = CallRun(r)'
  OBVIOUS
<1>8. RunTickets' = RunTickets \cup {<<r, c>>}
  BY <1>4, <1>5, <1>6, <1>7 DEF RunTickets
<1>9. c \in Msgs
  BY <1>0, <1>2, <1>3, <1>7, CarriedTyped, StartedRecord DEF CallRun
<1>10. ASSUME NEW ticket \in RunTickets PROVE ticket[1] # r /\ ticket[2] # c
  <2>1. PICK s \in Reqs : Ran(s) /\ Current(s) /\ ticket = <<s, CallRun(s)>>
    BY <1>10 DEF RunTickets
  <2>2. s # r
    BY <2>1
  <2>3. Ran(s)' /\ CallRun(s)' = CallRun(s) /\ SameStores(s, r)'
    BY <1>4, <1>5, <1>6, <2>1, <2>2 DEF Current, SameStores
  <2> QED
    BY <1>7, <2>1, <2>2, <2>3 DEF RunOncePerCall
<1> QED
  BY <1>8, <1>9, <1>10 DEF RunGate!Next, RunGate!Admit

\* No other step changes who ran what, except a restart that loses the stores.
LEMMA ServerStepRefines ==
  ServerIInv /\ [Next]_vars /\ RunOncePerCall' => [RunGate!Next]_RunTickets
<1> SUFFICES ASSUME ServerIInv, [Next]_vars, RunOncePerCall'
             PROVE  [RunGate!Next]_RunTickets
  OBVIOUS
<1>1. CASE \E r \in Reqs : Ran(r)' /\ ~Ran(r)
  BY <1>1, StartAdmits
<1>2. CASE \A r \in Reqs : Ran(r)' => Ran(r)
  <2>0. /\ epoch \in Nat /\ epoch' \in Nat /\ epoch <= epoch'
        /\ \A r \in Reqs : epochOf[r] \in Nat /\ epochOf[r] <= epoch
    BY ServerStep
       DEF HeadersStay, ServerIInv, TypeOK, AuthIInv, AuthTyped, AuthTypeOK, RecordsThePast
  <2>1. ASSUME NEW r \in Reqs, Ran(r)
        PROVE  Ran(r)' /\ CallRun(r)' = CallRun(r) /\ epochOf'[r] = epochOf[r]
    <3>1. run[r].of \in Reqs /\ pc[run[r].of] = "verified" /\ pc[r] = "verified"
      BY <2>1, RunFacts
    <3>2. run'[r] = run[r]
      BY <2>1, EvidenceStays DEF Ran
    <3> QED
      BY <2>1, <3>1, <3>2, ServerStep DEF HeadersStay, Ran, CallRun
  <2>2. CASE Durable \/ epoch' = epoch
    <3>1. \A r \in Reqs : Ran(r) => Current(r)' = Current(r)
      BY <2>1, <2>2 DEF Current
    <3> QED
      BY <1>2, <2>1, <3>1 DEF RunTickets
  <2>3. CASE ~Durable /\ epoch' # epoch
    <3>1. \A r \in Reqs : Ran(r)' => ~Current(r)'
      BY <1>2, <2>0, <2>1, <2>3 DEF Current
    <3>2. RunTickets' = {}
      BY <3>1 DEF RunTickets
    <3> QED
      BY <2>3, <3>2 DEF RunGate!Next, RunGate!Forget
  <2> QED
    BY <2>2, <2>3
<1> QED
  BY <1>1, <1>2

\* Seen from the handlers the service is the gate that verification alone is: whatever a
\* request goes through, challenge, resume and proof included, a signed call is admitted
\* to its handler once (hors.ts implements the abstract gate).
THEOREM ServerImplementsRunGate ==
  ASSUME Durable \/ ~StableKey
  PROVE  Spec => RunGateSpec
<1>1. Init => RunGate!Init
  BY DEF Init, NoRun, Ran, RunTickets, RunGate!Init
<1>2. ServerIInv => RunOncePerCall
  BY InvariantRunsOnce
<1> QED
  BY <1>1, <1>2, ServerInit, ServerStepInvariant, ServerStepRefines, PTL
     DEF Spec, RunGateSpec, RunGate!Spec
=============================================================================
