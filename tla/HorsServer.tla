----------------------------- MODULE HorsServer -----------------------------
(***************************************************************************)
(* The tool wrapper of hors-server (hors.ts): what happens to one MCP      *)
(* tools/call from its arrival to its answer, composed with header         *)
(* verification (HorsAuth) and the policy engine (HorsPolicy).             *)
(*                                                                         *)
(* A call whose policy asks for a Selfie or Identity check is answered     *)
(* with a challenge and a signed request state; the client completes the   *)
(* challenge with a human and resumes with a new request that carries the  *)
(* state, a fresh header and the proof.  The state minted by request q is  *)
(* identified by q.                                                        *)
(***************************************************************************)
EXTENDS HorsAuth, HorsPolicy

CONSTANTS
  Fns,           \* the registered tools
  ArgVals,       \* argument objects; their hash is injective, so equality stands for it
  FnOf, ArgsOf,  \* function and arguments a header is signed for
  ServiceOf,     \* what each deployment registers: policies, adapters and executors
  Owner,         \* config.humanOrigin
  NoReq,         \* no request state
  StateTTL,      \* ttlSeconds of the request state
  StepUpTTL,     \* lifetimes of the step-up and nullifier store entries
  NullifierTTL,
  StableKey      \* TRUE: config.stateKey is set; FALSE: a random key per process

ASSUME ServerAssumption ==
  /\ FnOf \in [Msgs -> Fns]
  /\ ArgsOf \in [Msgs -> ArgVals]
  /\ Owner \in Humans
  /\ NoReq \notin Reqs
  /\ Fns # {} /\ ArgVals # {}
  /\ StateTTL \in Nat /\ StepUpTTL \in Nat \ {0} /\ NullifierTTL \in Nat \ {0}
  /\ StableKey \in BOOLEAN
  /\ \A d \in Deployments : \A f \in Fns : ValidPolicy(ServiceOf[d].policies[f])

\* A redeemed step-up is remembered for as long as its state can be presented:
\* 600 s against a 300 s state.
ASSUME StepUpOutlivesState == StepUpTTL > StateTTL + MaxDelay

VARIABLES
  stage,          \* how far the wrapper is with each request
  call,           \* what the request asks for
  state,          \* the request state it was answered with
  run,            \* the handler run it started
  reply,          \* how it was answered
  completed,      \* proofs humans have produced with World App
  stepUpStore,
  nullifierStore

serverVars == <<stage, call, state, run, reply, completed, stepUpStore, nullifierStore>>
vars == <<authVars, serverVars>>

\* "auth": in verifyAuthHeader; "proving": awaiting the World API; "running": in the
\* handler or finalizeAllowResult.
Stages == {"idle", "auth", "proving", "running", "done", "lost"}

\* Answers that carry _meta.hors, and ProtocolErrors that are thrown instead.
Results == {"executed", "denied", "policyDenied", "challenged"}
Thrown  == {"noExecutor", "rethrown", "wrongFunction", "stateReplayed", "notAssured",
            "handlerThrew", "withheld"}
Replies == {"none", "badState"} \cup Results \cup Thrown

NoAnswer == [kind |-> "none", of |-> NoReq, human |-> NoHuman]
Declined == [kind |-> "decline", of |-> NoReq, human |-> NoHuman]
NoCall   == [fn |-> CHOOSE f \in Fns : TRUE, args |-> CHOOSE a \in ArgVals : TRUE,
             from |-> NoReq, answer |-> NoAnswer]
NoState  == [minted |-> FALSE]
NoRun    == [started |-> FALSE]

ProofsOf(q)  == [kind : {"proof"}, of : {q}, human : Humans]
Actions       == Levels \X CallIds
NullifierKeys == Actions \X Humans

\* What a request may ask for, what a state binds, and a run of the handler.
CallRecords ==
  [fn : Fns, args : ArgVals, from : Reqs \cup {NoReq},
   answer : {NoAnswer, Declined} \cup completed]
AttributeLists ==
  {Attributes(ServiceOf[d].policies[f]) : d \in Deployments, f \in Fns}
StateRecords ==
  [minted : {TRUE}, fn : Fns, args : ArgVals, human : Humans, level : Levels,
   attributes : AttributeLists, expires : Nat, epoch : Nat]
RunRecords ==
  [started : {TRUE}, of : Reqs \cup {NoReq}, deployment : Deployments]

TypeOK ==
  /\ AuthTypeOK
  /\ stage \in [Reqs -> Stages]
  /\ call \in [Reqs -> CallRecords]
  /\ state \in [Reqs -> {NoState} \cup StateRecords]
  /\ run \in [Reqs -> {NoRun} \cup RunRecords]
  /\ reply \in [Reqs -> Replies]
  /\ completed \subseteq UNION {ProofsOf(q) : q \in {r \in Reqs : state[r].minted}}
  /\ stepUpStore \in [CallIds -> Nat]
  /\ nullifierStore \in [NullifierKeys -> Nat]

Init ==
  /\ AuthInit
  /\ stage = [r \in Reqs |-> "idle"]
  /\ call = [r \in Reqs |-> NoCall]
  /\ state = [r \in Reqs |-> NoState]
  /\ run = [r \in Reqs |-> NoRun]
  /\ reply = [r \in Reqs |-> "none"]
  /\ completed = {}
  /\ stepUpStore = EmptyStore(CallIds)
  /\ nullifierStore = EmptyStore(NullifierKeys)

-----------------------------------------------------------------------------
(***************************************************************************)
(* Shorthands.                                                             *)
(***************************************************************************)
PolicyFor(f) == ServiceOf[deployment].policies[f]

HasAdapters == ServiceOf[deployment].assurance

\* createAssurance names the challenge after the call it is for.
Action(q) == <<state[q].level, CallIdOf[msgOf[q]]>>

\* buildAssuranceSignal: address, function, arguments, nonce and attributes.
Signal(q) == <<SignerOf[msgOf[q]], state[q].fn, state[q].args, NonceOf[msgOf[q]],
               state[q].attributes>>

Answer(r, how) ==
  /\ stage' = [stage EXCEPT ![r] = "done"]
  /\ reply' = [reply EXCEPT ![r] = how]

\* The handler is called for the signed call of request `of`.
StartHandler(r, of) ==
  /\ stage' = [stage EXCEPT ![r] = "running"]
  /\ run' = [run EXCEPT ![r] = [started |-> TRUE, of |-> of, deployment |-> deployment]]
  /\ UNCHANGED reply

-----------------------------------------------------------------------------
(***************************************************************************)
(* Arrival.                                                                *)
(***************************************************************************)

\* Mutant: a request state does not expire.
StateAcceptedLate(q, m) ==
  /\ StableKey \/ state[q].epoch = epoch
  /\ m # NoMsg /\ SignerOf[m] = SignerOf[msgOf[q]]

\* The SDK checks a request state before the tool sees it: signed with this process's
\* key, not expired, and bound to the address in the header.
StateAccepted(q, m) ==
  /\ StableKey \/ state[q].epoch = epoch
  /\ now <= state[q].expires
  /\ m # NoMsg /\ SignerOf[m] = SignerOf[msgOf[q]]

\* The checks before any await, in the order the wrapper makes them.
OnArrival(f, hasHeader, stateAccepted) ==
  LET p == PolicyFor(f) IN
  IF ~stateAccepted THEN "badState"
  ELSE IF ~Callable(p) THEN "denied"
  ELSE IF Executor(p) \notin {"local"} \cup ServiceOf[deployment].executors THEN "noExecutor"
  ELSE IF SkipsAuthorization(p) THEN "public"
  ELSE IF ~hasHeader THEN "denied"
  ELSE "verify"

\* What a request may ask for: any tool with any arguments, with no state, or with a
\* state some request was answered with and whatever answer the client gives.
Asks(f, a, q, ans) ==
  /\ q = NoReq => ans = NoAnswer
  /\ q # NoReq => state[q].minted

Invoke(r, m, f, a, q, ans) ==
  /\ stage[r] = "idle"
  /\ Asks(f, a, q, ans)
  /\ call' = [call EXCEPT ![r] = [fn |-> f, args |-> a, from |-> q, answer |-> ans]]
  /\ LET verdict == OnArrival(f, m # NoMsg, q = NoReq \/ StateAccepted(q, m)) IN
     \/ /\ verdict \in Replies
        /\ Answer(r, verdict)
        /\ UNCHANGED <<authVars, run>>
     \/ /\ verdict = "public"
        /\ StartHandler(r, NoReq)
        /\ UNCHANGED authVars
     \/ /\ verdict = "verify"
        /\ Arrive(r, m)
        /\ IF pc'[r] = "refused"
             THEN Answer(r, "denied")
             ELSE stage' = [stage EXCEPT ![r] = "auth"] /\ UNCHANGED reply
        /\ UNCHANGED run
  /\ UNCHANGED <<state, completed, stepUpStore, nullifierStore>>

\* A header that does not parse, or is for another domain.
InvokeMalformed(r, f) ==
  /\ stage[r] = "idle"
  /\ OnArrival(f, TRUE, TRUE) = "verify"
  /\ ArriveMalformed(r)
  /\ Answer(r, "denied")
  /\ UNCHANGED <<call, state, run, completed, stepUpStore, nullifierStore>>

\* Mutant: an error that is not a HORSError is swallowed.
VerifySwallowing(r) ==
  /\ stage[r] = "auth"
  /\ VerifyStep(r)
  /\ IF pc'[r] \in Rejected THEN Answer(r, "denied") ELSE UNCHANGED <<stage, reply>>
  /\ UNCHANGED <<call, state, run, completed, stepUpStore, nullifierStore>>

\* verifyAuthHeader: a HORSError becomes a deny result, anything else is rethrown.
Verify(r) ==
  /\ stage[r] = "auth"
  /\ VerifyStep(r)
  /\ CASE pc'[r] \in Rejected  -> Answer(r, "denied")
       [] pc'[r] \in Faulted   -> Answer(r, "rethrown")
       [] OTHER                -> UNCHANGED <<stage, reply>>
  /\ UNCHANGED <<call, state, run, completed, stepUpStore, nullifierStore>>

-----------------------------------------------------------------------------
(***************************************************************************)
(* A first call.                                                           *)
(***************************************************************************)

\* Mutant: the hash of the arguments is not compared.
MatchesHeaderAnyArgs(r) == FnOf[msgOf[r]] = call[r].fn

\* The tool and the arguments of the request are the signed ones.
MatchesHeader(r) ==
  /\ FnOf[msgOf[r]] = call[r].fn
  /\ ArgsOf[msgOf[r]] = call[r].args

\* The request state binds the call, the human and the level, and expires.
MintState(r, level) ==
  state' = [state EXCEPT ![r] =
              [minted |-> TRUE, fn |-> call[r].fn, args |-> ArgsOf[msgOf[r]],
               human |-> humanOf[r], level |-> level,
               attributes |-> Attributes(PolicyFor(call[r].fn)),
               expires |-> now + StateTTL, epoch |-> epoch]]

Decide(r) ==
  LET decision == evaluatePolicy(PolicyFor(call[r].fn), humanOf[r], Owner, <<>>) IN
  /\ stage[r] = "auth" /\ pc[r] = "verified" /\ call[r].from = NoReq
  /\ \/ /\ ~MatchesHeader(r) \/ decision.status = "deny"
        /\ Answer(r, "denied")
        /\ UNCHANGED <<state, run>>
     \/ /\ MatchesHeader(r) /\ decision.status = "allow"
        /\ StartHandler(r, r)
        /\ UNCHANGED state
     \/ /\ MatchesHeader(r) /\ decision.status = "step-up-required"
        /\ IF HasAdapters
             THEN MintState(r, decision.required) /\ Answer(r, "challenged")
             ELSE Answer(r, "denied") /\ UNCHANGED state
        /\ UNCHANGED run
  /\ UNCHANGED <<authVars, call, completed, stepUpStore, nullifierStore>>

\* A human completes the challenge of request q with World App.
Complete(q, h) ==
  /\ state[q].minted
  /\ completed' = completed \cup {[kind |-> "proof", of |-> q, human |-> h]}
  /\ completed' # completed
  /\ UNCHANGED <<authVars, stage, call, state, run, reply, stepUpStore, nullifierStore>>

-----------------------------------------------------------------------------
(***************************************************************************)
(* handleStepUpReentry.                                                    *)
(***************************************************************************)

\* Mutant: the step-up is remembered by the call id of the resume's own header.
OwnStepUpKey(r) == CallIdOf[msgOf[r]]

\* stepup:${state.callId}
StepUpKey(r) == CallIdOf[msgOf[call[r].from]]

\* The step-up is consumed before the answer, the arguments and the proof are looked
\* at: every failure after that point leaves it spent.  A store of config.stores may
\* reject instead, whether or not it has recorded the step-up.
Reenter(r) ==
  LET q      == call[r].from
      replay == Holds(stepUpStore, StepUpKey(r), now)
      usable == /\ call[r].answer.kind = "proof"
                /\ call[r].args = state[q].args
                /\ HasAdapters
  IN
  /\ stage[r] = "auth" /\ pc[r] = "verified" /\ q # NoReq
  /\ IF SignerOf[msgOf[r]] # SignerOf[msgOf[q]]
       THEN Answer(r, "denied") /\ UNCHANGED stepUpStore
     ELSE IF state[q].fn # call[r].fn
       THEN Answer(r, "wrongFunction") /\ UNCHANGED stepUpStore
     ELSE
       \/ /\ stepUpStore' = Consume(stepUpStore, StepUpKey(r), now, StepUpTTL)
          /\ IF replay THEN Answer(r, "stateReplayed")
             ELSE IF ~usable THEN Answer(r, "notAssured")
             ELSE stage' = [stage EXCEPT ![r] = "proving"] /\ UNCHANGED reply
       \/ /\ StoresReject
          /\ stepUpStore' \in {stepUpStore,
                               Consume(stepUpStore, StepUpKey(r), now, StepUpTTL)}
          /\ Answer(r, "rethrown")
  /\ UNCHANGED <<authVars, call, state, run, completed, nullifierStore>>

\* World vouches for the proof, and its action and signal are the ones the state
\* expects.
ProofFits(r) ==
  LET proof == call[r].answer IN
  /\ Action(proof.of) = Action(call[r].from)
  /\ Signal(proof.of) = Signal(call[r].from)

\* What World names the human by for this action.
Nullifier(r) == <<Action(call[r].answer.of), call[r].answer.human>>

\* adapter.verify after a good World answer, then the policy of the running
\* deployment with the human the state was minted for.
AcceptProof(r) ==
  LET q         == call[r].from
      nullifier == Nullifier(r)
      decision  == evaluatePolicy(PolicyFor(call[r].fn), state[q].human, Owner,
                                  ProofOfStepUp(state[q].level))
  IN
  /\ stage[r] = "proving"
  /\ ProofFits(r)
  /\ nullifierStore' = Consume(nullifierStore, nullifier, now, NullifierTTL)
  /\ IF Holds(nullifierStore, nullifier, now)
       THEN Answer(r, "notAssured") /\ UNCHANGED run
     ELSE IF decision.status = "allow"
       THEN StartHandler(r, q)
     ELSE Answer(r, "policyDenied") /\ UNCHANGED run
  /\ UNCHANGED <<authVars, call, state, completed, stepUpStore>>

\* World refuses or cannot be reached, the proof is for another challenge, or a store
\* of config.stores rejects, whether or not it has recorded the nullifier.
RefuseProof(r) ==
  /\ stage[r] = "proving"
  /\ Answer(r, "notAssured")
  /\ \/ UNCHANGED nullifierStore
     \/ /\ StoresReject /\ ProofFits(r)
        /\ nullifierStore' = Consume(nullifierStore, Nullifier(r), now, NullifierTTL)
  /\ UNCHANGED <<authVars, call, state, run, completed, stepUpStore>>

-----------------------------------------------------------------------------
(***************************************************************************)
(* The end of a run, the process and the clock.                            *)
(***************************************************************************)

\* finalizeAllowResult: a result that needs an executor receipt and has none that
\* holds is withheld although the handler ran; audit failures change nothing.
Return(r, how) ==
  /\ stage[r] = "running"
  /\ how = "withheld" => Executor(PolicyFor(call[r].fn)) # "local"
  /\ Answer(r, how)
  /\ UNCHANGED <<authVars, call, state, run, completed, stepUpStore, nullifierStore>>

\* What the two step-up stores hold after a restart.
StepUpsSurvive ==
  IF Durable
    THEN UNCHANGED <<stepUpStore, nullifierStore>>
    ELSE /\ stepUpStore' = EmptyStore(CallIds)
         /\ nullifierStore' = EmptyStore(NullifierKeys)

\* A process stops in the middle of everything it was doing; what clients and humans
\* hold survives, and so do durable stores.
RestartServer(d) ==
  /\ Restart(d)
  /\ stage' = [r \in Reqs |-> IF stage[r] \in {"auth", "proving", "running"}
                                THEN "lost" ELSE stage[r]]
  /\ StepUpsSurvive
  /\ UNCHANGED <<call, state, run, reply, completed>>

\* The MaxDelay of HorsAuth covers the step-up store as well.
TickServer ==
  /\ \A r \in Reqs : stage[r] = "auth" => now < arrivedAt[r] + MaxDelay
  /\ Tick
  /\ UNCHANGED serverVars

World ==
  \/ \E m \in Msgs : Sign(m) /\ UNCHANGED serverVars
  \/ \E a \in Addrs, h \in Humans \cup {NoHuman} : Register(a, h) /\ UNCHANGED serverVars
  \/ \E q \in Reqs, h \in Humans : Complete(q, h)
  \/ \E r \in Reqs, m \in signed \cup {NoMsg}, f \in Fns, a \in ArgVals,
        q \in Reqs \cup {NoReq}, ans \in {NoAnswer, Declined} \cup completed :
       Invoke(r, m, f, a, q, ans)
  \/ \E r \in Reqs, f \in Fns : InvokeMalformed(r, f)
  \/ \E d \in Deployments : RestartServer(d)
  \/ TickServer

\* What the event loop owes request r once it has arrived.
Serve(r) ==
  \/ Verify(r)
  \/ Decide(r)
  \/ Reenter(r)
  \/ AcceptProof(r)
  \/ RefuseProof(r)
  \/ \E how \in {"executed", "withheld", "handlerThrew"} : Return(r, how)

Next == World \/ \E r \in Reqs : Serve(r)

\* Signature checks, stores, AgentBook, World API and handlers return eventually; the
\* outside world owes nothing.
Spec == Init /\ [][Next]_vars /\ \A r \in Reqs : WF_vars(Serve(r))

-----------------------------------------------------------------------------
(***************************************************************************)
(* Properties.                                                             *)
(***************************************************************************)

\* The handler ran, or is running, for a signed call; Resumed, after a step-up.
Ran(r)     == run[r].started /\ run[r].of # NoReq
Resumed(r) == Ran(r) /\ run[r].of # r
CallRun(r) == msgOf[run[r].of]

\* A signed call runs its handler at most once for as long as the stores last: not by
\* a copy of its header, not by redeeming its state twice, not by two resumes whose
\* proofs are checked at the same time, not after a restart of the process.  (A stable key
\* outlives stores that are not durable: then a state of the old process is still good, and
\* the header it was given for is new again to the next process, which may run it without
\* a challenge.)
RunOncePerCall ==
  \A q, r \in Reqs :
    q # r /\ Ran(q) /\ Ran(r) /\ SameStores(q, r) => CallRun(q) # CallRun(r)

\* The handler gets the function and arguments that the caller's key signed, also when
\* the request that reaches it is a resume whose own header was signed for something
\* else (hors.ts checks that header only for its address).
RunMatchesSignedCall ==
  \A r \in Reqs : Ran(r) =>
    /\ FnOf[CallRun(r)] = call[r].fn
    /\ ArgsOf[CallRun(r)] = call[r].args
    /\ SignerOf[CallRun(r)] = SignerOf[msgOf[r]]

\* Whatever deployment runs the handler, its policy permits the call for the human
\* AgentBook named when the call was admitted; a call that was resumed has a proof some
\* human produced for exactly this challenge.
RunHasEvidence ==
  \A r \in Reqs : run[r].started =>
    LET q      == run[r].of
        policy == ServiceOf[run[r].deployment].policies[call[r].fn]
    IN
    /\ Permitted(policy,
                 IF q = NoReq THEN NoHuman ELSE humanOf[q],
                 Owner,
                 IF Resumed(r) THEN ProofOfStepUp(state[q].level) ELSE <<>>)
    /\ Resumed(r) => \E proof \in completed :
                        Action(proof.of) = Action(q) /\ Signal(proof.of) = Signal(q)

\* The resume got past the step-up store.
Redeemed(r) ==
  \/ stage[r] = "proving"
  \/ reply[r] \in {"notAssured", "policyDenied"}
  \/ Resumed(r)

\* A request state is redeemed once: a resume that failed for any reason, a declined
\* challenge or a World outage included, leaves nothing for a second one to redeem.
StateRedeemedOnce ==
  \A q, r \in Reqs :
    q # r /\ Redeemed(q) /\ Redeemed(r) /\ SameStores(q, r) => call[q].from # call[r].from

\* Every tools/call is answered, unless the process stops under it.
EveryCallAnswered ==
  \A r \in Reqs : stage[r] \in {"auth", "proving", "running"} ~> stage[r] \in {"done", "lost"}

\* The requests whose handler ran, with the call it ran for.
RunTickets == {<<r, CallRun(r)>> : r \in {q \in Reqs : Ran(q) /\ Current(q)}}

RunGate == INSTANCE HorsGate WITH Requests <- Reqs, Calls <- Msgs, admitted <- RunTickets

\* Seen from the handlers the whole service is the same gate as header verification:
\* challenges, resumes and proofs add no second way in.
RunGateSpec == RunGate!Spec

-----------------------------------------------------------------------------
(***************************************************************************)
(* The inductive invariant behind these properties.                        *)
(***************************************************************************)

\* The wrapper and the verification it awaits are equally far, in the same process, and
\* neither is late.
StageFollowsPhase ==
  \A r \in Reqs :
    /\ stage[r] = "idle" => pc[r] = "idle" /\ call[r].from = NoReq
    /\ pc[r] \in Awaiting => stage[r] = "auth"
    /\ stage[r] = "auth" => /\ pc[r] \in Awaiting \cup {"verified"}
                            /\ now <= arrivedAt[r] + MaxDelay
    /\ stage[r] = "proving" => pc[r] = "verified"
    /\ stage[r] \in {"auth", "proving"} => epochOf[r] = epoch
    /\ stage[r] \in {"idle", "auth", "proving"} => ~run[r].started
    /\ pc[r] = "verified" => humanOf[r] \in Humans

\* A state binds the call its request was signed for, and that request ran nothing.
StatesBindCalls ==
  \A q \in Reqs : state[q].minted =>
    /\ pc[q] = "verified" /\ stage[q] = "done" /\ ~run[q].started
    /\ state[q].fn = FnOf[msgOf[q]] /\ state[q].args = ArgsOf[msgOf[q]]
    /\ state[q].human = humanOf[q]
    /\ state[q].epoch = epochOf[q]
    /\ state[q].expires <= now + StateTTL

\* A resume that got to verification came in time, from the address of the call.
ResumesAccepted ==
  \A r \in Reqs : pc[r] # "idle" /\ call[r].from # NoReq =>
    LET q == call[r].from IN
    /\ state[q].minted
    /\ arrivedAt[r] <= state[q].expires
    /\ SignerOf[msgOf[r]] = SignerOf[msgOf[q]]
    /\ StableKey \/ state[q].epoch = epochOf[r]

\* A resume that awaits the World API brings a proof for the bound call.
ProvingMatches ==
  \A r \in Reqs : stage[r] = "proving" =>
    /\ call[r].from # NoReq
    /\ call[r].answer \in completed
    /\ call[r].fn = state[call[r].from].fn
    /\ call[r].args = state[call[r].from].args

\* A run is for the request's own call, or for the one it resumes.
RunsForOwnCall ==
  \A r \in Reqs : Ran(r) =>
    /\ pc[r] = "verified"
    /\ run[r].of = IF call[r].from = NoReq THEN r ELSE call[r].from

\* As long as a redeemed state can be presented again, the store holds its step-up.
StepUpRemembered ==
  \A r \in Reqs : Redeemed(r) =>
    LET q == call[r].from
        deadline == state[q].expires + MaxDelay
    IN
    /\ pc[r] = "verified" /\ q # NoReq
    /\ Current(r) => now > deadline \/ stepUpStore[StepUpKey(r)] > deadline

ServerIInv ==
  /\ TypeOK
  /\ AuthIInv
  /\ StageFollowsPhase
  /\ StatesBindCalls
  /\ ResumesAccepted
  /\ ProvingMatches
  /\ RunsForOwnCall
  /\ StepUpRemembered
  /\ StateRedeemedOnce
  /\ RunMatchesSignedCall
  /\ RunHasEvidence

-----------------------------------------------------------------------------
(***************************************************************************)
(* What the documents say and the code does not do.                        *)
(***************************************************************************)

\* docs/ARCHITECTURE.md: the state binds the humanId and "the resumed call is rejected
\* if any of those values changes".
ResumeKeepsHuman ==
  \A r \in Reqs : Resumed(r) => humanOf[r] = humanOf[run[r].of]

\* docs/ARCHITECTURE.md: the resumed call is rejected "if the state or proof nullifier
\* is reused".
ReusedStateRejected ==
  \A q, r \in Reqs : q # r /\ Resumed(q) /\ Resumed(r) => call[q].from # call[r].from
=============================================================================
