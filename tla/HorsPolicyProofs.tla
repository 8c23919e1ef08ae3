-------------------------- MODULE HorsPolicyProofs --------------------------
(***************************************************************************)
(* TLAPS proofs about HorsPolicy, for every policy, caller and list of     *)
(* proofs.                                                                 *)
(***************************************************************************)
EXTENDS HorsPolicy, TLAPS

\* An optional field that is present has the value it was given.
LEMMA OrElsePresent ==
  ASSUME NEW v, NEW default
  PROVE  OrElse({v}, default) = v
BY DEF OrElse

\* An optional field is omitted or holds one value.
LEMMA OptionalCases ==
  ASSUME NEW S, NEW opt \in Optional(S)
  PROVE  opt = {} \/ \E v \in S : opt = {v}
BY DEF Optional

\* agentCallable admits agents unless it is false.
LEMMA CallableUnlessFalse ==
  ASSUME NEW policy, policy.agentCallable \in Optional(BOOLEAN)
  PROVE  Callable(policy) <=> policy.agentCallable # {FALSE}
<1>1. policy.agentCallable = {} \/ policy.agentCallable = {TRUE} \/ policy.agentCallable = {FALSE}
  <2>1. policy.agentCallable = {} \/ \E v \in BOOLEAN : policy.agentCallable = {v}
    BY OptionalCases
  <2>2. CASE policy.agentCallable # {}
    <3>1. PICK v \in BOOLEAN : policy.agentCallable = {v}
      BY <2>1, <2>2
    <3>2. v = TRUE \/ v = FALSE
      OBVIOUS
    <3> QED
      BY <3>1, <3>2, Zenon
  <2> QED
    BY <2>2
<1>2. CASE policy.agentCallable = {}
  BY <1>2 DEF Callable, OrElse
<1>3. CASE policy.agentCallable = {TRUE}
  <2>1. Callable(policy) = TRUE
    BY <1>3, OrElsePresent DEF Callable
  <2> QED
    BY <1>3, <2>1
<1>4. CASE policy.agentCallable = {FALSE}
  <2>1. Callable(policy) = FALSE
    BY <1>4, OrElsePresent DEF Callable
  <2> QED
    BY <1>4, <2>1
<1> QED
  BY <1>1, <1>2, <1>3, <1>4

\* The level of a policy is "none" when the field is omitted, and the field otherwise.
LEMMA AssuranceCases ==
  ASSUME NEW values, NEW policy, policy.assurance \in Optional(values)
  PROVE  /\ Assurance(policy) \in values \cup {"none"}
         /\ Assurance(policy) = "none" <=> policy.assurance \in {{}, {"none"}}
         /\ \A level : level # "none" =>
              (Assurance(policy) = level <=> policy.assurance = {level})
<1>1. policy.assurance = {} \/ \E v \in values : policy.assurance = {v}
  BY OptionalCases
<1>2. CASE policy.assurance = {}
  BY <1>2 DEF Assurance, OrElse
<1>3. ASSUME NEW v \in values, policy.assurance = {v}
      PROVE  /\ Assurance(policy) = v
             /\ \A level : policy.assurance = {level} <=> v = level
  BY <1>3, OrElsePresent DEF Assurance
<1> QED
  BY <1>1, <1>2, <1>3

\* The executor of a policy is "local" when the field is omitted, and the field otherwise.
LEMMA ExecutorCases ==
  ASSUME NEW values, NEW policy, policy.executor \in Optional(values)
  PROVE  \A name : name # "local" => (Executor(policy) = name <=> policy.executor = {name})
<1>1. policy.executor = {} \/ \E v \in values : policy.executor = {v}
  BY OptionalCases
<1>2. CASE policy.executor = {}
  BY <1>2 DEF Executor, OrElse
<1>3. ASSUME NEW v \in values, policy.executor = {v}
      PROVE  /\ Executor(policy) = v
             /\ \A name : policy.executor = {name} <=> v = name
  BY <1>3, OrElsePresent DEF Executor
<1> QED
  BY <1>1, <1>2, <1>3

\* The attributes of a policy are the empty list when the field is omitted.
LEMMA AttributesCases ==
  ASSUME NEW lists, NEW policy, policy.identityAttributes \in Optional(lists)
  PROVE  Attributes(policy) = <<>> <=> policy.identityAttributes \in {{}, {<<>>}}
<1>1. policy.identityAttributes = {} \/ \E v \in lists : policy.identityAttributes = {v}
  BY OptionalCases
<1>2. CASE policy.identityAttributes = {}
  BY <1>2 DEF Attributes, OrElse
<1>3. ASSUME NEW v \in lists, policy.identityAttributes = {v}
      PROVE  Attributes(policy) = v
  BY <1>3, OrElsePresent DEF Attributes
<1> QED
  BY <1>1, <1>2, <1>3

\* Looking for the first identity proof and reading its attestation is the same as
\* finding an attested identity proof that no other identity proof precedes.
LEMMA FirstAttested ==
  ASSUME NEW proofs \in Seq(Proof)
  PROVE  FirstIdentityAttested(proofs) <=>
           \E i \in DOMAIN proofs :
             /\ proofs[i] = [type |-> "identity", attested |-> 1]
             /\ \A j \in 1 .. i - 1 : proofs[j].type # "identity"
<1>1. /\ Len(proofs) \in Nat
      /\ DOMAIN proofs = 1 .. Len(proofs)
      /\ \A i \in 1 .. Len(proofs) : proofs[i] \in Proof
  OBVIOUS
<1>2. ASSUME NEW i \in DOMAIN proofs
      PROVE  proofs[i] = [type |-> "identity", attested |-> 1]
               <=> proofs[i].type = "identity" /\ proofs[i].attested >= 1
  BY <1>1, <1>2 DEF Proof
<1>3. ASSUME NEW i \in DOMAIN proofs
      PROVE  (\A j \in DOMAIN proofs : proofs[j].type = "identity" => i <= j)
               <=> (\A j \in 1 .. i - 1 : proofs[j].type # "identity")
  BY <1>1, <1>3
<1> QED
  BY <1>2, <1>3 DEF FirstIdentityAttested

\* evaluatePolicy (policy.ts) allows exactly the calls that the reference definition
\* permits: no order of its early returns lets a call through without its evidence or
\* refuses one that has it.  That goes for policies registration refuses as well, with
\* origins and levels that are no such thing.
THEOREM PolicyAllowsExactlyThePermitted ==
  ASSUME NEW origins, NEW assurances, NEW executors, NEW lists,
         NEW policy \in Policy(origins, assurances, executors, lists),
         NEW caller, NEW owner, NEW proofs \in Seq(Proof)
  PROVE  evaluatePolicy(policy, caller, owner, proofs) = Allow
           <=> Permitted(policy, caller, owner, proofs)
<1>1. /\ \A code : Deny(code) # Allow
      /\ \A level : StepUp(level) # Allow
  BY DEF Deny, StepUp, Allow, Decision
<1>2. evaluatePolicy(policy, caller, owner, proofs) = Allow <=>
        /\ Callable(policy)
        /\ ~(policy.origin = "same-human" /\ caller # owner)
        /\ policy.origin \in Origins
        /\ Assurance(policy) # "none" =>
             /\ HasProof(proofs, Assurance(policy))
             /\ \/ Assurance(policy) # "identity"
                \/ Attributes(policy) = <<>>
                \/ FirstIdentityAttested(proofs)
  BY <1>1 DEF evaluatePolicy
<1>3. ~(policy.origin = "same-human" /\ caller # owner) /\ policy.origin \in Origins <=>
        \/ policy.origin \in {"any-human", "public"}
        \/ policy.origin = "same-human" /\ caller = owner
  BY DEF Origins
<1>4. /\ policy.assurance \in Optional(assurances)
      /\ policy.agentCallable \in Optional(BOOLEAN)
      /\ policy.identityAttributes \in Optional(lists)
  BY DEF Policy
<1>5. Assurance(policy) # "none" =>
        (HasProof(proofs, Assurance(policy))
           <=> \E i \in DOMAIN proofs : policy.assurance = {proofs[i].type})
  <2>1. ASSUME NEW i \in DOMAIN proofs PROVE proofs[i].type # "none"
    <3>1. proofs[i] \in Proof
      OBVIOUS
    <3> QED
      BY <3>1 DEF Proof, Levels
  <2>2. \A i \in DOMAIN proofs :
          proofs[i].type = Assurance(policy) <=> policy.assurance = {proofs[i].type}
    BY <1>4, <2>1, AssuranceCases
  <2> QED
    BY <2>2 DEF HasProof
<1>6. Assurance(policy) = "identity" <=> policy.assurance = {"identity"}
  BY <1>4, AssuranceCases
<1>7. Assurance(policy) = "none" <=> policy.assurance \in {{}, {"none"}}
  BY <1>4, AssuranceCases
<1> QED
  BY <1>2, <1>3, <1>4, <1>5, <1>6, <1>7, CallableUnlessFalse, AttributesCases, FirstAttested
     DEF Permitted

\* A policy that policiesEqual finds equal to its manifest entry decides every call as
\* that entry does, takes the header-free path exactly when that entry does, and demands
\* the same executor.
THEOREM EqualPoliciesDecideAlike ==
  ASSUME NEW values, NEW a, NEW b, policiesEqual(a, b),
         a.executor \in Optional(values), b.executor \in Optional(values)
  PROVE  /\ \A caller, owner, proofs :
              evaluatePolicy(a, caller, owner, proofs) = evaluatePolicy(b, caller, owner, proofs)
         /\ SkipsAuthorization(a) <=> SkipsAuthorization(b)
         /\ \A name : name # "local" => (a.executor = {name} <=> b.executor = {name})
<1>1. \A caller, owner, proofs :
        evaluatePolicy(a, caller, owner, proofs) = evaluatePolicy(b, caller, owner, proofs)
  BY DEF policiesEqual, evaluatePolicy
<1>2. SkipsAuthorization(a) <=> SkipsAuthorization(b)
  BY DEF policiesEqual, SkipsAuthorization
<1>3. ASSUME NEW name, name # "local" PROVE a.executor = {name} <=> b.executor = {name}
  BY <1>3, ExecutorCases DEF policiesEqual
<1> QED
  BY <1>1, <1>2, <1>3

\* One step-up is enough: with the proof handleStepUpReentry builds for the level it was
\* asked for, a call that only lacked assurance is allowed.
THEOREM OneStepUpSuffices ==
  ASSUME NEW policy, NEW caller, NEW owner,
         NEW level, evaluatePolicy(policy, caller, owner, <<>>) = StepUp(level)
  PROVE  evaluatePolicy(policy, caller, owner, ProofOfStepUp(level)) = Allow
<1>1. /\ \A code, l : Deny(code) # StepUp(l)
      /\ \A l : Allow # StepUp(l)
      /\ \A k, l : StepUp(k) = StepUp(l) => k = l
  BY DEF Deny, StepUp, Allow, Decision
<1>2. ~HasProof(<<>>, Assurance(policy))
  BY DEF HasProof
<1>3. /\ Callable(policy)
      /\ ~(policy.origin = "same-human" /\ caller # owner)
      /\ policy.origin \in Origins
      /\ Assurance(policy) # "none"
      /\ Assurance(policy) = level
  BY <1>1, <1>2 DEF evaluatePolicy
<1>4. HasProof(ProofOfStepUp(level), level)
  BY DEF HasProof, ProofOfStepUp
<1>5. level = "identity" => FirstIdentityAttested(ProofOfStepUp(level))
  BY DEF FirstIdentityAttested, ProofOfStepUp
<1> QED
  BY <1>3, <1>4, <1>5 DEF evaluatePolicy

\* A policy that was registered asks for a level some adapter serves.
LEMMA StepUpNamesLevel ==
  ASSUME NEW policy, ValidPolicy(policy), NEW caller, NEW owner, NEW proofs,
         NEW decision, decision = evaluatePolicy(policy, caller, owner, proofs),
         decision.status = "step-up-required"
  PROVE  decision.required \in Levels /\ decision = StepUp(decision.required)
<1>1. Assurance(policy) \in Assurances
  BY AssuranceCases DEF ValidPolicy, Assurances
<1> QED
  BY <1>1 DEF evaluatePolicy, Deny, Allow, StepUp, Decision, Assurances, Levels

\* What hors.ts asks evaluatePolicy, without proofs on a first call and with the proof of
\* one step-up on a resume, is permitted if allowed, whatever the optional fields hold
\* that registration does not look at.
THEOREM AllowedIsPermitted ==
  ASSUME NEW policy, ValidPolicy(policy), NEW caller, NEW owner, NEW proofs,
         proofs = <<>> \/ \E level \in Levels : proofs = ProofOfStepUp(level),
         evaluatePolicy(policy, caller, owner, proofs).status = "allow"
  PROVE  Permitted(policy, caller, owner, proofs)
<1>1. /\ Callable(policy)
      /\ ~(policy.origin = "same-human" /\ caller # owner)
      /\ policy.origin \in Origins
      /\ Assurance(policy) = "none" \/ HasProof(proofs, Assurance(policy))
  BY DEF evaluatePolicy, Deny, Allow, StepUp, Decision
<1>2. policy.agentCallable # {FALSE}
  <2>1. policy.agentCallable = {FALSE} => Callable(policy) = FALSE
    BY OrElsePresent DEF Callable
  <2> QED
    BY <1>1, <2>1
<1>3. policy.assurance \in {{}, {"none"}} \/ HasProof(proofs, Assurance(policy))
  BY <1>1, AssuranceCases DEF ValidPolicy
<1>4. CASE proofs = <<>>
  <2>1. ~HasProof(proofs, Assurance(policy))
    BY <1>4 DEF HasProof
  <2> QED
    BY <1>1, <1>2, <1>3, <2>1 DEF Permitted, Origins
<1>5. ASSUME NEW level \in Levels, proofs = ProofOfStepUp(level)
      PROVE  Permitted(policy, caller, owner, proofs)
  <2>1. /\ DOMAIN proofs = {1}
        /\ proofs[1] = [type |-> level, attested |-> IF level = "identity" THEN 1 ELSE 0]
    BY <1>5 DEF ProofOfStepUp
  <2>2. Assurance(policy) = level => policy.assurance = {level}
    <3>1. policy.assurance \in Optional(Assurances) /\ level # "none"
      BY DEF ValidPolicy, Levels
    <3> QED
      BY <3>1, AssuranceCases
  <2>3. policy.assurance \in {{}, {"none"}} \/ policy.assurance = {level}
    <3>1. HasProof(proofs, Assurance(policy)) => Assurance(policy) = level
      BY <2>1 DEF HasProof
    <3> QED
      BY <1>3, <2>2, <3>1
  <2>4. policy.assurance = {"identity"} => proofs[1] = [type |-> "identity", attested |-> 1]
    BY <2>1, <2>3
  <2>5. policy.assurance \in {{}, {"none"}} \/ \E i \in DOMAIN proofs : policy.assurance = {proofs[i].type}
    BY <2>1, <2>3
  <2>6. policy.assurance = {"identity"} =>
          \E i \in DOMAIN proofs :
             /\ proofs[i] = [type |-> "identity", attested |-> 1]
             /\ \A j \in 1 .. i - 1 : proofs[j].type # "identity"
    BY <2>1, <2>4
  <2> QED
    BY <1>1, <1>2, <2>5, <2>6 DEF Permitted, Origins
<1> QED
  BY <1>4, <1>5
=============================================================================
