----------------------------- MODULE HorsPolicy -----------------------------
(***************************************************************************)
(* The pure policy engine of HORS: what a function policy is, when two     *)
(* policies are the same, and the decision taken for one call.             *)
(*                                                                         *)
(* An optional field of a FunctionPolicy is a set of at most one value:    *)
(* {} is the omitted field, {v} the field with value v.                    *)
(***************************************************************************)
EXTENDS Naturals, Sequences

Origins    == {"same-human", "any-human", "public"}
Levels     == {"selfie", "identity"}
Assurances == {"none"} \cup Levels
Executors  == {"local", "0g"}

\* An optional value of type S.
Optional(S) == {{}} \cup {{v} : v \in S}

\* `field ?? default`
OrElse(opt, default) == IF opt = {} THEN default ELSE CHOOSE v \in opt : TRUE

\* A FunctionPolicy as an author may write it down: its fields range over these values.
Policy(origins, assurances, executors, lists) ==
  [origin             : origins,
   assurance          : Optional(assurances),
   executor           : Optional(executors),
   agentCallable      : Optional(BOOLEAN),
   identityAttributes : Optional(lists)]

\* Mutant: agentCallable is not looked at.
CallableAlways(policy) == TRUE

Assurance(policy)  == OrElse(policy.assurance, "none")
Executor(policy)   == OrElse(policy.executor, "local")
Callable(policy)   == OrElse(policy.agentCallable, TRUE)
Attributes(policy) == OrElse(policy.identityAttributes, <<>>)

\* An AssuranceProof: its type and the value of its identity_attested attribute.
Proof == [type : Levels, attested : {0, 1}]

Decision(status, code, required) ==
  [status |-> status, code |-> code, required |-> required]

Allow           == Decision("allow", "none", "none")
Deny(code)      == Decision("deny", code, "none")
StepUp(level)   == Decision("step-up-required", "HORS_ASSURANCE_REQUIRED", level)

\* Mutant: a proof of any level will do.
HasAnyProof(proofs, level) == proofs # <<>>

\* assuranceProofs?.some((p) => p.type === level)
HasProof(proofs, level) == \E i \in DOMAIN proofs : proofs[i].type = level

\* Mutant: any attested proof counts, not the first identity proof.
SomeIdentityAttested(proofs) ==
  \E i \in DOMAIN proofs : proofs[i].type = "identity" /\ proofs[i].attested >= 1

\* assuranceProofs?.find((p) => p.type === "identity") carries the attestation.
FirstIdentityAttested(proofs) ==
  \E i \in DOMAIN proofs :
    /\ proofs[i].type = "identity"
    /\ \A j \in DOMAIN proofs : proofs[j].type = "identity" => i <= j
    /\ proofs[i].attested >= 1

evaluatePolicy(policy, caller, owner, proofs) ==
  IF ~Callable(policy) THEN Deny("HORS_FUNCTION_FORBIDDEN")
  ELSE IF policy.origin = "same-human" /\ caller # owner
         THEN Deny("HORS_ORIGIN_MISMATCH")
  ELSE IF policy.origin \notin Origins THEN Deny("HORS_FUNCTION_FORBIDDEN")
  ELSE IF Assurance(policy) = "none" THEN Allow
  ELSE IF ~HasProof(proofs, Assurance(policy)) THEN StepUp(Assurance(policy))
  ELSE IF /\ Assurance(policy) = "identity"
          /\ Attributes(policy) # <<>>
          /\ ~FirstIdentityAttested(proofs)
         THEN StepUp("identity")
  ELSE Allow

\* The checks horsImpl makes when a tool is registered; a policy that fails one
\* never becomes a handler.
ValidPolicy(policy) ==
  /\ policy.origin \in Origins
  /\ policy.assurance \in Optional(Assurances)
  /\ policy.executor \in Optional(Executors)

\* Mutant: the executors are not compared.
policiesEqualButExecutor(a, b) ==
  /\ a.origin      = b.origin
  /\ Assurance(a)  = Assurance(b)
  /\ Callable(a)   = Callable(b)
  /\ Attributes(a) = Attributes(b)

\* The comparison of an inline policy with its manifest entry.
policiesEqual(a, b) ==
  /\ a.origin      = b.origin
  /\ Assurance(a)  = Assurance(b)
  /\ Executor(a)   = Executor(b)
  /\ Callable(a)   = Callable(b)
  /\ Attributes(a) = Attributes(b)

\* horsImpl's fast path: no header, no signature, no AgentBook.
SkipsAuthorization(policy) ==
  policy.origin = "public" /\ Assurance(policy) = "none"

\* Mutant: the attestation is left out of the proof.
ProofWithoutAttestation(level) == << [type |-> level, attested |-> 0] >>

\* The one-element list handleStepUpReentry builds from a verified adapter result:
\* only the identity adapter reports identityAttested.
ProofOfStepUp(level) ==
  << [type |-> level, attested |-> IF level = "identity" THEN 1 ELSE 0] >>

-----------------------------------------------------------------------------
(***************************************************************************)
(* Reference definition: what must be true of a call for it to run.        *)
(***************************************************************************)
Permitted(policy, caller, owner, proofs) ==
  /\ policy.agentCallable # {FALSE}
  /\ \/ policy.origin \in {"any-human", "public"}
     \/ policy.origin = "same-human" /\ caller = owner
  /\ \/ policy.assurance \in {{}, {"none"}}
     \/ \E i \in DOMAIN proofs : policy.assurance = {proofs[i].type}
  /\ policy.assurance = {"identity"} /\ policy.identityAttributes \notin {{}, {<<>>}} =>
       \E i \in DOMAIN proofs :
          /\ proofs[i] = [type |-> "identity", attested |-> 1]
          /\ \A j \in 1 .. i - 1 : proofs[j].type # "identity"
=============================================================================
