---------------------------- MODULE MCHorsPolicy ----------------------------
(***************************************************************************)
(* Bounded exhaustive check of HorsPolicy: every pair of policies over a   *)
(* small set of attributes, every caller and every list of at most         *)
(* MaxProofs proofs.  A server registers a policy against its manifest,    *)
(* answers the call without proofs, and once more after a step-up.         *)
(***************************************************************************)
EXTENDS HorsPolicy, SequencesExt

CONSTANTS Attrs, Humans, Owner, MaxAttrs, MaxProofs

AttributeLists == SeqOf(Attrs, MaxAttrs)
ProofLists     == SeqOf(Proof, MaxProofs)

\* Policies a service author may write down, the ones registration refuses included.
PolicyInputs ==
  Policy(Origins \cup {"unlisted"}, Assurances \cup {"unlisted"}, Executors \cup {"unlisted"},
         AttributeLists)

VARIABLES inline, manifest, caller, first, second

vars == <<inline, manifest, caller, first, second>>

NotEvaluated == Decision("pending", "none", "none")

Init ==
  /\ inline \in PolicyInputs
  /\ manifest = inline
  /\ caller \in Humans
  /\ first = NotEvaluated
  /\ second = NotEvaluated

\* The manifest entry is written separately from the inline policy.
Publish ==
  /\ first = NotEvaluated
  /\ manifest' \in {p \in PolicyInputs : policiesEqual(inline, p)}
  /\ UNCHANGED <<inline, caller, first, second>>

\* A call reaches only a registered handler.
FirstCall ==
  /\ first = NotEvaluated
  /\ ValidPolicy(inline)
  /\ first' = evaluatePolicy(inline, caller, Owner, <<>>)
  /\ UNCHANGED <<inline, manifest, caller, second>>

Resume ==
  /\ first.status = "step-up-required"
  /\ second = NotEvaluated
  /\ second' = evaluatePolicy(inline, caller, Owner, ProofOfStepUp(first.required))
  /\ UNCHANGED <<inline, manifest, caller, first>>

Next == Publish \/ FirstCall \/ Resume

Spec == Init /\ [][Next]_vars

-----------------------------------------------------------------------------
\* The decision procedure allows exactly the calls the reference definition
\* permits, for every list of proofs: policy.ts evaluatePolicy never lets a call
\* through early and never refuses a call that has all its evidence.
AllowsExactlyThePermitted ==
  \A proofs \in ProofLists :
    (evaluatePolicy(inline, caller, Owner, proofs) = Allow)
      <=> Permitted(inline, caller, Owner, proofs)

\* A policy that registration accepts as equal to its manifest entry decides
\* every call the same way as that entry: normalising the omitted fields in
\* policiesEqual agrees with the defaults evaluatePolicy and horsImpl apply.  It takes the
\* header-free path exactly when that entry does, and demands the receipt of the same
\* executor, which evaluatePolicy does not look at and the wrapper does.
RegisteredPolicyDecidesAsPublished ==
  /\ \A proofs \in ProofLists :
       evaluatePolicy(inline, caller, Owner, proofs)
         = evaluatePolicy(manifest, caller, Owner, proofs)
  /\ SkipsAuthorization(inline) <=> SkipsAuthorization(manifest)
  /\ \A name \in Executors \ {"local"} : inline.executor = {name} <=> manifest.executor = {name}

\* A step-up asks for a level that an adapter serves (the wrapper would hand any
\* other to the selfie adapter), and a completed one is enough: the proof list
\* handleStepUpReentry builds for that level never leads to a second step-up.
StepUpSuffices ==
  /\ first.status = "step-up-required" => first.required \in Levels
  /\ second \in {NotEvaluated, Allow}
=============================================================================
