------------------------- MODULE MCHorsPolicyProofs -------------------------
(***************************************************************************)
(* What the run of MCHorsPolicy checks over short lists holds for every    *)
(* set of attributes, humans and callers and for lists of any length.      *)
(***************************************************************************)
EXTENDS MCHorsPolicy, HorsPolicyProofs

\* The two policies decide alike, and a decision that was taken is evaluatePolicy's.
PolicyIInv ==
  /\ inline \in PolicyInputs /\ manifest \in PolicyInputs
  /\ policiesEqual(inline, manifest)
  /\ first # NotEvaluated =>
       /\ ValidPolicy(inline)
       /\ first = evaluatePolicy(inline, caller, Owner, <<>>)
  /\ second \in {NotEvaluated, Allow}

LEMMA PolicyInitHolds == Init => PolicyIInv
BY DEF Init, PolicyIInv, policiesEqual

LEMMA PolicyStepHolds == PolicyIInv /\ [Next]_vars => PolicyIInv'
<1> SUFFICES ASSUME PolicyIInv, [Next]_vars
             PROVE  PolicyIInv'
  OBVIOUS
<1>1. CASE Publish
  BY <1>1 DEF PolicyIInv, Publish
<1>2. CASE FirstCall
  BY <1>2 DEF PolicyIInv, FirstCall
<1>3. CASE Resume
  <2>1. first # NotEvaluated
    BY <1>3 DEF Resume, NotEvaluated, Decision
  <2>2. first = StepUp(first.required)
    BY <1>3, <2>1, StepUpNamesLevel DEF PolicyIInv, Resume
  <2>3. second' = Allow
    BY <1>3, <2>1, <2>2, OneStepUpSuffices DEF PolicyIInv, Resume
  <2> QED
    BY <1>3, <2>3 DEF PolicyIInv, Resume
<1>4. CASE UNCHANGED vars
  BY <1>4 DEF PolicyIInv, vars
<1> QED
  BY <1>1, <1>2, <1>3, <1>4 DEF Next

LEMMA PolicyInvariant == Spec => []PolicyIInv
BY PolicyInitHolds, PolicyStepHolds, PTL DEF Spec

\* The lists of the bounded run are lists of proofs.
LEMMA ProofListsAreLists == ProofLists \subseteq Seq(Proof)
BY DEF ProofLists, SeqOf

\* policy.ts decides as the reference definition does, whatever an author wrote down.
THEOREM DecidesByReference == Spec => []AllowsExactlyThePermitted
<1>1. PolicyIInv => AllowsExactlyThePermitted
  BY PolicyAllowsExactlyThePermitted, ProofListsAreLists
     DEF PolicyIInv, PolicyInputs, AllowsExactlyThePermitted
<1> QED
  BY <1>1, PolicyInvariant, PTL

\* A policy registered against its manifest entry decides as that entry does.
THEOREM DecidesAsPublished == Spec => []RegisteredPolicyDecidesAsPublished
<1>1. PolicyIInv => RegisteredPolicyDecidesAsPublished
  <2> SUFFICES ASSUME PolicyIInv
               PROVE  RegisteredPolicyDecidesAsPublished
    OBVIOUS
  <2>1. /\ policiesEqual(inline, manifest)
        /\ inline.executor \in Optional(Executors \cup {"unlisted"})
        /\ manifest.executor \in Optional(Executors \cup {"unlisted"})
    BY DEF PolicyIInv, PolicyInputs, Policy
  <2> QED
    BY <2>1, EqualPoliciesDecideAlike DEF RegisteredPolicyDecidesAsPublished
<1> QED
  BY <1>1, PolicyInvariant, PTL

\* No registered policy asks for a level without an adapter, or asks twice.
THEOREM OneStepUpIsEnough == Spec => []StepUpSuffices
<1>1. PolicyIInv => StepUpSuffices
  <2> SUFFICES ASSUME PolicyIInv, first.status = "step-up-required"
               PROVE  first.required \in Levels
    BY DEF PolicyIInv, StepUpSuffices
  <2>1. first # NotEvaluated
    BY DEF NotEvaluated, Decision
  <2> QED
    BY <2>1, StepUpNamesLevel DEF PolicyIInv
<1> QED
  BY <1>1, PolicyInvariant, PTL
=============================================================================
