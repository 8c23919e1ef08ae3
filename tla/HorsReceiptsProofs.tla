------------------------- MODULE HorsReceiptsProofs -------------------------
(***************************************************************************)
(* TLAPS proofs about HorsReceipts, for any number of invocations and      *)
(* executions, any texts and any registered executors.                     *)
(***************************************************************************)
EXTENDS HorsReceipts, TLAPS

LEMMA InitHolds == Init => ReceiptsIInv
<1> SUFFICES ASSUME Init PROVE ReceiptsIInv
  OBVIOUS
<1>1. TypeOK
  BY ReceiptsAssumption
     DEF Init, TypeOK, ExecPhases, Outcomes, Presentable, Executions, NoReceipt
<1>2. ReceiptsConfirmed /\ PresentedUnbranded /\ ServedFits
  BY DEF Init, ReceiptsConfirmed, PresentedUnbranded, ServedFits, ServedByExecutor
<1> QED
  BY <1>1, <1>2 DEF ReceiptsIInv

\* A step of one execution leaves the invocations alone; the execution it changes had
\* not given its receipt yet, so nobody was served with it.
LEMMA ExecutionStepHolds ==
  ASSUME ReceiptsIInv, NEW e \in Executions, phase[e] # "given",
         TypeOK', UNCHANGED <<configVars, invocationVars>>,
         \A d \in Executions \ {e} :
           /\ phase'[d] = phase[d] /\ by'[d] = by[d] /\ name'[d] = name[d]
           /\ said'[d] = said[d] /\ claim'[d] = claim[d] /\ verdict'[d] = verdict[d],
         branded' \subseteq branded \cup {e},
         phase'[e] = "given" => claim'[e] \/ verdict'[e],
         phase'[e] = "given" /\ independent /\ verifyTee => verdict'[e]
  PROVE  ReceiptsIInv'
<1>1. ReceiptsConfirmed'
  BY DEF ReceiptsConfirmed, ReceiptsIInv, configVars
<1>2. PresentedUnbranded'
  <2> SUFFICES ASSUME NEW i \in Invocations, outcome[i] \in {"served", "withheld"},
                      NeedsOf[i] # "local"
               PROVE  /\ presented[i] \in Executions => phase'[presented[i]] = "given"
                      /\ presented[i] \notin branded'
    BY DEF PresentedUnbranded, invocationVars
  <2>1. presented[i] # e
    BY DEF ReceiptsIInv, PresentedUnbranded
  <2> QED
    BY <2>1 DEF ReceiptsIInv, PresentedUnbranded
<1>3. \A i \in Invocations : ServedByExecutor(i) => presented[i] # e
  BY DEF ReceiptsIInv, ServedFits
<1>4. ServedFits'
  BY <1>3 DEF ReceiptsIInv, ServedFits, ServedByExecutor, Fits, invocationVars
<1> QED
  BY <1>1, <1>2, <1>4 DEF ReceiptsIInv

\* Every execution step is of that kind.
LEMMA ExecutorStepHolds == ReceiptsIInv /\ ExecutorStep => ReceiptsIInv'
<1> SUFFICES ASSUME ReceiptsIInv, NEW e \in Executions,
                    \/ \E i \in Invocations, n \in Names : Execute(e, i, n)
                    \/ RouterFails(e)
                    \/ \E text \in Texts, teeClaim, identified \in BOOLEAN :
                         RouterAnswers(e, text, teeClaim, identified)
                    \/ \E good \in BOOLEAN : VerifierAnswers(e, good)
             PROVE  ReceiptsIInv'
  BY DEF ExecutorStep
<1> USE DEF ReceiptsIInv, TypeOK, ExecPhases, configVars, invocationVars, execVars
<1>1. CASE \E i \in Invocations, n \in Names : Execute(e, i, n)
  <2>1. PICK i \in Invocations, n \in Names : Execute(e, i, n)
    BY <1>1
  <2>2. phase'[e] = "routing" /\ TypeOK'
    BY <2>1 DEF Execute
  <2> QED
    BY <2>1, <2>2, ExecutionStepHolds DEF Execute
<1>2. CASE RouterFails(e)
  <2>1. phase'[e] = "failed" /\ TypeOK'
    BY <1>2 DEF RouterFails
  <2> QED
    BY <1>2, <2>1, ExecutionStepHolds DEF RouterFails
<1>3. CASE \E text \in Texts, teeClaim, identified \in BOOLEAN :
             RouterAnswers(e, text, teeClaim, identified)
  <2>1. PICK text \in Texts, teeClaim \in BOOLEAN, identified \in BOOLEAN :
               RouterAnswers(e, text, teeClaim, identified)
    BY <1>3
  <2>2. /\ phase'[e] = "given" => claim'[e] /\ ~(independent /\ verifyTee)
        /\ branded' \subseteq branded \cup {e}
    BY <2>1 DEF RouterAnswers, Settle
  <2>3. TypeOK'
    BY <2>1 DEF RouterAnswers, Settle
  <2> QED
    BY <2>1, <2>2, <2>3, ExecutionStepHolds DEF RouterAnswers, Settle
<1>4. CASE \E good \in BOOLEAN : VerifierAnswers(e, good)
  <2>1. PICK good \in BOOLEAN : VerifierAnswers(e, good)
    BY <1>4
  <2>2. /\ phase'[e] = "given" => verdict'[e]
        /\ branded' \subseteq branded \cup {e}
    BY <2>1 DEF VerifierAnswers, Settle
  <2>3. TypeOK'
    BY <2>1 DEF VerifierAnswers, Settle
  <2> QED
    BY <2>1, <2>2, <2>3, ExecutionStepHolds DEF VerifierAnswers, Settle
<1> QED
  BY <1>1, <1>2, <1>3, <1>4

\* What a handler returns costs the receipt its brand, and it was given before.
LEMMA HandlerStepHolds == ReceiptsIInv /\ HandlerStep => ReceiptsIInv'
<1> SUFFICES ASSUME ReceiptsIInv, NEW i \in Invocations,
                    \/ \E e \in Presentable, text \in Texts : Return(i, e, text)
                    \/ Throw(i)
             PROVE  ReceiptsIInv'
  BY DEF HandlerStep
<1> USE DEF ReceiptsIInv, TypeOK, configVars
<1>1. CASE Throw(i)
  <2>1. TypeOK' /\ ReceiptsConfirmed'
    BY <1>1 DEF Throw, execVars, Outcomes, ReceiptsConfirmed
  <2>2. PresentedUnbranded'
    BY <1>1 DEF Throw, execVars, Outcomes, PresentedUnbranded
  <2>3. ServedFits'
    BY <1>1 DEF Throw, execVars, Outcomes, ServedFits, ServedByExecutor, Fits
  <2> QED
    BY <2>1, <2>2, <2>3
<1>2. ASSUME NEW e \in Presentable, NEW text \in Texts, Return(i, e, text)
      PROVE  ReceiptsIInv'
  <2> USE <1>2 DEF Return, Unbrand, execVars, Outcomes
  <2>1. TypeOK' /\ ReceiptsConfirmed'
    BY DEF ReceiptsConfirmed
  <2>2. PresentedUnbranded'
    BY DEF PresentedUnbranded
  <2>3. ASSUME NEW j \in Invocations, ServedByExecutor(j)'
        PROVE  /\ presented'[j] \in Executions
               /\ phase[presented'[j]] = "given"
               /\ Fits(presented'[j], j, delivered'[j])
    <3>1. CASE j = i
      BY <2>3, <3>1 DEF ServedByExecutor
    <3>2. CASE j # i
      BY <2>3, <3>2 DEF ServedByExecutor, ServedFits
    <3> QED
      BY <3>1, <3>2
  <2>4. ServedFits'
    BY <2>3 DEF ServedFits, Fits
  <2> QED
    BY <2>1, <2>2, <2>4
<1> QED
  BY <1>1, <1>2

LEMMA StepHolds == ReceiptsIInv /\ [Next]_vars => ReceiptsIInv'
<1> SUFFICES ASSUME ReceiptsIInv, UNCHANGED vars PROVE ReceiptsIInv'
  BY ExecutorStepHolds, HandlerStepHolds DEF Next
<1> QED
  BY DEF ReceiptsIInv, TypeOK, ReceiptsConfirmed, PresentedUnbranded, ServedFits,
         ServedByExecutor, Fits, vars, configVars, execVars, invocationVars

\* Receipts exist only for confirmed executions, lose their brand when presented, and
\* fit what they let out.
THEOREM ReceiptsInductive == Spec => []ReceiptsIInv
BY InitHolds, StepHolds, PTL DEF Spec

\* Under a policy that asks for an executor nothing reaches the client but what that
\* executor said for this very call (validateExecutionReceipt, createHorsCtx).
THEOREM DeliveredTextsWereExecuted == Spec => []DeliveredTextWasExecuted
<1>1. ReceiptsIInv => DeliveredTextWasExecuted
  BY DEF ReceiptsIInv, ServedFits, Fits, ReceiptsConfirmed, DeliveredTextWasExecuted
<1> QED
  BY <1>1, ReceiptsInductive, PTL

\* A receipt serves at most the first invocation that returns it, because the brand is
\* deleted before anything is compared (hors.ts:71).
THEOREM FirstPresentationsDecide == Spec => FirstPresentationDecides
<1>1. ASSUME ReceiptsIInv, [Next]_vars,
             NEW i \in Invocations, NEW j \in Invocations,
             ~ServedByExecutor(i), ServedByExecutor(i)',
             outcome[j] \in {"served", "withheld"}, NeedsOf[j] # "local"
      PROVE  presented[j] # presented'[i]
  <2>1. outcome'[i] = "served" /\ outcome[i] # "served" /\ NeedsOf[i] # "local"
    BY <1>1 DEF ServedByExecutor
  <2>2. CASE HandlerStep
    <3>1. PICK k \in Invocations :
            \/ \E e \in Presentable, text \in Texts : Return(k, e, text)
            \/ Throw(k)
      BY <2>2 DEF HandlerStep
    <3>2. CASE Throw(k)
      BY <2>1, <3>2, <1>1 DEF Throw, ReceiptsIInv, TypeOK
    <3>3. CASE \E e \in Presentable, text \in Texts : Return(k, e, text)
      <4>1. PICK e \in Presentable, text \in Texts : Return(k, e, text)
        BY <3>3
      <4>2. k = i
        BY <2>1, <4>1, <1>1 DEF Return, ReceiptsIInv, TypeOK
      <4>3. presented'[i] = e /\ e \in branded
        BY <2>1, <4>1, <4>2, <1>1 DEF Return, ReceiptsIInv, TypeOK
      <4> QED
        BY <4>3, <1>1 DEF ReceiptsIInv, PresentedUnbranded
    <3> QED
      BY <3>1, <3>2, <3>3
  <2>3. CASE ExecutorStep \/ UNCHANGED vars
    BY <2>1, <2>3 DEF ExecutorStep, Execute, RouterFails, RouterAnswers, VerifierAnswers,
                      invocationVars, vars
  <2> QED
    BY <2>2, <2>3, <1>1 DEF Next
<1>2. ReceiptsIInv /\ [Next]_vars =>
        [\A i, j \in Invocations :
           /\ ~ServedByExecutor(i) /\ ServedByExecutor(i)'
           /\ outcome[j] \in {"served", "withheld"} /\ NeedsOf[j] # "local"
           => presented[j] # presented'[i]]_vars
  BY <1>1
<1> QED
  BY <1>2, ReceiptsInductive, PTL DEF Spec, FirstPresentationDecides

\* With TEE required, an independent verifier that is set has the last word on every
\* text that is let out.
THEOREM VerdictsDecide == Spec => []IndependentVerdictDecides
<1>1. ReceiptsIInv => IndependentVerdictDecides
  BY DEF ReceiptsIInv, ServedFits, ReceiptsConfirmed, IndependentVerdictDecides
<1> QED
  BY <1>1, ReceiptsInductive, PTL
=============================================================================
