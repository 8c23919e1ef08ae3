---------------------------- MODULE HorsReceipts ----------------------------
(***************************************************************************)
(* Executor receipts: the 0G executor (hors-executor-0g), the context that *)
(* hands it to tool handlers (createHorsCtx) and the check of what a       *)
(* handler returns (validateExecutionReceipt).                             *)
(*                                                                         *)
(* Handler invocations run concurrently in one process and share its       *)
(* memory, so a handler may return any receipt any invocation was given,   *)
(* with any text.  Receipts are numbered by the execution that made them;  *)
(* the brand is the WeakMap that knows the ones not yet presented.         *)
(***************************************************************************)
EXTENDS Naturals

CONSTANTS
  Invocations,   \* handler invocations
  Texts,         \* what an executor or a handler may say
  Names,         \* the names of the registered executors
  BindingOf,     \* function, call id and arguments hash of each invocation
  NeedsOf,       \* the executor its policy asks for
  MaxExecutions  \* bound on the executions started

ASSUME ReceiptsAssumption ==
  /\ Invocations # {} /\ Texts # {} /\ Names # {}
  /\ DOMAIN BindingOf = Invocations
  /\ NeedsOf \in [Invocations -> {"local", "0g"}]
  /\ MaxExecutions \in Nat

Executions == 1 .. MaxExecutions

\* A handler may return no receipt, or an object no executor made.
NoReceipt == 0
Forged    == MaxExecutions + 1
Presentable == Executions \cup {NoReceipt, Forged}

VARIABLES
  verifyTee,    \* config.verifyTee
  independent,  \* TRUE: config.independentVerifier is set
  phase,      \* of each execution
  by, name,   \* who started it, with which executor
  said,       \* the completion's text
  claim,      \* the router reported tee_verified: true
  verdict,    \* the independent verifier said true
  branded,    \* receipts in the WeakMap
  outcome,    \* of each invocation
  presented,  \* the receipt it returned ...
  delivered   \* ... and the text

configVars == <<verifyTee, independent>>
execVars == <<phase, by, name, said, claim, verdict>>
invocationVars == <<outcome, presented, delivered>>
vars == <<configVars, execVars, branded, invocationVars>>

\* "routing": awaiting the router; "verifying": awaiting the independent verifier;
\* "given": the handler has the receipt; "failed": execute() threw.
ExecPhases == {"unused", "routing", "verifying", "given", "failed"}
Outcomes   == {"running", "served", "withheld", "threw"}

TypeOK ==
  /\ verifyTee \in BOOLEAN /\ independent \in BOOLEAN
  /\ phase \in [Executions -> ExecPhases]
  /\ by \in [Executions -> Invocations]
  /\ name \in [Executions -> Names]
  /\ said \in [Executions -> Texts]
  /\ claim \in [Executions -> BOOLEAN]
  /\ verdict \in [Executions -> BOOLEAN]
  /\ branded \subseteq {e \in Executions : phase[e] = "given"}
  /\ outcome \in [Invocations -> Outcomes]
  /\ presented \in [Invocations -> Presentable]
  /\ delivered \in [Invocations -> Texts]

Init ==
  /\ verifyTee \in BOOLEAN /\ independent \in BOOLEAN
  /\ phase = [e \in Executions |-> "unused"]
  /\ by = [e \in Executions |-> CHOOSE i \in Invocations : TRUE]
  /\ name = [e \in Executions |-> CHOOSE n \in Names : TRUE]
  /\ said = [e \in Executions |-> CHOOSE t \in Texts : TRUE]
  /\ claim = [e \in Executions |-> FALSE]
  /\ verdict = [e \in Executions |-> FALSE]
  /\ branded = {}
  /\ outcome = [i \in Invocations |-> "running"]
  /\ presented = [i \in Invocations |-> NoReceipt]
  /\ delivered = [i \in Invocations |-> CHOOSE t \in Texts : TRUE]

-----------------------------------------------------------------------------
(***************************************************************************)
(* Executions.                                                             *)
(***************************************************************************)

\* horsCtx.executor(n).execute(...): an invocation may have several under way, and its
\* context still works when the handler has returned.
Execute(e, i, n) ==
  /\ phase[e] = "unused"
  /\ \A d \in 1 .. e - 1 : phase[d] # "unused"
  /\ phase' = [phase EXCEPT ![e] = "routing"]
  /\ by' = [by EXCEPT ![e] = i]
  /\ name' = [name EXCEPT ![e] = n]
  /\ UNCHANGED <<configVars, said, claim, verdict, branded, invocationVars>>

\* Mutant: the result of an executor that did not confirm TEE is branded too.
SettleAnyway(e, tee) ==
  /\ phase' = [phase EXCEPT ![e] = "given"]
  /\ branded' = branded \cup {e}

\* Mutant: the receipt is branded before TEE is looked at.
SettleBrandingFirst(e, tee) ==
  /\ phase' = [phase EXCEPT ![e] = IF tee THEN "given" ELSE "failed"]
  /\ branded' = branded \cup {e}

\* The end of execute(): with verifyTee the executor throws unless TEE is confirmed,
\* and the handler context throws in any case; otherwise the receipt is branded.
Settle(e, tee) ==
  IF tee
    THEN /\ phase' = [phase EXCEPT ![e] = "given"]
         /\ branded' = branded \cup {e}
    ELSE /\ phase' = [phase EXCEPT ![e] = "failed"]
         /\ UNCHANGED branded

\* The router cannot be reached, answers with an error, or offers no choices.
RouterFails(e) ==
  /\ phase[e] = "routing"
  /\ phase' = [phase EXCEPT ![e] = "failed"]
  /\ UNCHANGED <<configVars, by, name, said, claim, verdict, branded, invocationVars>>

\* The router answers with a text, its own claim about TEE, and possibly the provider
\* and chat id an independent verifier needs.
RouterAnswers(e, text, teeClaim, identified) ==
  /\ phase[e] = "routing"
  /\ said' = [said EXCEPT ![e] = text]
  /\ claim' = [claim EXCEPT ![e] = teeClaim]
  /\ IF independent /\ identified
       THEN phase' = [phase EXCEPT ![e] = "verifying"] /\ UNCHANGED branded
     ELSE IF independent /\ verifyTee
       THEN phase' = [phase EXCEPT ![e] = "failed"] /\ UNCHANGED branded
     ELSE Settle(e, teeClaim)
  /\ UNCHANGED <<configVars, by, name, verdict, invocationVars>>

\* config.independentVerifier resolves; one that rejects fails the execution.
VerifierAnswers(e, good) ==
  /\ phase[e] = "verifying"
  /\ verdict' = [verdict EXCEPT ![e] = good]
  /\ Settle(e, good)
  /\ UNCHANGED <<configVars, by, name, said, claim, invocationVars>>

-----------------------------------------------------------------------------
(***************************************************************************)
(* What the handler returns.                                               *)
(***************************************************************************)

\* Mutant: the call a receipt was made for is not compared.
FitsAnyCall(e, i, text) == name[e] = NeedsOf[i] /\ text = said[e]

\* The receipt was made by the executor the policy asks for, in an invocation with this
\* function, call and arguments, and the text blocks are what the executor said.
Fits(e, i, text) ==
  /\ name[e] = NeedsOf[i]
  /\ BindingOf[by[e]] = BindingOf[i]
  /\ text = said[e]

\* Mutant: the brand goes only when the receipt holds.
UnbrandOnSuccess(e, i, text) ==
  branded' = IF e \in branded /\ Fits(e, i, text) THEN branded \ {e} ELSE branded

\* receiptBrand.delete(receipt), before any of the comparisons.
Unbrand(e, i, text) == branded' = branded \ {e}

\* validateExecutionReceipt: a local policy looks at no receipt.
Return(i, e, text) ==
  /\ outcome[i] = "running"
  /\ e \in Executions => phase[e] = "given"
  /\ presented' = [presented EXCEPT ![i] = e]
  /\ delivered' = [delivered EXCEPT ![i] = text]
  /\ IF NeedsOf[i] = "local"
       THEN outcome' = [outcome EXCEPT ![i] = "served"] /\ UNCHANGED branded
     ELSE
       /\ Unbrand(e, i, text)
       /\ outcome' = [outcome EXCEPT ![i] =
                        IF e \in branded /\ Fits(e, i, text) THEN "served" ELSE "withheld"]
  /\ UNCHANGED <<configVars, execVars>>

\* The handler throws, on its own account or because execute() did.
Throw(i) ==
  /\ outcome[i] = "running"
  /\ outcome' = [outcome EXCEPT ![i] = "threw"]
  /\ UNCHANGED <<configVars, execVars, branded, presented, delivered>>

ExecutorStep ==
  \E e \in Executions :
    \/ \E i \in Invocations, n \in Names : Execute(e, i, n)
    \/ RouterFails(e)
    \/ \E text \in Texts, teeClaim, identified \in BOOLEAN :
         RouterAnswers(e, text, teeClaim, identified)
    \/ \E good \in BOOLEAN : VerifierAnswers(e, good)

HandlerStep ==
  \E i \in Invocations :
    \/ \E e \in Presentable, text \in Texts : Return(i, e, text)
    \/ Throw(i)

Next == ExecutorStep \/ HandlerStep

Spec == Init /\ [][Next]_vars

-----------------------------------------------------------------------------
(***************************************************************************)
(* Properties.                                                             *)
(***************************************************************************)

\* The invocation was served under a policy that asks for an executor.
ServedByExecutor(i) == outcome[i] = "served" /\ NeedsOf[i] # "local"

\* What such a policy lets out was said, word for word, by an execution that the named
\* executor confirmed and that was made for the same function, call and arguments
\* (validateExecutionReceipt with what createHorsCtx branded).
DeliveredTextWasExecuted ==
  \A i \in Invocations : ServedByExecutor(i) =>
    \E e \in Executions :
      /\ phase[e] = "given" /\ (claim[e] \/ verdict[e])
      /\ name[e] = NeedsOf[i]
      /\ BindingOf[by[e]] = BindingOf[i]
      /\ said[e] = delivered[i]

\* A receipt serves nobody but the first invocation that presents it: once it has been
\* returned in the wrong place, also the call it was made for can no longer use it.
FirstPresentationDecides ==
  [][\A i, j \in Invocations :
       /\ ~ServedByExecutor(i) /\ ServedByExecutor(i)'
       /\ outcome[j] \in {"served", "withheld"} /\ NeedsOf[j] # "local"
       => presented[j] # presented'[i]]_vars

\* With TEE required, an independent verifier that is set has the last word on every text
\* that is let out, whatever the router claims of it.
IndependentVerdictDecides ==
  \A i \in Invocations :
    ServedByExecutor(i) /\ independent /\ verifyTee => verdict[presented[i]]

-----------------------------------------------------------------------------
(***************************************************************************)
(* The inductive invariant behind them.                                    *)
(***************************************************************************)

\* A receipt exists only after TEE was confirmed, by the independent verifier when
\* there is one and TEE is required.
ReceiptsConfirmed ==
  \A e \in Executions :
    /\ phase[e] = "given" => claim[e] \/ verdict[e]
    /\ phase[e] = "given" /\ independent /\ verifyTee => verdict[e]

\* A presented receipt was given to somebody and has lost its brand.
PresentedUnbranded ==
  \A i \in Invocations :
    outcome[i] \in {"served", "withheld"} /\ NeedsOf[i] # "local" =>
      /\ presented[i] \in Executions => phase[presented[i]] = "given"
      /\ presented[i] \notin branded

\* What was let out fits the receipt that let it out.
ServedFits ==
  \A i \in Invocations : ServedByExecutor(i) =>
    /\ presented[i] \in Executions
    /\ phase[presented[i]] = "given"
    /\ Fits(presented[i], i, delivered[i])

ReceiptsIInv == TypeOK /\ ReceiptsConfirmed /\ PresentedUnbranded /\ ServedFits
=============================================================================
