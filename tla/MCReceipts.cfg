\* Two calls that need the executor and one that does not share two executions, under
\* every setting of verifyTee and of the independent verifier.
CONSTANTS
  Invocations = {i1, i2, i3}
  Texts = {t1, t2}
  Names = {"0g", "other"}
  BindingOf <- MCBindingOf
  NeedsOf <- MCNeedsOf
  MaxExecutions = 2
  i1 = i1
  i2 = i2
  i3 = i3
SPECIFICATION Spec
INVARIANTS
  ReceiptsIInv
  DeliveredTextWasExecuted
  IndependentVerdictDecides
PROPERTY
  FirstPresentationDecides
CHECK_DEADLOCK FALSE
