\* Two attribute kinds in lists of at most two: enough for lists that differ in
\* length, in content and in order.
CONSTANTS
  Attrs = {a1, a2}
  Humans = {owner, other}
  Owner = owner
  MaxAttrs = 2
  MaxProofs = 2
SPECIFICATION Spec
INVARIANTS
  AllowsExactlyThePermitted
  RegisteredPolicyDecidesAsPublished
  StepUpSuffices
CHECK_DEADLOCK FALSE
