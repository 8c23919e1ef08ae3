--------------------------- MODULE MCHorsDiscovery ---------------------------
(***************************************************************************)
(* One name and two accounts, so two service ids, either of which the      *)
(* other account may come to own, and may update then; a manifest of each, *)
(* which anyone stores and any owner commits to; two commands.  There is   *)
(* no run of enroll.ts: what one does to the contract and to storage, a    *)
(* call and an upload by hand do too, and discovery sees no more of it.    *)
(***************************************************************************)
EXTENDS HorsDiscovery, TLC

CONSTANTS a1, a2, n1, p1, p2, e1, e2, c1, c2

MCAccountOf == [r \in Runs |-> a1]
MCNameOf == [r \in Runs |-> n1]
MCPolicyOf == [r \in Runs |-> p1]

ManifestFor(account, functions) ==
  [service |-> deriveServiceId(account, n1), functions |-> functions, version |-> 1]

MCForeign == {ManifestFor(a1, p1), ManifestFor(a2, p2)}

MCSymmetry == Permutations({e1, e2}) \cup Permutations({c1, c2})
==============================================================================
