----------------------------- MODULE MCHorsAuth -----------------------------
(***************************************************************************)
(* Small instances of HorsAuth.  m1 and m2 are ordinary headers of one     *)
(* agent; m3 is a header signed with the call id of m1, a new nonce and    *)
(* the hash of another policy.                                             *)
(***************************************************************************)
EXTENDS HorsAuth, TLC

CONSTANTS m1, m2, m3, agent1, agent2, n1, n2, n3, c1, c2, h1, h2, d1, d2

\* The headers of the instance, restricted to Msgs.
MCSignerOf  == [m \in Msgs |-> IF m = m2 THEN agent2 ELSE agent1]
MCNonceOf   == [m \in Msgs |-> IF m = m1 THEN n1 ELSE IF m = m2 THEN n2 ELSE n3]
MCCallIdOf  == [m \in Msgs |-> IF m = m2 THEN c2 ELSE c1]
MCSignedHashOf == [m \in Msgs |-> IF m = m1 THEN h1 ELSE h2]
MCServedHashOf == [d \in Deployments |-> IF d = d1 THEN h1 ELSE h2]

ReqSymmetry == Permutations(Reqs)
=============================================================================
