---------------------------- MODULE MCHorsServer ----------------------------
(***************************************************************************)
(* Small instances of HorsServer.  Headers m1, m2 and m3 are signed by     *)
(* agent1 and m4 by agent2; m1 and m3 are for the tool pay, the others for *)
(* look.  Deployment d1 wants a Selfie for pay and a TEE receipt for look; *)
(* d2 has no adapters and no executors and hides look; d3 dropped the      *)
(* step-up and opened look to everybody; d4 asks for an Identity; d5 asks  *)
(* for an Identity with attributes.                                        *)
(***************************************************************************)
EXTENDS HorsServer, TLC

CONSTANTS m1, m2, m3, m4, agent1, agent2, n1, n2, n3, n4, c1, c2, c3, c4,
          h1, h2, d1, d2, d3, d4, d5, pay, look, a1, a2

Pick(m, w, x, y, z) ==
  IF m = m1 THEN w ELSE IF m = m2 THEN x ELSE IF m = m3 THEN y ELSE z

MCSignerOf     == [m \in Msgs |-> Pick(m, agent1, agent1, agent1, agent2)]
MCNonceOf      == [m \in Msgs |-> Pick(m, n1, n2, n3, n4)]
MCCallIdOf     == [m \in Msgs |-> Pick(m, c1, c2, c3, c4)]
MCFnOf         == [m \in Msgs |-> Pick(m, pay, look, pay, look)]
MCArgsOf       == [m \in Msgs |-> Pick(m, a1, a1, a2, a1)]
MCSignedHashOf == [m \in Msgs |-> h1]
MCServedHashOf == [d \in Deployments |-> h1]

PolicyOf(origin, assurance, executor, callable, attributes) ==
  [origin |-> origin, assurance |-> assurance, executor |-> executor,
   agentCallable |-> callable, identityAttributes |-> attributes]

PayPolicy(d) ==
  CASE d = d3 -> PolicyOf("same-human", {}, {}, {}, {})
    [] d = d4 -> PolicyOf("same-human", {"identity"}, {}, {TRUE}, {})
    [] d = d5 -> PolicyOf("same-human", {"identity"}, {"local"}, {}, {<<"passport">>})
    [] OTHER  -> PolicyOf("same-human", {"selfie"}, {}, {}, {})

LookPolicy(d) ==
  CASE d = d3 -> PolicyOf("public", {"none"}, {}, {}, {})
    [] d \in {d2, d4} -> PolicyOf("any-human", {}, {}, {FALSE}, {})
    [] OTHER  -> PolicyOf("any-human", {}, {"0g"}, {}, {})

MCServiceOf ==
  [d \in Deployments |->
     [policies   |-> [f \in Fns |-> IF f = pay THEN PayPolicy(d) ELSE LookPolicy(d)],
      assurance  |-> d # d2,
      executors  |-> IF d = d1 THEN {"0g"} ELSE {}]]

ReqSymmetry == Permutations(Reqs)
=============================================================================
