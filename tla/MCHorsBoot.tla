----------------------------- MODULE MCHorsBoot -----------------------------
(***************************************************************************)
(* One name and two accounts, so two service ids.  For the first, runs of  *)
(* enroll.ts publish policies of different humans, and so does a manifest  *)
(* made by hand, at a version far ahead.  A behaviour enrolls and starts;  *)
(* or one run publishes beside calls by hand, or both race, starts and     *)
(* calls; or both race beside calls by hand.                               *)
(***************************************************************************)
EXTENDS HorsBoot

CONSTANTS a1, a2, n1, r1, r2, p1, p2, h1, h2

MCAccountOf == [r \in Runs |-> a1]
MCNameOf == [r \in Runs |-> n1]
MCPolicyOf == [r \in Runs |-> IF r = r1 THEN p1 ELSE p2]
MCForeign == {[service |-> <<a1, n1>>, functions |-> p2, version |-> 9]}
MCHumanOf == [p \in Policies |-> IF p = p1 THEN h1 ELSE h2]
MCScenes == {{"enroll", "start"}, {r1, "hand", "start", "call"}, {r1, r2, "hand"}, {r1, r2, "start", "call"}}
=============================================================================
