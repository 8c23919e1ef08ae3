---------------------------- MODULE MCHorsTrace ----------------------------
(***************************************************************************)
(* One home, one service and three processes: either commands that write   *)
(* the profile and its neighbours, or calls and the disconnect that takes  *)
(* the trace away from them.                                               *)
(***************************************************************************)
EXTENDS HorsTrace, TLC

MCMixes == {{"upsert", "connect", "disconnect"}, {"call", "disconnect"}}

MCSymmetry == Permutations(Procs)
=============================================================================
