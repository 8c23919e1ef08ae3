--------------------------- MODULE MCHorsReceipts ---------------------------
(***************************************************************************)
(* Small instances of HorsReceipts: i1 and i2 are two calls of one tool    *)
(* that needs the 0G executor, i3 is a call of a tool that needs none.     *)
(***************************************************************************)
EXTENDS HorsReceipts

CONSTANTS i1, i2, i3

MCBindingOf == [i \in Invocations |-> <<IF i = i3 THEN "plain" ELSE "ask", i, "args">>]
MCNeedsOf   == [i \in Invocations |-> IF i = i3 THEN "local" ELSE "0g"]
=============================================================================
