----------------------------- MODULE MCHorsCall -----------------------------
(***************************************************************************)
(* Two calls to a vault with a daily limit of one borrow: what one of them *)
(* prints, the other may present.                                          *)
(***************************************************************************)
EXTENDS HorsCall, TLC

CONSTANTS c1, c2

MCClients == (c1 :> {"tty", "mcp"}) @@ (c2 :> {"tty", "pipe"})

\* Both borrow, or one of them has an emergency.
MCWishes ==
  {[c \in Calls |-> [type |-> "borrow", amount |-> 1]],
   [c \in Calls |-> [type |-> IF c = c1 THEN "borrow" ELSE "emergency", amount |-> 1]]}

MCMaxPerRequest == [t \in Types |-> 1]
MCDailyLimit == [t \in Types |-> IF t = "borrow" THEN 1 ELSE NoLimit]
=============================================================================
