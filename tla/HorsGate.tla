------------------------------ MODULE HorsGate ------------------------------
(***************************************************************************)
(* What authorization promises, with no clock, stores or phases: of all    *)
(* the requests that carry a signed call at most one is admitted, for as   *)
(* long as the gate remembers what it admitted.                            *)
(***************************************************************************)
CONSTANTS
  Requests,
  Calls,    \* the signed calls
  Durable   \* TRUE: the memory of the gate survives a restart

VARIABLE admitted   \* pairs <<request, call>>

Init == admitted = {}

Admit(r, c) ==
  /\ \A ticket \in admitted : ticket[1] # r /\ ticket[2] # c
  /\ admitted' = admitted \cup {<<r, c>>}

\* A restart of a gate whose memory is not durable.
Forget ==
  /\ ~Durable
  /\ admitted' = {}

Next == Forget \/ \E r \in Requests, c \in Calls : Admit(r, c)

Spec == Init /\ [][Next]_admitted
=============================================================================
