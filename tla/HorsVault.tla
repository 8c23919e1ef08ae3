----------------------------- MODULE HorsVault -----------------------------
(***************************************************************************)
(* The vault of examples/call-home: a call that the gate lets through is   *)
(* judged by a guardian who is told of the earlier ones, paid on the       *)
(* chain, and then entered in a ledger the process keeps in memory.        *)
(*                                                                         *)
(* The handlers of home.borrow and home.emergency differ in the rules the  *)
(* guardian is given; both run between awaits, so that calls overlap.      *)
(***************************************************************************)
EXTENDS Integers, FiniteSets, FiniteSetsExt

CONSTANTS
  Calls,         \* handler runs, named for the calls they are for
  Amounts,       \* amounts a caller may ask for
  Wishes,        \* bound on what is asked for: one of these functions
  MaxPerRequest, \* vault.policies, for each type of record
  DailyLimit,
  NoLimit        \* emergencies have no daily limit

Types == {"borrow", "emergency"}

ASSUME VaultAssumption ==
  /\ Amounts \subseteq Nat \ {0}
  /\ MaxPerRequest \in [Types -> Nat]
  /\ DailyLimit \in [Types -> Nat \cup {NoLimit}]
  /\ NoLimit \notin Nat
  /\ Wishes \subseteq [Calls -> [type : Types, amount : Amounts]]

VARIABLES
  run,      \* where each handler is
  asked,    \* the type and the amount it is asked for
  told,     \* the records the guardian is told of, until it has judged
  chain,    \* what became of the transaction
  ledger,   \* the records, each named for its call
  forgotten, \* records that a restart wiped out
  missed    \* types one of whose calls began without knowing all before it

vaultVars == <<run, asked, told, chain, ledger, forgotten, missed>>

Running == {"judging", "sending", "confirming"}

\* "lost": the process stopped.
RunStates == {"idle", "returned", "failed", "lost"} \cup Running

Requests == [type : Types, amount : Amounts]

VaultTypeOK ==
  /\ run \in [Calls -> RunStates]
  /\ asked \in [Calls -> Requests]
  /\ told \in [Calls -> SUBSET Calls]
  /\ chain \in [Calls -> {"none", "pending", "mined", "reverted"}]
  /\ ledger \subseteq Calls /\ forgotten \subseteq Calls
  /\ missed \subseteq Types

VaultInit ==
  /\ run = [c \in Calls |-> "idle"]
  /\ asked \in Wishes
  /\ told = [c \in Calls |-> {}]
  /\ chain = [c \in Calls |-> "none"]
  /\ ledger = {} /\ forgotten = {}
  /\ missed = {}

Type(c) == asked[c].type

Busy(c) == run[c] \in Running

\* A transfer that is made, or may still be.
Spent(c) == chain[c] \in {"pending", "mined"}

RecordsOf(type) == {c \in ledger : Type(c) = type}

Total(S) == MapThenSumSet(LAMBDA c : asked[c].amount, S)

-----------------------------------------------------------------------------
(***************************************************************************)
(* The handler.                                                            *)
(***************************************************************************)

\* A handler that is not through, or failed to learn what became of its transaction.
Outstanding(c) == Busy(c) \/ (run[c] = "failed" /\ chain[c] # "none")

\* What the ledger does not say when a call of this type begins.
Untold(type) == \E c \in Calls : Type(c) = type /\ Outstanding(c)

\* The prompt is made from the ledger, and the executor is asked.
BeginRun(c) ==
  /\ run[c] = "idle"
  /\ run' = [run EXCEPT ![c] = "judging"]
  /\ told' = [told EXCEPT ![c] = RecordsOf(Type(c))]
  /\ missed' = IF Untold(Type(c)) THEN missed \cup {Type(c)} ELSE missed
  /\ UNCHANGED <<asked, chain, ledger, forgotten>>

\* The rules in the system prompt.
WithinRules(c) ==
  LET limit == DailyLimit[Type(c)] IN
  /\ asked[c].amount <= MaxPerRequest[Type(c)]
  /\ limit # NoLimit => Total(told[c]) + asked[c].amount <= limit

\* A guardian that keeps the rules approves, or the handler throws: the guardian denies,
\* its text does not parse, or the executor fails.
Judge(c) ==
  /\ run[c] = "judging"
  /\ \/ WithinRules(c) /\ run' = [run EXCEPT ![c] = "sending"]
     \/ run' = [run EXCEPT ![c] = "failed"]
  /\ told' = [told EXCEPT ![c] = {}]
  /\ UNCHANGED <<asked, chain, ledger, forgotten, missed>>

\* sendTransaction: a failure to hear the hash does not call the transaction back.
Send(c) ==
  /\ run[c] = "sending"
  /\ \/ /\ run' = [run EXCEPT ![c] = "confirming"]
        /\ chain' = [chain EXCEPT ![c] = "pending"]
     \/ /\ run' = [run EXCEPT ![c] = "failed"]
        /\ chain' \in {chain, [chain EXCEPT ![c] = "pending"]}
  /\ UNCHANGED <<asked, told, ledger, forgotten, missed>>

\* The chain takes the transaction into a block, where it may have reverted.
Mine(c) ==
  /\ chain[c] = "pending"
  /\ \E how \in {"mined", "reverted"} : chain' = [chain EXCEPT ![c] = how]
  /\ UNCHANGED <<run, asked, told, ledger, forgotten, missed>>

\* Mutant: the records of a type are written back as the handler knew them, not added to.
ConfirmOverwriting(c) ==
  /\ run[c] = "confirming"
  /\ \/ /\ chain[c] # "pending"
        /\ run' = [run EXCEPT ![c] = "returned"]
        /\ ledger' = (ledger \ RecordsOf(Type(c))) \cup {c}
     \/ run' = [run EXCEPT ![c] = "failed"] /\ UNCHANGED ledger
  /\ UNCHANGED <<asked, told, chain, forgotten, missed>>

\* Mutant: the call is not entered in the ledger.
ConfirmUnrecorded(c) ==
  /\ run[c] = "confirming"
  /\ \/ chain[c] # "pending" /\ run' = [run EXCEPT ![c] = "returned"]
     \/ run' = [run EXCEPT ![c] = "failed"]
  /\ UNCHANGED <<asked, told, chain, ledger, forgotten, missed>>

\* waitForTransactionReceipt resolves, whatever the receipt says, or gives up.
Confirm(c) ==
  /\ run[c] = "confirming"
  /\ \/ /\ chain[c] # "pending"
        /\ run' = [run EXCEPT ![c] = "returned"]
        /\ ledger' = ledger \cup {c}
     \/ run' = [run EXCEPT ![c] = "failed"] /\ UNCHANGED ledger
  /\ UNCHANGED <<asked, told, chain, forgotten, missed>>

\* The process stops and starts again; the ledger "resets on restart".  A transaction that
\* was just being sent may get through.
RestartVault ==
  /\ run' = [c \in Calls |-> IF Busy(c) THEN "lost" ELSE run[c]]
  /\ told' = [c \in Calls |-> {}]
  /\ ledger' = {} /\ forgotten' = forgotten \cup ledger
  /\ missed' = missed \cup {Type(c) : c \in {d \in Calls : Busy(d) \/ d \in ledger}}
  /\ \E sent \in SUBSET {c \in Calls : run[c] = "sending"} :
       chain' = [c \in Calls |-> IF c \in sent THEN "pending" ELSE chain[c]]
  /\ UNCHANGED asked

Handle(c) == Judge(c) \/ Send(c) \/ Confirm(c)

VaultNext ==
  \/ \E c \in Calls : BeginRun(c) \/ Handle(c) \/ Mine(c)
  \/ RestartVault

VaultSpec == VaultInit /\ [][VaultNext]_vaultVars

-----------------------------------------------------------------------------
(***************************************************************************)
(* Properties.                                                             *)
(***************************************************************************)

\* The ledger and the chain agree, however handlers overlap: a record stands for a
\* transaction in a block, and a transfer that is not in the ledger is one whose handler
\* still waits for it, failed to hear of it or stopped with the process, or whose record a
\* restart wiped out.  No handler's entry is lost to another's.
LedgerAccounts ==
  \A c \in Calls :
    /\ c \in ledger => run[c] = "returned"
    /\ run[c] = "returned" => chain[c] \in {"mined", "reverted"}
    /\ Spent(c) /\ c \notin ledger =>
         run[c] \in {"confirming", "failed", "lost"} \/ c \in forgotten

\* A handler that has not sent, has not; one that waits for the transaction or has returned
\* knows of it, and the latter is in the ledger until a restart wipes that out.
SendsOnce ==
  \A c \in Calls :
    /\ run[c] \in {"idle", "judging", "sending"} => chain[c] = "none"
    /\ run[c] = "confirming" => chain[c] # "none"
    /\ run[c] = "returned" => c \in ledger \cup forgotten

VaultIInv == VaultTypeOK /\ LedgerAccounts /\ SendsOnce

\* Where nothing was missed: one handler at most is outstanding, the guardian was told of all
\* others when it judged, and the limit leaves room for what it approved.
LimitInStep ==
  /\ IsFiniteSet({c \in Calls : run[c] # "idle"})
  /\ \A c \in Calls : run[c] = "lost" \/ c \in forgotten => Type(c) \in missed
  /\ \A c, d \in Calls :
       Outstanding(c) /\ Outstanding(d) /\ Type(c) = Type(d) /\ Type(c) \notin missed => c = d
  /\ \A c \in Calls :
       run[c] = "judging" /\ Type(c) \notin missed => told[c] = RecordsOf(Type(c))
  /\ \A type \in Types \ missed : DailyLimit[type] # NoLimit =>
       Total(RecordsOf(type)) <= DailyLimit[type]
  /\ \A c \in Calls :
       Outstanding(c) /\ run[c] # "judging" /\ Type(c) \notin missed
         /\ DailyLimit[Type(c)] # NoLimit =>
       Total(RecordsOf(Type(c))) + asked[c].amount <= DailyLimit[Type(c)]

\* The daily limit is kept among calls none of which began while another had not come to
\* its end, after a transfer that was not confirmed, or after a restart: the check of the
\* limit and the entry in the ledger are awaits apart.
LimitKept ==
  \A type \in Types \ missed :
    DailyLimit[type] # NoLimit =>
      Total({c \in Calls : Type(c) = type /\ Spent(c)}) <= DailyLimit[type]
=============================================================================
