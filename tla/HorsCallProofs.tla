--------------------------- MODULE HorsCallProofs ---------------------------
(***************************************************************************)
(* Proofs about the vault and about the calls made to it.                  *)
(***************************************************************************)
EXTENDS HorsCall, FiniteSetTheorems, SequenceTheorems, TLAPS

-----------------------------------------------------------------------------
(***************************************************************************)
(* The vault.                                                              *)
(***************************************************************************)

LEMMA VaultStarts == VaultInit => VaultIInv
  BY VaultAssumption
  DEF VaultInit, VaultIInv, VaultTypeOK, LedgerAccounts, SendsOnce, RunStates, Running, Requests,
      Spent, Types

\* A step of the handler, or of the transaction it sent, touches the call it is for.
LEMMA HandlerKeepsVault ==
  ASSUME VaultIInv, NEW c \in Calls, BeginRun(c) \/ Judge(c) \/ Send(c) \/ Confirm(c) \/ Mine(c)
  PROVE  VaultIInv'
<1> USE DEF VaultIInv
<1>1. asked' = asked /\ \A d \in Calls : Type(d)' = Type(d)
  BY DEF BeginRun, Judge, Send, Confirm, Mine, Type
<1>2. CASE BeginRun(c)
  <2>1. VaultTypeOK'
    BY <1>2 DEF BeginRun, VaultTypeOK, RunStates, Running, RecordsOf, Requests, Type
  <2>2. missed \subseteq missed' /\ ledger' = ledger /\ chain' = chain
    BY <1>2 DEF BeginRun
  <2>3. (LedgerAccounts /\ SendsOnce)'
    BY <1>1, <1>2, <2>1, <2>2 DEF BeginRun, VaultTypeOK, LedgerAccounts, SendsOnce, Spent
  <2> QED BY <2>1, <2>3
<1>3. CASE Judge(c)
  <2>1. VaultTypeOK'
    BY <1>3 DEF Judge, VaultTypeOK, RunStates, Running
  <2>2. (LedgerAccounts /\ SendsOnce)'
    BY <1>1, <1>3, <2>1 DEF Judge, VaultTypeOK, LedgerAccounts, SendsOnce, Spent
  <2> QED BY <2>1, <2>2
<1>4. CASE Send(c)
  <2>1. VaultTypeOK'
    BY <1>4 DEF Send, VaultTypeOK, RunStates, Running
  <2>2. (LedgerAccounts /\ SendsOnce)'
    BY <1>1, <1>4, <2>1 DEF Send, VaultTypeOK, LedgerAccounts, SendsOnce, Spent
  <2> QED BY <2>1, <2>2
<1>5. CASE Confirm(c)
  <2>1. VaultTypeOK'
    BY <1>5 DEF Confirm, VaultTypeOK, RunStates, Running
  <2>2. (LedgerAccounts /\ SendsOnce)'
    BY <1>1, <1>5, <2>1 DEF Confirm, VaultTypeOK, LedgerAccounts, SendsOnce, Spent
  <2> QED BY <2>1, <2>2
<1>6. CASE Mine(c)
  <2>1. VaultTypeOK'
    BY <1>6 DEF Mine, VaultTypeOK
  <2>2. (LedgerAccounts /\ SendsOnce)'
    BY <1>1, <1>6, <2>1 DEF Mine, VaultTypeOK, LedgerAccounts, SendsOnce, Spent
  <2> QED BY <2>1, <2>2
<1> QED BY <1>2, <1>3, <1>4, <1>5, <1>6

LEMMA RestartKeepsVault == VaultIInv /\ RestartVault => VaultIInv'
<1> SUFFICES ASSUME VaultIInv, RestartVault PROVE VaultIInv'
  OBVIOUS
<1> USE DEF VaultIInv
<1>1. \A d \in Calls : Type(d)' = Type(d) /\ Type(d) \in Types
  BY DEF RestartVault, Type, VaultTypeOK, Requests
<1>2. VaultTypeOK'
  BY <1>1 DEF RestartVault, VaultTypeOK, RunStates, Running
<1>3. \A d \in Calls : Busy(d) \/ d \in ledger => Type(d)' \in missed'
  BY <1>1 DEF RestartVault
<1>4. \A d \in Calls : Type(d) \in missed => Type(d)' \in missed'
  BY <1>1 DEF RestartVault
<1>5. \A d \in Calls : run'[d] = IF Busy(d) THEN "lost" ELSE run[d]
  BY DEF RestartVault
<1>6. \A d \in Calls : run[d] # "sending" => chain'[d] = chain[d]
  BY DEF RestartVault, VaultTypeOK
<1>7. ledger' = {} /\ forgotten' = forgotten \cup ledger
  BY DEF RestartVault
<1>8. (LedgerAccounts /\ SendsOnce)'
  BY <1>2, <1>3, <1>4, <1>5, <1>6, <1>7
  DEF VaultTypeOK, RunStates, Running, Busy, LedgerAccounts, SendsOnce, Spent
<1> QED BY <1>2, <1>8

LEMMA VaultStutters == VaultIInv /\ UNCHANGED vaultVars => VaultIInv'
  BY DEF vaultVars, VaultIInv, VaultTypeOK, LedgerAccounts, SendsOnce, Spent, Type

LEMMA VaultKept == VaultIInv /\ [VaultNext]_vaultVars => VaultIInv'
  BY HandlerKeepsVault, RestartKeepsVault, VaultStutters DEF VaultNext, Handle

\* What the vault's process and the chain do keeps VaultIInv, and so what the ledger shows
\* of the transfers is accounted for.
THEOREM VaultInvariant == VaultSpec => []VaultIInv
  BY VaultStarts, VaultKept, PTL DEF VaultSpec

-----------------------------------------------------------------------------
(***************************************************************************)
(* Sums.  MapThenSumSet is a recursive function on the subsets of a set:   *)
(* that there is one is shown by counting units, and that there is no      *)
(* other by the smallest subset on which they would differ.                *)
(***************************************************************************)

Sum(q, S) == MapThenSumSet(LAMBDA c : q[c].amount, S)

\* One unit for each unit of each amount: their number is the sum.
Units(q, S) == {u \in S \X Nat : u[2] \in 1..q[u[1]].amount}

Least(s) == CHOOSE x \in s : TRUE

\* What MapThenSumSet computes with.
Adds(q, S, g) ==
  g = [s \in SUBSET S |-> IF s = {} THEN 0 ELSE q[Least(s)].amount + g[s \ {Least(s)}]]

\* Sums are taken of finitely many amounts.
Counted(q, S) == IsFiniteSet(S) /\ \A c \in S : q[c].amount \in Nat

LEMMA SubsetsWellFounded ==
  ASSUME NEW S, IsFiniteSet(S), NEW T, T \subseteq SUBSET S, T # {}
  PROVE  \E x \in T : \A y \in T : ~(y \subseteq x /\ y # x)
<1>1. IsWellFoundedOn(StrictSubsetOrdering(S), SUBSET S)
  BY FS_StrictSubsetOrderingWellFounded, FS_FiniteSubsetsOfFinite
<1>2. \E x \in T : \A y \in T : <<y, x>> \notin StrictSubsetOrdering(S)
  BY <1>1, WFMin
<1>3. \A x \in T, y \in T : y \subseteq x /\ y # x => <<y, x>> \in StrictSubsetOrdering(S)
  BY DEF StrictSubsetOrdering
<1> QED BY <1>2, <1>3

LEMMA NoUnits ==
  ASSUME NEW q
  PROVE  IsFiniteSet(Units(q, {})) /\ Cardinality(Units(q, {})) = 0
<1>1. Units(q, {}) = {}
  BY DEF Units
<1> QED BY <1>1, FS_EmptySet

LEMMA UnitsOfOneMore ==
  ASSUME NEW q, NEW S, NEW x, x \notin S, q[x].amount \in Nat, IsFiniteSet(Units(q, S))
  PROVE  /\ IsFiniteSet(Units(q, S \cup {x}))
         /\ Cardinality(Units(q, S \cup {x})) = Cardinality(Units(q, S)) + q[x].amount
<1> DEFINE n == q[x].amount
           old == Units(q, S)
           new == {x} \X (1..n)
           all == Units(q, S \cup {x})
<1>1. all = old \cup new /\ old \cap new = {}
  BY DEF Units
<1>2. n \in Nat /\ IsFiniteSet(old)
  OBVIOUS
<1> HIDE DEF n, old, all
<1>3. IsFiniteSet(1..n) /\ Cardinality(1..n) = n
  <2>1. 1 \in Int /\ n \in Int
    BY <1>2
  <2>2. IsFiniteSet(1..n) /\ Cardinality(1..n) = IF 1 > n THEN 0 ELSE n - 1 + 1
    BY <2>1, FS_Interval
  <2> QED BY <1>2, <2>2
<1>4. IsFiniteSet(new) /\ Cardinality(new) = n
  <2>1. IsFiniteSet({x}) /\ Cardinality({x}) = 1
    BY FS_Singleton
  <2>2. IsFiniteSet(new) /\ Cardinality(new) = Cardinality({x}) * Cardinality(1..n)
    BY <1>3, <2>1, FS_Product
  <2> QED BY <1>2, <1>3, <2>1, <2>2
<1> HIDE DEF new
<1>5. /\ IsFiniteSet(all)
      /\ Cardinality(all) = Cardinality(old) + Cardinality(new) - Cardinality(old \cap new)
  BY <1>1, <1>2, <1>4, FS_Union
<1>6. Cardinality(old) \in Nat /\ Cardinality(old \cap new) = 0
  BY <1>1, <1>2, FS_EmptySet, FS_CardinalityType
<1>7. IsFiniteSet(all) /\ Cardinality(all) = Cardinality(old) + n
  BY <1>2, <1>4, <1>5, <1>6
<1> QED BY <1>7 DEF n, old, all

LEMMA UnitsAreFinite ==
  ASSUME NEW q, NEW S, Counted(q, S)
  PROVE  IsFiniteSet(Units(q, S))
<1> DEFINE Bad == {s \in SUBSET S : ~IsFiniteSet(Units(q, s))}
<1>1. SUFFICES ASSUME Bad # {} PROVE FALSE
  OBVIOUS
<1>2. PICK s \in Bad : \A t \in Bad : ~(t \subseteq s /\ t # s)
  <2>1. Bad \subseteq SUBSET S /\ IsFiniteSet(S)
    BY DEF Counted
  <2> HIDE DEF Bad
  <2> QED BY <1>1, <2>1, SubsetsWellFounded
<1>3. PICK x : x \in s
  BY NoUnits
<1>4. IsFiniteSet(Units(q, s \ {x}))
  BY <1>2, <1>3
<1>5. s = (s \ {x}) \cup {x} /\ x \in S
  BY <1>3
<1>6. IsFiniteSet(Units(q, (s \ {x}) \cup {x}))
  BY <1>4, <1>5, UnitsOfOneMore DEF Counted
<1> QED BY <1>2, <1>5, <1>6

LEMMA LeastIsIn ==
  ASSUME NEW s, s # {}
  PROVE  Least(s) \in s
  BY DEF Least

\* The sum is the number of units.
LEMMA SumIsCount ==
  ASSUME NEW q, NEW S, Counted(q, S)
  PROVE  Sum(q, S) = Cardinality(Units(q, S))
<1> DEFINE count == [s \in SUBSET S |-> Cardinality(Units(q, s))]
           sum == CHOOSE g : Adds(q, S, g)
<1>1. Sum(q, S) = sum[S]
  BY DEF Sum, MapThenSumSet, MapThenFoldSet, Adds, Least
<1>2. ASSUME NEW s \in SUBSET S, s # {}
      PROVE  /\ Least(s) \in S /\ s \ {Least(s)} \in SUBSET S /\ s \ {Least(s)} # s
             /\ count[s] = q[Least(s)].amount + count[s \ {Least(s)}]
  <2> DEFINE x == Least(s)
  <2>1. x \in s
    BY <1>2, LeastIsIn
  <2> HIDE DEF x
  <2>2. Counted(q, s \ {x})
    BY FS_Subset DEF Counted
  <2>3. IsFiniteSet(Units(q, s \ {x})) /\ Cardinality(Units(q, s \ {x})) \in Nat
    BY <2>2, UnitsAreFinite, FS_CardinalityType
  <2>4. s = (s \ {x}) \cup {x} /\ q[x].amount \in Nat
    BY <2>1 DEF Counted
  <2>5. Cardinality(Units(q, (s \ {x}) \cup {x})) = Cardinality(Units(q, s \ {x})) + q[x].amount
    BY <2>3, <2>4, UnitsOfOneMore
  <2>6. count[s] = count[s \ {x}] + q[x].amount /\ count[s \ {x}] \in Nat
    BY <2>3, <2>4, <2>5
  <2> QED BY <2>1, <2>4, <2>6 DEF x
<1>3. count[{}] = 0
  BY NoUnits
<1>4. Adds(q, S, count)
  <2>1. \A s \in SUBSET S :
          count[s] = IF s = {} THEN 0 ELSE q[Least(s)].amount + count[s \ {Least(s)}]
    BY <1>2, <1>3
  <2> QED BY <2>1 DEF Adds
<1>5. Adds(q, S, sum)
  BY <1>4
<1>6. \A s \in SUBSET S :
        sum[s] = IF s = {} THEN 0 ELSE q[Least(s)].amount + sum[s \ {Least(s)}]
  <2> HIDE DEF sum
  <2> QED BY <1>5 DEF Adds
<1> HIDE DEF sum
<1> DEFINE Bad == {s \in SUBSET S : sum[s] # count[s]}
<1>7. Bad = {}
  <2> SUFFICES ASSUME Bad # {} PROVE FALSE
    OBVIOUS
  <2>1. PICK s \in Bad : \A t \in Bad : ~(t \subseteq s /\ t # s)
    <3>1. Bad \subseteq SUBSET S /\ IsFiniteSet(S)
      BY DEF Counted
    <3> HIDE DEF Bad
    <3> QED BY <3>1, SubsetsWellFounded
  <2> HIDE DEF count
  <2>2. s # {}
    BY <1>3, <1>6
  <2>3. sum[s \ {Least(s)}] = count[s \ {Least(s)}]
    BY <1>2, <2>1, <2>2
  <2> QED BY <1>2, <1>6, <2>2, <2>3
<1> QED BY <1>1, <1>7

\* What is used of sums.
LEMMA SumOfNone ==
  ASSUME NEW q
  PROVE  Sum(q, {}) = 0
<1>1. Counted(q, {})
  BY FS_EmptySet DEF Counted
<1> QED BY <1>1, SumIsCount, NoUnits

LEMMA SumOfOneMore ==
  ASSUME NEW q, NEW S, NEW x, Counted(q, S), x \notin S, q[x].amount \in Nat
  PROVE  Counted(q, S \cup {x}) /\ Sum(q, S \cup {x}) = Sum(q, S) + q[x].amount
<1>1. Counted(q, S \cup {x})
  BY FS_AddElement DEF Counted
<1>2. IsFiniteSet(Units(q, S)) /\ Sum(q, S) = Cardinality(Units(q, S))
  BY SumIsCount, UnitsAreFinite
<1>3. Sum(q, S \cup {x}) = Cardinality(Units(q, S \cup {x}))
  BY <1>1, SumIsCount
<1>4. Cardinality(Units(q, S \cup {x})) = Cardinality(Units(q, S)) + q[x].amount
  BY <1>2, UnitsOfOneMore
<1> QED BY <1>1, <1>2, <1>3, <1>4

LEMMA SumOfPart ==
  ASSUME NEW q, NEW S, Counted(q, S), NEW T, T \subseteq S
  PROVE  Counted(q, T) /\ Sum(q, T) \in Nat /\ Sum(q, S) \in Nat /\ Sum(q, T) <= Sum(q, S)
<1>1. Counted(q, T)
  BY FS_Subset DEF Counted
<1>2. IsFiniteSet(Units(q, S)) /\ Units(q, T) \subseteq Units(q, S)
  BY UnitsAreFinite DEF Units
<1> QED BY <1>1, <1>2, SumIsCount, FS_Subset, FS_CardinalityType

LEMMA TotalIsSum == \A S : Total(S) = Sum(asked, S)
  BY DEF Total, Sum

LEMMA TotalIsSumNext == (\A S : Total(S) = Sum(asked, S))'
  BY TotalIsSum, PTL

-----------------------------------------------------------------------------
(***************************************************************************)
(* The daily limit.                                                        *)
(***************************************************************************)

LEMMA RecordsCounted ==
  ASSUME VaultIInv, LimitInStep, NEW type
  PROVE  /\ Counted(asked, RecordsOf(type)) /\ Total(RecordsOf(type)) \in Nat
         /\ \A c \in Calls : asked[c].amount \in Nat
<1>1. \A c \in Calls : asked[c].amount \in Nat
  BY VaultAssumption DEF VaultIInv, VaultTypeOK, Requests
<1>2. RecordsOf(type) \subseteq {c \in Calls : run[c] # "idle"}
  BY DEF RecordsOf, VaultIInv, VaultTypeOK, LedgerAccounts
<1>3. Counted(asked, RecordsOf(type))
  BY <1>1, <1>2, FS_Subset DEF Counted, LimitInStep
<1> QED BY <1>1, <1>3, SumOfPart, TotalIsSum

LEMMA LimitStarts == VaultInit => LimitInStep
<1> SUFFICES ASSUME VaultInit PROVE LimitInStep
  OBVIOUS
<1>1. IsFiniteSet({c \in Calls : run[c] # "idle"})
  <2>1. {c \in Calls : run[c] # "idle"} = {}
    BY DEF VaultInit
  <2> QED BY <2>1, FS_EmptySet
<1>2. \A type \in Types : DailyLimit[type] # NoLimit => Total(RecordsOf(type)) <= DailyLimit[type]
  <2>1. \A type : RecordsOf(type) = {}
    BY DEF VaultInit, RecordsOf
  <2>2. Total({}) = 0
    BY TotalIsSum, SumOfNone
  <2>3. \A type \in Types : DailyLimit[type] # NoLimit => DailyLimit[type] \in Nat
    BY VaultAssumption
  <2> QED BY <2>1, <2>2, <2>3
<1> QED BY <1>1, <1>2 DEF VaultInit, LimitInStep, Outstanding, Busy, Running

LEMMA BeginKeepsLimit ==
  ASSUME VaultIInv, LimitInStep, NEW c \in Calls, BeginRun(c)
  PROVE  LimitInStep'
<1>1. /\ run[c] = "idle" /\ run' = [run EXCEPT ![c] = "judging"]
      /\ told' = [told EXCEPT ![c] = RecordsOf(Type(c))]
      /\ missed' = IF Untold(Type(c)) THEN missed \cup {Type(c)} ELSE missed
      /\ UNCHANGED <<asked, chain, ledger, forgotten>>
      /\ run \in [Calls -> RunStates] /\ told \in [Calls -> SUBSET Calls]
  BY DEF BeginRun, VaultIInv, VaultTypeOK
<1>2. /\ \A d \in Calls : Type(d)' = Type(d)
      /\ \A type : RecordsOf(type)' = RecordsOf(type)
      /\ \A type : Total(RecordsOf(type))' = Total(RecordsOf(type))
  BY <1>1, TotalIsSum, TotalIsSumNext DEF Type, RecordsOf
<1>3. /\ run'[c] = "judging" /\ told'[c] = RecordsOf(Type(c)) /\ missed \subseteq missed'
      /\ \A d \in Calls \ {c} : run'[d] = run[d] /\ told'[d] = told[d]
  BY <1>1
<1>4. \A d \in Calls \ {c} : Outstanding(d)' = Outstanding(d)
  BY <1>1, <1>3 DEF Outstanding, Busy
<1>5. \A d \in Calls : Outstanding(d) /\ Type(d) = Type(c) => Type(c) \in missed'
  BY <1>1 DEF Untold
<1>6. IsFiniteSet({d \in Calls : run'[d] # "idle"})
  <2>1. {d \in Calls : run'[d] # "idle"} = {d \in Calls : run[d] # "idle"} \cup {c}
    BY <1>3
  <2> QED BY <2>1, FS_AddElement DEF LimitInStep
<1> QED BY <1>1, <1>2, <1>3, <1>4, <1>5, <1>6 DEF LimitInStep

\* Nothing is recorded, and nothing becomes outstanding that has not been.
LEMMA LimitKeptUnrecorded ==
  ASSUME VaultIInv, LimitInStep,
         UNCHANGED <<asked, ledger, forgotten, missed>>,
         \A d \in Calls : /\ run'[d] = "idle" <=> run[d] = "idle"
                          /\ run'[d] = "lost" <=> run[d] = "lost"
                          /\ Outstanding(d)' => Outstanding(d)
                          /\ run'[d] = "judging" => run[d] = "judging" /\ told'[d] = told[d]
                          /\ run[d] = "judging" /\ Outstanding(d)' /\ run'[d] # "judging" => WithinRules(d)
  PROVE  LimitInStep'
<1>1. /\ \A d \in Calls : Type(d)' = Type(d)
      /\ \A type : RecordsOf(type)' = RecordsOf(type)
      /\ \A type : Total(RecordsOf(type))' = Total(RecordsOf(type))
  BY TotalIsSum, TotalIsSumNext DEF Type, RecordsOf
<1>2. {d \in Calls : run'[d] # "idle"} = {d \in Calls : run[d] # "idle"}
  OBVIOUS
<1>3. ASSUME NEW d \in Calls, Outstanding(d)', run'[d] # "judging", Type(d) \notin missed,
             DailyLimit[Type(d)] # NoLimit
      PROVE  Total(RecordsOf(Type(d))) + asked[d].amount <= DailyLimit[Type(d)]
  <2>1. CASE run[d] = "judging"
    BY <1>3, <2>1 DEF WithinRules, LimitInStep
  <2>2. CASE run[d] # "judging"
    BY <1>3, <2>2 DEF LimitInStep
  <2> QED BY <2>1, <2>2
<1> QED BY <1>1, <1>2, <1>3 DEF LimitInStep

LEMMA ConfirmKeepsLimit ==
  ASSUME VaultIInv, LimitInStep, NEW c \in Calls,
         run[c] = "confirming", run' = [run EXCEPT ![c] = "returned"], ledger' = ledger \cup {c},
         UNCHANGED <<asked, told, chain, forgotten, missed>>
  PROVE  LimitInStep'
<1>1. /\ run'[c] = "returned" /\ \A d \in Calls \ {c} : run'[d] = run[d]
      /\ c \notin ledger
  BY DEF VaultIInv, VaultTypeOK, LedgerAccounts
<1>2. /\ \A d \in Calls : Type(d)' = Type(d)
      /\ \A type : type # Type(c) => RecordsOf(type)' = RecordsOf(type)
      /\ RecordsOf(Type(c))' = RecordsOf(Type(c)) \cup {c}
      /\ c \notin RecordsOf(Type(c))
  BY <1>1 DEF Type, RecordsOf
<1>3. /\ \A type : type # Type(c) => Total(RecordsOf(type))' = Total(RecordsOf(type))
      /\ Total(RecordsOf(Type(c)))' = Total(RecordsOf(Type(c))) + asked[c].amount
  <2>1. Sum(asked, RecordsOf(Type(c)) \cup {c}) = Sum(asked, RecordsOf(Type(c))) + asked[c].amount
    BY <1>2, RecordsCounted, SumOfOneMore
  <2> QED BY <1>2, <2>1, TotalIsSum, TotalIsSumNext
<1>4. /\ Outstanding(c) /\ ~Outstanding(c)'
      /\ \A d \in Calls \ {c} : Outstanding(d)' = Outstanding(d)
      /\ \A d \in Calls \ {c} : run[d] = "judging" => Outstanding(d)
  BY <1>1 DEF Outstanding, Busy, Running
<1>5. \A d \in Calls \ {c} : Outstanding(d) /\ Type(d) = Type(c) => Type(c) \in missed
  BY <1>4 DEF LimitInStep
<1>6. {d \in Calls : run'[d] # "idle"} = {d \in Calls : run[d] # "idle"}
  BY <1>1
<1>7. Type(c) \notin missed /\ DailyLimit[Type(c)] # NoLimit =>
        Total(RecordsOf(Type(c)))' <= DailyLimit[Type(c)]
  BY <1>3, <1>4 DEF LimitInStep
<1> QED BY <1>1, <1>2, <1>3, <1>4, <1>5, <1>6, <1>7 DEF LimitInStep

LEMMA RestartKeepsLimit ==
  ASSUME VaultIInv, LimitInStep, RestartVault
  PROVE  LimitInStep'
<1>1. /\ run' = [d \in Calls |-> IF Busy(d) THEN "lost" ELSE run[d]]
      /\ ledger' = {} /\ forgotten' = forgotten \cup ledger /\ asked' = asked
      /\ missed' = missed \cup {Type(d) : d \in {e \in Calls : Busy(e) \/ e \in ledger}}
      /\ \A d \in Calls : run[d] # "sending" => chain'[d] = chain[d]
  BY DEF RestartVault
<1>2. \A d \in Calls : Type(d)' = Type(d) /\ (Type(d) \in missed => Type(d) \in missed')
  BY <1>1 DEF Type
<1>3. \A d \in Calls : Busy(d) \/ d \in ledger => Type(d) \in missed'
  BY <1>1
<1>4. \A type \in Types : type \notin missed' =>
        type \notin missed /\ RecordsOf(type)' = {} /\ RecordsOf(type) = {}
  BY <1>1, <1>3 DEF RecordsOf, VaultIInv, VaultTypeOK
<1>5. \A type \in Types : type \notin missed' => Total(RecordsOf(type))' = Total(RecordsOf(type))
  BY <1>1, <1>4, TotalIsSum, TotalIsSumNext
<1>6. \A d \in Calls : Outstanding(d)' => Outstanding(d) /\ ~Busy(d) /\ run'[d] = run[d]
  BY <1>1 DEF Outstanding, Busy, Running
<1>7. {d \in Calls : run'[d] # "idle"} = {d \in Calls : run[d] # "idle"}
  BY <1>1 DEF Busy, Running
<1>8. \A d \in Calls : /\ run'[d] = "lost" => Busy(d) \/ run[d] = "lost"
                       /\ run'[d] # "judging" /\ Type(d) \in Types
  BY <1>1 DEF Busy, Running, Type, VaultIInv, VaultTypeOK, Requests
<1>9. \A d \in Calls : ~Busy(d) => run[d] # "judging"
  BY DEF Busy, Running
<1>10. \A d \in Calls : run'[d] = "lost" \/ d \in forgotten' => Type(d)' \in missed'
  BY <1>1, <1>2, <1>3, <1>8 DEF LimitInStep
<1>11. \A d, e \in Calls :
         (Outstanding(d) /\ Outstanding(e) /\ Type(d) = Type(e) /\ Type(d) \notin missed)' => d = e
  BY <1>2, <1>6 DEF LimitInStep
<1>12. \A d \in Calls :
         (Outstanding(d) /\ Type(d) \notin missed /\ DailyLimit[Type(d)] # NoLimit)' =>
         (Total(RecordsOf(Type(d))) + asked[d].amount <= DailyLimit[Type(d)])'
  <2> SUFFICES ASSUME NEW d \in Calls,
                      (Outstanding(d) /\ Type(d) \notin missed /\ DailyLimit[Type(d)] # NoLimit)'
               PROVE  (Total(RecordsOf(Type(d))) + asked[d].amount <= DailyLimit[Type(d)])'
    OBVIOUS
  <2>1. PICK type \in Types : type = Type(d)
    BY <1>8
  <2>2. Type(d)' = type /\ type \notin missed' /\ type \notin missed /\ DailyLimit[type] # NoLimit
    BY <1>2, <2>1
  <2>3. Total(RecordsOf(type)) + asked[d].amount <= DailyLimit[type]
    BY <1>6, <1>9, <2>1, <2>2 DEF LimitInStep
  <2>4. Total(RecordsOf(type))' = Total(RecordsOf(type))
    BY <1>5, <2>2
  <2>5. Total(RecordsOf(Type(d)))' = Total(RecordsOf(type))'
    BY <2>2, TotalIsSumNext DEF RecordsOf, Type
  <2> QED BY <1>1, <2>2, <2>3, <2>4, <2>5
<1>13. \A type \in Types \ missed' : DailyLimit[type] # NoLimit =>
         Total(RecordsOf(type))' <= DailyLimit[type]
  BY <1>4, <1>5 DEF LimitInStep
<1> QED BY <1>7, <1>8, <1>10, <1>11, <1>12, <1>13 DEF LimitInStep

LEMMA LimitStepKept == VaultIInv /\ LimitInStep /\ [VaultNext]_vaultVars => LimitInStep'
<1> SUFFICES ASSUME VaultIInv, LimitInStep, [VaultNext]_vaultVars PROVE LimitInStep'
  OBVIOUS
<1>0. run \in [Calls -> RunStates] /\ told \in [Calls -> SUBSET Calls]
      /\ chain \in [Calls -> {"none", "pending", "mined", "reverted"}]
  BY DEF VaultIInv, VaultTypeOK
<1>1. ASSUME NEW c \in Calls, Judge(c) PROVE LimitInStep'
  <2>1. chain[c] = "none"
    BY <1>1 DEF Judge, VaultIInv, SendsOnce
  <2>2. /\ UNCHANGED <<asked, chain, ledger, forgotten, missed>>
        /\ run[c] = "judging" /\ run'[c] \in {"sending", "failed"}
        /\ run'[c] = "sending" => WithinRules(c)
        /\ \A d \in Calls \ {c} : run'[d] = run[d] /\ told'[d] = told[d]
    BY <1>0, <1>1 DEF Judge
  <2> QED BY <2>1, <2>2, LimitKeptUnrecorded DEF Outstanding, Busy, Running
<1>2. ASSUME NEW c \in Calls, Send(c) PROVE LimitInStep'
  <2>1. /\ UNCHANGED <<asked, told, ledger, forgotten, missed>>
        /\ run[c] = "sending" /\ run'[c] \in {"confirming", "failed"}
        /\ \A d \in Calls \ {c} : run'[d] = run[d] /\ chain'[d] = chain[d]
    BY <1>0, <1>2 DEF Send
  <2> QED BY <2>1, LimitKeptUnrecorded DEF Outstanding, Busy, Running
<1>3. ASSUME NEW c \in Calls, Confirm(c) PROVE LimitInStep'
  <2>1. CASE run' = [run EXCEPT ![c] = "returned"] /\ ledger' = ledger \cup {c}
    BY <1>3, <2>1, ConfirmKeepsLimit DEF Confirm
  <2>2. CASE run' = [run EXCEPT ![c] = "failed"] /\ UNCHANGED ledger
    <3>1. /\ UNCHANGED <<asked, told, chain, ledger, forgotten, missed>>
          /\ run[c] = "confirming" /\ run'[c] = "failed"
          /\ \A d \in Calls \ {c} : run'[d] = run[d]
      BY <1>0, <1>3, <2>2 DEF Confirm
    <3> QED BY <3>1, LimitKeptUnrecorded DEF Outstanding, Busy, Running
  <2> QED BY <1>3, <2>1, <2>2 DEF Confirm
<1>4. ASSUME NEW c \in Calls, Mine(c) PROVE LimitInStep'
  <2>1. /\ UNCHANGED <<run, asked, told, ledger, forgotten, missed>>
        /\ \A d \in Calls : chain'[d] # "none" => chain[d] # "none"
    BY <1>0, <1>4 DEF Mine
  <2> QED BY <2>1, LimitKeptUnrecorded DEF Outstanding, Busy
<1>5. CASE UNCHANGED vaultVars
  BY <1>5, LimitKeptUnrecorded DEF vaultVars, Outstanding, Busy
<1> QED BY <1>1, <1>2, <1>3, <1>4, <1>5, BeginKeepsLimit, RestartKeepsLimit DEF VaultNext, Handle

\* What is spent and not recorded is one outstanding amount, and there is room for it.
LEMMA LimitFollows == VaultIInv /\ LimitInStep => LimitKept
<1> SUFFICES ASSUME VaultIInv, LimitInStep, NEW type \in Types \ missed, DailyLimit[type] # NoLimit
             PROVE  Total({c \in Calls : Type(c) = type /\ Spent(c)}) <= DailyLimit[type]
  BY DEF LimitKept
<1> DEFINE S == {c \in Calls : Type(c) = type /\ Spent(c)}
           R == RecordsOf(type)
<1>1. Counted(asked, R) /\ Total(R) \in Nat /\ \A c \in Calls : asked[c].amount \in Nat
  BY RecordsCounted
<1>2. DailyLimit[type] \in Nat /\ Total(R) <= DailyLimit[type]
  BY VaultAssumption DEF LimitInStep
<1>3. \A c \in S : c \in R \/ (Outstanding(c) /\ run[c] # "judging")
  BY DEF VaultIInv, VaultTypeOK, RunStates, Running, LedgerAccounts, SendsOnce, LimitInStep, Spent,
         Outstanding, Busy, RecordsOf
<1>4. CASE S \subseteq R
  BY <1>1, <1>2, <1>4, SumOfPart, TotalIsSum
<1>5. CASE ~(S \subseteq R)
  <2>1. PICK c \in S : c \notin R
    BY <1>5
  <2>2. Outstanding(c) /\ run[c] # "judging" /\ Type(c) = type /\ c \in Calls
    BY <1>3, <2>1
  <2>3. S \subseteq R \cup {c}
    BY <1>3, <2>2 DEF LimitInStep
  <2>4. Total(R) + asked[c].amount <= DailyLimit[type]
    BY <2>2 DEF LimitInStep
  <2>5. Counted(asked, R \cup {c}) /\ Sum(asked, R \cup {c}) = Sum(asked, R) + asked[c].amount
    BY <1>1, <2>1, <2>2, SumOfOneMore
  <2>6. Sum(asked, S) <= Sum(asked, R \cup {c}) /\ Sum(asked, S) \in Nat
    BY <2>3, <2>5, SumOfPart
  <2> HIDE DEF S, R
  <2>7. Total(S) <= DailyLimit[type]
    BY <1>1, <1>2, <2>2, <2>4, <2>5, <2>6, TotalIsSum
  <2> QED BY <2>7 DEF S
<1> QED BY <1>4, <1>5

\* The daily limit is kept by any number of calls that were not judged in ignorance of
\* another, whatever they ask for.
THEOREM LimitIsKept == VaultSpec => []LimitKept
<1>1. VaultInit => VaultIInv /\ LimitInStep
  BY VaultStarts, LimitStarts
<1>2. VaultIInv /\ LimitInStep /\ [VaultNext]_vaultVars => (VaultIInv /\ LimitInStep)'
  BY VaultKept, LimitStepKept
<1> QED BY <1>1, <1>2, LimitFollows, PTL DEF VaultSpec

-----------------------------------------------------------------------------
(***************************************************************************)
(* The calls.                                                              *)
(***************************************************************************)

\* A step of a call is a step of its handler, or none of the vault's.
LEMMA CallStepsVault == [Next]_vars => [VaultNext]_vaultVars
<1> SUFFICES ASSUME [Next]_vars PROVE [VaultNext]_vaultVars
  OBVIOUS
<1>1. ASSUME NEW c \in Calls, Client(c) PROVE UNCHANGED vaultVars
  BY <1>1 DEF Client, Receive, Hear, HearNothing, Resume, PollTimesOut, StopsPolling
<1>2. ASSUME NEW c \in Calls, Service(c) PROVE [VaultNext]_vaultVars
  <2>1. CASE Admit(c) \/ Finish(c)
    BY <2>1 DEF Admit, Finish
  <2>2. CASE Redeem(c)
    BY <2>2 DEF Redeem, VaultNext
  <2>3. CASE HandlerStep(c)
    BY <2>3 DEF HandlerStep, VaultNext
  <2> QED BY <1>2, <2>1, <2>2, <2>3 DEF Service
<1>3. ASSUME NEW c \in Calls, World(c) PROVE [VaultNext]_vaultVars
  BY <1>3 DEF World, Begin, PollFails, StopsPolling, Die, Prove, ChainStep, VaultNext
<1>4. CASE Restart
  BY <1>4 DEF Restart, VaultNext
<1>5. CASE Tick \/ UNCHANGED vars
  BY <1>5 DEF Tick, vars
<1> QED BY <1>1, <1>2, <1>3, <1>4, <1>5 DEF Next

\* The calls use the vault as it is specified by itself, whatever their clients do.
THEOREM CallsImplementVault == Spec => VaultSpec
  BY CallStepsVault, PTL DEF Spec, Init, VaultSpec

LEMMA CallStarts == Init => CallsConsistent
<1> SUFFICES ASSUME Init PROVE CallsConsistent
  OBVIOUS
<1>1. VaultIInv
  BY VaultStarts DEF Init
<1>2. CallTypeOK
  BY <1>1, CallAssumption
  DEF Init, CallTypeOK, VaultIInv, Reports, Diagnostics, NoDiagnostic, Never
<1>3. CallInStep /\ AnswersAreTrue /\ ReportsAreTrue /\ DiagnosticIsOwn
  BY <1>2, CallAssumption DEF Init, VaultInit, CallInStep, AnswersAreTrue, ReportsAreTrue, DiagnosticIsOwn
<1> QED BY <1>1, <1>2, <1>3 DEF CallsConsistent

-----------------------------------------------------------------------------
\* What the client does.
LEMMA TraceTyped ==
  ASSUME CallTypeOK, NEW c \in Calls, NEW events \in Seq({"request", "response", "error"}),
         Writes(c, events)
  PROVE  trace' \in [Calls -> Seq({"request", "response", "error"})]
  BY DEF CallTypeOK, Writes

LEMMA BeginKeeps ==
  ASSUME CallsConsistent, NEW c \in Calls, NEW k \in Clients[c], NEW s \in Calls \cup {NoCall}, Begin(c, k, s)
  PROVE  CallsConsistent'
<1> USE DEF CallsConsistent
<1>0. UNCHANGED vaultVars /\ VaultIInv'
  BY VaultStutters DEF Begin
<1>1. k \in {"none", "tty", "pipe", "mcp"}
  BY CallAssumption
<1>2. /\ UNCHANGED gateVars
      /\ kind' = [kind EXCEPT ![c] = k]
      /\ pc[c] = "idle" /\ wire[c] = "none" /\ shows[c] = NoCall
      /\ report[c] = "none" /\ meta[c] = NoDiagnostic
      /\ diagnosed' = [diagnosed EXCEPT ![c] = NoDiagnostic]
  BY DEF Begin, Sends, Tells, Diagnosed, ClientOf, CallInStep
<1>3. \/ /\ pc' = [pc EXCEPT ![c] = "asking"]
         /\ shows' = [shows EXCEPT ![c] = s]
         /\ wire' = [wire EXCEPT ![c] = "request"]
         /\ answer' = [answer EXCEPT ![c] = "none"]
         /\ timer' = [timer EXCEPT ![c] = 0]
         /\ UNCHANGED <<report, meta>>
      \/ /\ pc' = [pc EXCEPT ![c] = "ended"]
         /\ \E how \in {"refused", "failed"} : report' = [report EXCEPT ![c] = how]
         /\ meta' = [meta EXCEPT ![c] = NoDiagnostic]
         /\ UNCHANGED <<shows, wire, answer, timer>>
  BY DEF Begin, Sends, Tells, Still
<1>4. trace' \in [Calls -> Seq({"request", "response", "error"})]
  <2>1. trace' = trace \/ Writes(c, <<"request">>) \/ Writes(c, <<"request", "error">>)
    BY DEF Begin
  <2>2. /\ <<"request">> \in Seq({"request", "response", "error"})
        /\ <<"request", "error">> \in Seq({"request", "response", "error"})
    OBVIOUS
  <2>3. trace \in [Calls -> Seq({"request", "response", "error"})] /\ CallTypeOK
    BY DEF CallTypeOK
  <2> QED BY <2>1, <2>2, <2>3, TraceTyped
<1>5. CallTypeOK'
  <2>1. pc' \in [Calls -> {"idle", "asking", "polling", "ended"}]
    BY <1>3 DEF CallTypeOK
  <2>2. wire' \in [Calls -> {"none", "request", "service", "answer", "heard"}]
    BY <1>3 DEF CallTypeOK
  <2>3. report' \in [Calls -> Reports]
    BY <1>3 DEF CallTypeOK, Reports
  <2>4. shows' \in [Calls -> Calls \cup {NoCall}]
    BY DEF Begin, Sends, Still, CallTypeOK
  <2>5. answer' \in [Calls -> Answers \cup {"none"}]
    BY <1>3 DEF CallTypeOK
  <2>6. timer' \in [Calls -> Nat]
    BY DEF Begin, Sends, Still, CallTypeOK
  <2>7. diagnosed' \in [Calls -> Diagnostics] /\ meta' \in [Calls -> Diagnostics]
    BY <1>2, <1>3 DEF CallTypeOK, Diagnostics
  <2>8. \A d \in Calls : wire'[d] = "service" => wire[d] = "service" /\ shows'[d] = shows[d]
    BY <1>2, <1>3 DEF CallTypeOK
  <2>9. kind' \in [Calls -> {"none", "tty", "pipe", "mcp"}]
    BY <1>1, <1>2 DEF CallTypeOK
  <2> QED
    BY <1>0, <1>2, <1>4, <2>1, <2>2, <2>3, <2>4, <2>5, <2>6, <2>7, <2>8, <2>9
    DEF CallTypeOK, VaultIInv, gateVars, vaultVars
<1>6. CallInStep'
  BY <1>0, <1>2, <1>3 DEF CallTypeOK, CallInStep, vaultVars
<1>7. AnswersAreTrue'
  BY <1>0, <1>2, <1>3 DEF CallTypeOK, AnswersAreTrue, vaultVars
<1>8. ReportsAreTrue'
  <2>1. run[c] = "idle" /\ chain[c] = "none"
    BY <1>2 DEF CallInStep, VaultIInv, SendsOnce
  <2> QED BY <1>0, <1>2, <1>3, <2>1 DEF CallTypeOK, ReportsAreTrue, vaultVars
<1>9. DiagnosticIsOwn'
  BY <1>2, <1>3 DEF CallTypeOK, DiagnosticIsOwn
<1> QED BY <1>0, <1>5, <1>6, <1>7, <1>8, <1>9

LEMMA ReceiveKeeps ==
  ASSUME CallsConsistent, NEW c \in Calls, Receive(c)
  PROVE  CallsConsistent'
<1> USE DEF CallsConsistent
<1>0. UNCHANGED vaultVars /\ VaultIInv'
  BY VaultStutters DEF Receive
<1>1. StatusOf(answer[c]) \in {"executed", "denied", "step-up", "none"}
  BY DEF StatusOf
<1>2. /\ UNCHANGED <<gateVars, kind, pc, shows, answer, trace, report, meta, timer>>
      /\ pc[c] = "asking" /\ wire[c] = "answer"
      /\ wire' = [wire EXCEPT ![c] = "heard"]
      /\ diagnosed[c] = NoDiagnostic
      /\ diagnosed' = IF StatusOf(answer[c]) # "none"
                        THEN [diagnosed EXCEPT ![c] = [of |-> c, status |-> StatusOf(answer[c])]]
                        ELSE diagnosed
  <2>1. [of |-> c, status |-> StatusOf(answer[c])] = NoDiagnostic => StatusOf(answer[c]) = "none"
    BY DEF NoDiagnostic
  <2> QED BY <2>1 DEF Receive, Brought, Diagnosed, ClientOf, AnswersAreTrue
<1>3. CallTypeOK'
  <2>1. diagnosed' \in [Calls -> Diagnostics]
    BY <1>1, <1>2 DEF CallTypeOK, Diagnostics
  <2>2. wire' \in [Calls -> {"none", "request", "service", "answer", "heard"}]
    BY <1>2 DEF CallTypeOK
  <2>3. \A d \in Calls : wire'[d] = "service" => wire[d] = "service"
    BY <1>2 DEF CallTypeOK
  <2> QED BY <1>0, <1>2, <2>1, <2>2, <2>3 DEF CallTypeOK, VaultIInv, gateVars, vaultVars
<1>4. CallInStep'
  BY <1>0, <1>2 DEF CallTypeOK, CallInStep, vaultVars
<1>5. AnswersAreTrue'
  BY <1>0, <1>2 DEF CallTypeOK, AnswersAreTrue, vaultVars
<1>6. (ReportsAreTrue /\ DiagnosticIsOwn)'
  BY <1>0, <1>2 DEF ReportsAreTrue, DiagnosticIsOwn, vaultVars
<1> QED BY <1>0, <1>3, <1>4, <1>5, <1>6

LEMMA HearKeeps ==
  ASSUME CallsConsistent, NEW c \in Calls, Hear(c)
  PROVE  CallsConsistent'
<1> USE DEF CallsConsistent
<1>0. UNCHANGED vaultVars /\ VaultIInv'
  BY VaultStutters DEF Hear
<1>1. StatusOf(answer[c]) \in {"executed", "denied", "step-up", "none"}
  BY DEF StatusOf
<1>2. /\ pc[c] = "asking" /\ wire[c] = "heard"
      /\ Heard(c) = diagnosed[c]
      /\ diagnosed[c] = IF StatusOf(answer[c]) # "none"
                          THEN [of |-> c, status |-> StatusOf(answer[c])]
                          ELSE NoDiagnostic
  BY DEF Hear, Heard, Brought, ClientOf, AnswersAreTrue
<1>3. \/ /\ pc' = [pc EXCEPT ![c] = "polling"]
         /\ shows[c] = NoCall
         /\ UNCHANGED <<report, meta, diagnosed>>
      \/ /\ pc' = [pc EXCEPT ![c] = "ended"]
         /\ diagnosed' = [diagnosed EXCEPT ![c] = NoDiagnostic]
         /\ \/ /\ answer[c] = "challenge"
               /\ report' = [report EXCEPT ![c] = "stepUp"]
               /\ meta' = [meta EXCEPT ![c] = diagnosed[c]]
            \/ /\ answer[c] \in {"executed", "plain"}
               /\ report' = [report EXCEPT ![c] = "executed"]
               /\ meta' = [meta EXCEPT ![c] = diagnosed[c]]
            \/ /\ report' = [report EXCEPT ![c] = "denied"]
               /\ meta' = [meta EXCEPT ![c] = diagnosed[c]]
            \/ /\ report' = [report EXCEPT ![c] = "failed"]
               /\ meta' = [meta EXCEPT ![c] = NoDiagnostic]
  <2>1. CASE HearChallenge(c)
    BY <2>1 DEF HearChallenge, PollsFor, Tells, Diagnosed, ClientOf
  <2>2. CASE HearResult(c)
    BY <1>2, <2>2 DEF HearResult, Tells, Diagnosed, ClientOf, Denied
  <2>3. CASE HearFault(c)
    BY <2>3 DEF HearFault, Brought, StatusOf, Tells, Diagnosed, ClientOf
  <2> QED BY <2>1, <2>2, <2>3 DEF Hear
<1>4. trace' \in [Calls -> Seq({"request", "response", "error"})]
  <2>1. \/ Writes(c, <<"response">>)
        \/ Writes(c, <<"error">>)
        \/ Writes(c, <<"response", "error">>)
    BY DEF Hear, HearChallenge, HearResult, HearFault, Fails
  <2>2. /\ <<"response">> \in Seq({"request", "response", "error"})
        /\ <<"error">> \in Seq({"request", "response", "error"})
        /\ <<"response", "error">> \in Seq({"request", "response", "error"})
    OBVIOUS
  <2> QED BY <2>1, <2>2, TraceTyped
<1>9. /\ UNCHANGED <<gateVars, kind, shows, answer>>
      /\ wire' = [wire EXCEPT ![c] = "none"]
      /\ timer' = [timer EXCEPT ![c] = 0]
  BY DEF Hear
<1>5. CallTypeOK'
  <2>1. pc' \in [Calls -> {"idle", "asking", "polling", "ended"}]
    BY <1>3 DEF CallTypeOK
  <2>2. wire' \in [Calls -> {"none", "request", "service", "answer", "heard"}]
    BY <1>9 DEF CallTypeOK
  <2>3. report' \in [Calls -> Reports]
    BY <1>3 DEF CallTypeOK, Reports
  <2>4. timer' \in [Calls -> Nat]
    BY <1>9 DEF CallTypeOK
  <2>5. diagnosed' \in [Calls -> Diagnostics]
    BY <1>3 DEF CallTypeOK, Diagnostics
  <2>6. meta' \in [Calls -> Diagnostics]
    <3>1. diagnosed[c] \in Diagnostics /\ NoDiagnostic \in Diagnostics
      BY DEF CallTypeOK, Diagnostics
    <3> QED BY <1>3, <3>1 DEF CallTypeOK
  <2>7. \A d \in Calls : wire'[d] = "service" => wire[d] = "service"
    BY <1>9 DEF CallTypeOK
  <2> QED
    BY <1>0, <1>4, <1>9, <2>1, <2>2, <2>3, <2>4, <2>5, <2>6, <2>7
    DEF CallTypeOK, VaultIInv, gateVars, vaultVars
<1>6. (CallInStep /\ AnswersAreTrue)'
  <2>1. CallInStep'
    BY <1>0, <1>2, <1>3, <1>9 DEF CallTypeOK, CallInStep, vaultVars
  <2>2. AnswersAreTrue'
    BY <1>0, <1>2, <1>3, <1>9 DEF CallTypeOK, AnswersAreTrue, vaultVars
  <2> QED BY <2>1, <2>2
<1>7. ReportsAreTrue'
  <2>1. answer[c] \in {"plain", "challenge"} => shows[c] = NoCall /\ run[c] = "idle"
    BY <1>2 DEF AnswersAreTrue, CallInStep
  <2>2. answer[c] = "executed" /\ shows[c] # NoCall => run[c] = "returned"
    BY <1>2 DEF AnswersAreTrue
  <2>3. /\ run[c] = "returned" => chain[c] \in {"mined", "reverted"}
        /\ run[c] = "idle" => chain[c] = "none"
    BY DEF VaultIInv, LedgerAccounts, SendsOnce
  <2> QED BY <1>0, <1>3, <2>1, <2>2, <2>3 DEF Hear, CallTypeOK, ReportsAreTrue, vaultVars
<1>8. DiagnosticIsOwn'
  BY <1>2, <1>3 DEF Hear, CallTypeOK, DiagnosticIsOwn, StatusOf
<1> QED BY <1>0, <1>5, <1>6, <1>7, <1>8

\* The client gives up: on an answer, on the proof, or because it is killed.
LEMMA EndKeeps ==
  ASSUME CallsConsistent, NEW c \in Calls, HearNothing(c) \/ PollTimesOut(c) \/ PollFails(c) \/ Die(c)
  PROVE  CallsConsistent'
<1> USE DEF CallsConsistent
<1>0. UNCHANGED vaultVars /\ VaultIInv'
  BY VaultStutters DEF HearNothing, PollTimesOut, PollFails, StopsPolling, Die
<1>1. /\ UNCHANGED <<gateVars, kind, shows, answer>>
      /\ pc' = [pc EXCEPT ![c] = "ended"]
      /\ meta' = [meta EXCEPT ![c] = NoDiagnostic]
      /\ diagnosed' = [diagnosed EXCEPT ![c] = NoDiagnostic]
  BY DEF HearNothing, PollTimesOut, PollFails, StopsPolling, Die, Fails, Tells, Still, Diagnosed,
         ClientOf
<1>2. \/ /\ pc[c] = "asking"
         /\ report' = [report EXCEPT ![c] = "failed"]
         /\ \E w \in {"none", "request", "service"} :
              w \in {"none", wire[c]} /\ wire' = [wire EXCEPT ![c] = w]
         /\ timer' = [timer EXCEPT ![c] = 0]
      \/ /\ pc[c] = "polling" /\ wire[c] = "none"
         /\ \E how \in {"failed", "timedOut", "killed"} : report' = [report EXCEPT ![c] = how]
         /\ UNCHANGED <<wire, timer>>
  <2>1. CASE HearNothing(c)
    BY <2>1 DEF HearNothing, Fails, Tells
  <2>2. CASE PollTimesOut(c) \/ PollFails(c) \/ Die(c)
    BY <2>2 DEF PollTimesOut, PollFails, StopsPolling, Die, Fails, Tells, Still, CallInStep
  <2> QED BY <2>1, <2>2
<1>3. trace' \in [Calls -> Seq({"request", "response", "error"})]
  <2>1. trace' = trace \/ Writes(c, <<"error">>)
    BY DEF HearNothing, PollTimesOut, PollFails, StopsPolling, Die, Fails
  <2>2. <<"error">> \in Seq({"request", "response", "error"})
    OBVIOUS
  <2>3. trace \in [Calls -> Seq({"request", "response", "error"})] /\ CallTypeOK
    BY DEF CallTypeOK
  <2> QED BY <2>1, <2>2, <2>3, TraceTyped
<1>4. CallTypeOK'
  <2>1. pc' \in [Calls -> {"idle", "asking", "polling", "ended"}]
    BY <1>1 DEF CallTypeOK
  <2>2. wire' \in [Calls -> {"none", "request", "service", "answer", "heard"}]
    BY <1>2 DEF CallTypeOK
  <2>3. report' \in [Calls -> Reports]
    BY <1>2 DEF CallTypeOK, Reports
  <2>4. timer' \in [Calls -> Nat]
    BY <1>2 DEF CallTypeOK
  <2>5. diagnosed' \in [Calls -> Diagnostics] /\ meta' \in [Calls -> Diagnostics]
    BY <1>1 DEF CallTypeOK, Diagnostics
  <2>6. \A d \in Calls : wire'[d] = "service" => wire[d] = "service"
    BY <1>2 DEF CallTypeOK
  <2> QED
    BY <1>0, <1>1, <1>3, <2>1, <2>2, <2>3, <2>4, <2>5, <2>6
    DEF CallTypeOK, VaultIInv, gateVars, vaultVars
<1>5. CallInStep'
  BY <1>0, <1>1, <1>2 DEF CallTypeOK, CallInStep, vaultVars
<1>6. AnswersAreTrue'
  BY <1>0, <1>1, <1>2 DEF CallTypeOK, AnswersAreTrue, vaultVars
<1>7. ReportsAreTrue'
  <2>1. pc[c] = "polling" => run[c] = "idle" /\ chain[c] = "none"
    BY DEF CallInStep, VaultIInv, SendsOnce
  <2> QED BY <1>0, <1>1, <1>2, <2>1 DEF CallTypeOK, ReportsAreTrue, vaultVars
<1>8. DiagnosticIsOwn'
  BY <1>1 DEF CallTypeOK, DiagnosticIsOwn
<1> QED BY <1>0, <1>4, <1>5, <1>6, <1>7, <1>8

LEMMA ResumeKeeps ==
  ASSUME CallsConsistent, NEW c \in Calls, Resume(c)
  PROVE  CallsConsistent'
<1> USE DEF CallsConsistent
<1>0. UNCHANGED vaultVars /\ VaultIInv'
  BY VaultStutters DEF Resume
<1>1. /\ UNCHANGED <<gateVars, kind, report, meta>>
      /\ pc[c] = "polling" /\ wire[c] = "none" /\ shows[c] = NoCall
      /\ report[c] = "none" /\ meta[c] = NoDiagnostic
      /\ pc' = [pc EXCEPT ![c] = "asking"]
      /\ shows' = [shows EXCEPT ![c] = c]
      /\ wire' = [wire EXCEPT ![c] = "request"]
      /\ answer' = [answer EXCEPT ![c] = "none"]
      /\ diagnosed' = [diagnosed EXCEPT ![c] = NoDiagnostic]
      /\ timer' = [timer EXCEPT ![c] = 0]
  BY DEF Resume, Sends, Diagnosed, ClientOf, CallInStep
<1>2. trace' \in [Calls -> Seq({"request", "response", "error"})]
  <2>1. Writes(c, <<"request">>)
    BY DEF Resume
  <2>2. <<"request">> \in Seq({"request", "response", "error"})
    OBVIOUS
  <2> QED BY <2>1, <2>2, TraceTyped
<1>3. CallTypeOK'
  <2>1. pc' \in [Calls -> {"idle", "asking", "polling", "ended"}]
    BY <1>1 DEF CallTypeOK
  <2>2. shows' \in [Calls -> Calls \cup {NoCall}]
    BY <1>1 DEF CallTypeOK
  <2>3. wire' \in [Calls -> {"none", "request", "service", "answer", "heard"}]
    BY <1>1 DEF CallTypeOK
  <2>4. answer' \in [Calls -> Answers \cup {"none"}]
    BY <1>1 DEF CallTypeOK
  <2>5. diagnosed' \in [Calls -> Diagnostics]
    BY <1>1 DEF CallTypeOK, Diagnostics
  <2>6. timer' \in [Calls -> Nat]
    BY <1>1 DEF CallTypeOK
  <2>7. \A d \in Calls : wire'[d] = "service" => wire[d] = "service" /\ shows'[d] = shows[d]
    BY <1>1 DEF CallTypeOK
  <2> QED
    BY <1>0, <1>1, <1>2, <2>1, <2>2, <2>3, <2>4, <2>5, <2>6, <2>7
    DEF CallTypeOK, VaultIInv, gateVars, vaultVars
<1>4. CallInStep'
  BY <1>0, <1>1, CallAssumption DEF CallTypeOK, CallInStep, vaultVars
<1>5. AnswersAreTrue'
  BY <1>0, <1>1 DEF CallTypeOK, AnswersAreTrue, vaultVars
<1>6. (ReportsAreTrue /\ DiagnosticIsOwn)'
  BY <1>0, <1>1 DEF CallTypeOK, ReportsAreTrue, DiagnosticIsOwn, vaultVars
<1> QED BY <1>0, <1>3, <1>4, <1>5, <1>6

-----------------------------------------------------------------------------
\* What the gate does.

\* An answer that is true of the handler may be sent.
LEMMA ReplyKeeps ==
  ASSUME CallsConsistent, VaultIInv', NEW c \in Calls, NEW a \in Answers, Reply(c, a),
         wire[c] \in {"request", "service"},
         UNCHANGED <<kind, pc, shows, diagnosed, trace, report, meta, run, chain>>,
         redeemed' \subseteq Calls,
         age' \in [Calls -> Never..StateTTL + 1], provedAt' \in [Calls -> Never..StateTTL + 1],
         a \in {"plain", "challenge"} => shows[c] = NoCall,
         a = "executed" /\ shows[c] # NoCall => run[c] = "returned"
  PROVE  CallsConsistent'
<1> USE DEF CallsConsistent
<1>1. \/ /\ pc[c] = "asking"
         /\ wire' = [wire EXCEPT ![c] = "answer"]
         /\ answer' = [answer EXCEPT ![c] = a]
         /\ timer' = [timer EXCEPT ![c] = 0]
      \/ /\ pc[c] # "asking"
         /\ wire' = [wire EXCEPT ![c] = "none"]
         /\ UNCHANGED <<answer, timer>>
  BY DEF Reply
<1>2. CallTypeOK'
  <2>1. wire' \in [Calls -> {"none", "request", "service", "answer", "heard"}]
    BY <1>1 DEF CallTypeOK
  <2>2. answer' \in [Calls -> Answers \cup {"none"}]
    BY <1>1 DEF CallTypeOK
  <2>3. timer' \in [Calls -> Nat]
    <3>1. timer \in [Calls -> Nat]
      BY DEF CallTypeOK
    <3> QED BY <1>1, <3>1
  <2>4. \A d \in Calls : wire'[d] = "service" => wire[d] = "service"
    BY <1>1 DEF CallTypeOK
  <2> QED BY <2>1, <2>2, <2>3, <2>4 DEF CallTypeOK, VaultIInv
<1>3. CallInStep'
  BY <1>1 DEF CallTypeOK, CallInStep
<1>4. AnswersAreTrue'
  BY <1>1 DEF CallTypeOK, AnswersAreTrue
<1>5. ReportsAreTrue'
  BY DEF ReportsAreTrue
<1>6. DiagnosticIsOwn'
  <2>1. pc[c] = "asking" => meta[c] = NoDiagnostic
    BY DEF CallInStep
  <2> QED BY <1>1, <2>1 DEF CallTypeOK, DiagnosticIsOwn
<1> QED BY <1>2, <1>3, <1>4, <1>5, <1>6

LEMMA AdmitKeeps ==
  ASSUME CallsConsistent, NEW c \in Calls, Admit(c)
  PROVE  CallsConsistent'
<1>0. UNCHANGED vaultVars /\ VaultIInv'
  BY VaultStutters DEF Admit, CallsConsistent
<1>1. /\ wire[c] = "request" /\ shows[c] = NoCall
      /\ UNCHANGED <<kind, pc, shows, diagnosed, trace, report, meta, run, chain>>
      /\ \E a \in Answers : Reply(c, a)
  BY DEF Admit, vaultVars, Answers
<1>2. redeemed' \subseteq Calls /\ provedAt' \in [Calls -> Never..StateTTL + 1]
  BY DEF Admit, CallsConsistent, CallTypeOK
<1>3. age' \in [Calls -> Never..StateTTL + 1]
  <2>1. 0 \in Never..StateTTL + 1
    BY CallAssumption DEF Never
  <2>2. age \in [Calls -> Never..StateTTL + 1]
    BY DEF CallsConsistent, CallTypeOK
  <2>3. age' = age \/ age' = [age EXCEPT ![c] = 0]
    BY DEF Admit
  <2> QED BY <2>1, <2>2, <2>3
<1> QED BY <1>0, <1>1, <1>2, <1>3, ReplyKeeps

LEMMA FinishKeeps ==
  ASSUME CallsConsistent, NEW c \in Calls, Finish(c)
  PROVE  CallsConsistent'
<1>0. UNCHANGED vaultVars /\ VaultIInv'
  BY VaultStutters DEF Finish, CallsConsistent
<1>1. /\ wire[c] = "service"
      /\ UNCHANGED <<kind, pc, shows, diagnosed, trace, report, meta, run, chain>>
      /\ UNCHANGED gateVars
      /\ \E a \in {"executed", "toolError"} : Reply(c, a) /\ (a = "executed" => run[c] = "returned")
  BY DEF Finish, vaultVars
<1>2. redeemed' \subseteq Calls /\ provedAt' \in [Calls -> Never..StateTTL + 1]
      /\ age' \in [Calls -> Never..StateTTL + 1]
  BY <1>1 DEF gateVars, CallsConsistent, CallTypeOK
<1>3. {"executed", "toolError"} \subseteq Answers
  BY DEF Answers, Refusals
<1> QED BY <1>0, <1>1, <1>2, <1>3, ReplyKeeps

LEMMA ForgetsTyped ==
  ASSUME CallTypeOK, NEW c \in Calls, Forgets(c)
  PROVE  age' \in [Calls -> Never..StateTTL + 1] /\ provedAt' \in [Calls -> Never..StateTTL + 1]
<1>1. age \in [Calls -> Never..StateTTL + 1] /\ provedAt \in [Calls -> Never..StateTTL + 1]
  BY DEF CallTypeOK
<1>2. Never \in Never..StateTTL + 1
  BY CallAssumption DEF Never
<1> QED BY <1>1, <1>2 DEF Forgets

LEMMA RedeemKeeps ==
  ASSUME CallsConsistent, NEW c \in Calls, Redeem(c)
  PROVE  CallsConsistent'
<1>1. /\ wire[c] = "request" /\ shows[c] # NoCall /\ shows[c] \in Calls
      /\ UNCHANGED <<kind, pc, shows, diagnosed, trace, report, meta>>
  BY DEF Redeem, CallsConsistent, CallTypeOK
<1>2. CASE Reply(c, "expired") /\ UNCHANGED <<vaultVars, gateVars>>
  <2>1. VaultIInv' /\ UNCHANGED <<run, chain>>
    BY <1>2, VaultStutters DEF CallsConsistent, vaultVars
  <2>2. /\ redeemed' \subseteq Calls
        /\ age' \in [Calls -> Never..StateTTL + 1] /\ provedAt' \in [Calls -> Never..StateTTL + 1]
    BY <1>2 DEF gateVars, CallsConsistent, CallTypeOK
  <2>3. "expired" \in Answers
    BY DEF Answers
  <2> QED BY <1>1, <1>2, <2>1, <2>2, <2>3, ReplyKeeps
<1>3. CASE /\ \E a \in Refusals : Reply(c, a)
           /\ redeemed' \in {redeemed, redeemed \cup {shows[c]}}
           /\ Forgets(c)
           /\ UNCHANGED vaultVars
  <2>1. VaultIInv' /\ UNCHANGED <<run, chain>>
    BY <1>3, VaultStutters DEF CallsConsistent, vaultVars
  <2>2. redeemed' \subseteq Calls
    BY <1>1, <1>3 DEF CallsConsistent, CallTypeOK
  <2>3. age' \in [Calls -> Never..StateTTL + 1] /\ provedAt' \in [Calls -> Never..StateTTL + 1]
    BY <1>3, ForgetsTyped DEF CallsConsistent
  <2>4. Refusals \subseteq Answers /\ \A a \in Refusals : a \notin {"plain", "challenge", "executed"}
    BY DEF Answers, Refusals
  <2> QED BY <1>1, <1>3, <2>1, <2>2, <2>3, <2>4, ReplyKeeps
<1>4. CASE /\ redeemed' = redeemed \cup {shows[c]}
           /\ Forgets(c)
           /\ BeginRun(c)
           /\ wire' = [wire EXCEPT ![c] = "service"]
           /\ UNCHANGED <<answer, timer>>
  <2> USE DEF CallsConsistent
  <2>1. VaultIInv'
    BY <1>4, HandlerKeepsVault
  <2>2. /\ run' = [run EXCEPT ![c] = "judging"]
        /\ run[c] = "idle"
        /\ chain' = chain
    BY <1>4 DEF BeginRun
  <2>3. age' \in [Calls -> Never..StateTTL + 1] /\ provedAt' \in [Calls -> Never..StateTTL + 1]
    BY <1>4, ForgetsTyped
  <2>4. CallTypeOK'
    <3>1. redeemed' \subseteq Calls
      BY <1>1, <1>4 DEF CallTypeOK
    <3>2. wire' \in [Calls -> {"none", "request", "service", "answer", "heard"}]
      BY <1>4 DEF CallTypeOK
    <3>3. \A d \in Calls : wire'[d] = "service" => shows'[d] # NoCall /\ run'[d] # "idle"
      BY <1>1, <1>4, <2>2 DEF CallTypeOK, VaultIInv, VaultTypeOK
    <3> QED BY <1>1, <1>4, <2>1, <2>3, <3>1, <3>2, <3>3 DEF CallTypeOK, VaultIInv
  <2>5. CallInStep'
    BY <1>1, <1>4, <2>2 DEF CallTypeOK, CallInStep, VaultIInv, VaultTypeOK
  <2>6. AnswersAreTrue'
    BY <1>1, <1>4, <2>2 DEF CallTypeOK, AnswersAreTrue, VaultIInv, VaultTypeOK
  <2>7. ReportsAreTrue'
    BY <1>1, <1>4, <2>2 DEF CallInStep, ReportsAreTrue, VaultIInv, VaultTypeOK
  <2>8. DiagnosticIsOwn'
    BY <1>1, <1>4 DEF DiagnosticIsOwn
  <2> QED BY <2>1, <2>4, <2>5, <2>6, <2>7, <2>8
<1> QED BY <1>2, <1>3, <1>4 DEF Redeem

-----------------------------------------------------------------------------
\* What happens in the vault's process and on the chain, and as time passes.

\* A handler does not take back what it has returned.
LEMMA VaultMoves ==
  ASSUME CallsConsistent, VaultIInv', UNCHANGED clientVars,
         redeemed' \subseteq Calls, timer' \in [Calls -> Nat],
         age' \in [Calls -> Never..StateTTL + 1], provedAt' \in [Calls -> Never..StateTTL + 1],
         \A d \in Calls : /\ run'[d] = "idle" <=> run[d] = "idle"
                          /\ run[d] = "returned" => run'[d] = "returned"
  PROVE  CallsConsistent'
<1> USE DEF CallsConsistent, clientVars
<1>1. CallTypeOK'
  BY DEF CallTypeOK, VaultIInv
<1>2. CallInStep'
  BY DEF CallInStep
<1>3. AnswersAreTrue'
  BY DEF AnswersAreTrue
<1>4. ReportsAreTrue'
  BY DEF ReportsAreTrue, VaultIInv, LedgerAccounts, SendsOnce
<1>5. DiagnosticIsOwn'
  BY DEF DiagnosticIsOwn
<1> QED BY <1>1, <1>2, <1>3, <1>4, <1>5

LEMMA WorldKeeps ==
  ASSUME CallsConsistent,
         \/ \E c \in Calls : HandlerStep(c) \/ ChainStep(c) \/ Prove(c)
         \/ Restart
         \/ Tick
         \/ UNCHANGED vars
  PROVE  CallsConsistent'
<1>0. /\ redeemed \subseteq Calls /\ timer \in [Calls -> Nat] /\ run \in [Calls -> RunStates]
      /\ age \in [Calls -> Never..StateTTL + 1] /\ provedAt \in [Calls -> Never..StateTTL + 1]
      /\ VaultIInv
  BY DEF CallsConsistent, CallTypeOK, VaultTypeOK
<1>1. CASE \E c \in Calls : HandlerStep(c) \/ ChainStep(c)
  <2>1. PICK c \in Calls : HandlerStep(c) \/ ChainStep(c)
    BY <1>1
  <2>2. VaultIInv'
    BY <1>0, <2>1, HandlerKeepsVault DEF HandlerStep, ChainStep, Handle
  <2>3. \A d \in Calls : /\ run'[d] = "idle" <=> run[d] = "idle"
                         /\ run[d] = "returned" => run'[d] = "returned"
    BY <1>0, <2>1 DEF HandlerStep, ChainStep, Handle, Judge, Send, Confirm, Mine
  <2>4. UNCHANGED <<clientVars, gateVars, timer>>
    BY <2>1 DEF HandlerStep, ChainStep
  <2> QED BY <1>0, <2>2, <2>3, <2>4, VaultMoves DEF gateVars
<1>2. CASE Restart
  <2>1. VaultIInv'
    BY <1>0, <1>2, RestartKeepsVault DEF Restart
  <2>2. \A d \in Calls : /\ run'[d] = "idle" <=> run[d] = "idle"
                         /\ run[d] = "returned" => run'[d] = "returned"
    BY <1>0, <1>2 DEF Restart, RestartVault, Busy, Running
  <2>3. UNCHANGED <<clientVars, age, provedAt, timer>> /\ redeemed' = {}
    BY <1>2 DEF Restart
  <2> QED BY <1>0, <2>1, <2>2, <2>3, VaultMoves
<1>3. CASE (\E c \in Calls : Prove(c)) \/ Tick \/ UNCHANGED vars
  <2>1. UNCHANGED <<vaultVars, clientVars, redeemed>>
    BY <1>3 DEF Prove, Tick, vars, gateVars
  <2>2. VaultIInv' /\ run' = run
    BY <1>0, <2>1, VaultStutters DEF vaultVars
  <2>3. age' \in [Calls -> Never..StateTTL + 1] /\ timer' \in [Calls -> Nat]
    <3>1. CASE Tick
      <4>1. \A d \in Calls : Ages(d) => age[d] + 1 \in Never..StateTTL + 1
        BY CallAssumption DEF Ages, Never
      <4>2. \A d \in Calls : timer[d] + 1 \in Nat
        BY <1>0
      <4> QED BY <1>0, <3>1, <4>1, <4>2 DEF Tick
    <3>2. CASE (\E c \in Calls : Prove(c)) \/ UNCHANGED vars
      BY <1>0, <3>2 DEF Prove, vars, gateVars
    <3> QED BY <1>3, <3>1, <3>2
  <2>4. provedAt' \in [Calls -> Never..StateTTL + 1]
    BY <1>0, <1>3 DEF Prove, Tick, vars, gateVars
  <2> QED BY <1>0, <2>1, <2>2, <2>3, <2>4, VaultMoves
<1> QED BY <1>1, <1>2, <1>3

LEMMA ConsistencyKept == CallsConsistent /\ [Next]_vars => CallsConsistent'
<1> SUFFICES ASSUME CallsConsistent, [Next]_vars PROVE CallsConsistent'
  OBVIOUS
<1>1. ASSUME NEW c \in Calls, Client(c) PROVE CallsConsistent'
  BY <1>1, ReceiveKeeps, HearKeeps, ResumeKeeps, EndKeeps DEF Client
<1>2. ASSUME NEW c \in Calls, Service(c) PROVE CallsConsistent'
  BY <1>2, AdmitKeeps, RedeemKeeps, FinishKeeps, WorldKeeps DEF Service
<1>3. ASSUME NEW c \in Calls, World(c) PROVE CallsConsistent'
  BY <1>3, BeginKeeps, EndKeeps, WorldKeeps DEF World
<1> QED BY <1>1, <1>2, <1>3, WorldKeeps DEF Next

-----------------------------------------------------------------------------
(***************************************************************************)
(* The traces.                                                             *)
(***************************************************************************)

Events == {"request", "response", "error"}

\* A trace stays in order when events are appended that are, and do not put one request
\* after another.
LEMMA TraceGrows ==
  ASSUME NEW t \in Seq(Events), NEW more \in Seq(Events), Len(more) > 0,
         OneByOne(t), OneByOne(more),
         more[1] # "request" \/ t = <<>> \/ EndsWith(t, "response")
  PROVE  OneByOne(t \o more) /\ EndsWith(t \o more, more[Len(more)])
<1> DEFINE u == t \o more
           m == Len(t)
           n == Len(more)
<1>1. m \in Nat /\ n \in Nat /\ (t = <<>> => m = 0)
  OBVIOUS
<1>2. Len(u) = m + n /\ \A i \in 1..m + n : u[i] = IF i <= m THEN t[i] ELSE more[i - m]
  BY ConcatProperties
<1> HIDE DEF u, m, n
<1>3. EndsWith(u, more[n])
  BY <1>1, <1>2 DEF EndsWith, n
<1>4. OneByOne(u)
  <2> SUFFICES ASSUME NEW i \in 1..m + n - 1, u[i] = "request", u[i + 1] = "request"
               PROVE  FALSE
    BY <1>1, <1>2 DEF OneByOne
  <2>1. CASE i < m
    <3>1. u[i] = t[i] /\ u[i + 1] = t[i + 1] /\ i \in 1..m - 1
      BY <1>1, <1>2, <2>1
    <3> QED BY <3>1 DEF OneByOne, m
  <2>2. CASE i = m
    <3>1. u[i] = t[m] /\ u[i + 1] = more[1] /\ m > 0
      BY <1>1, <1>2, <2>2
    <3> QED BY <1>1, <3>1 DEF EndsWith, m
  <2>3. CASE i > m
    <3>1. u[i] = more[i - m] /\ u[i + 1] = more[i - m + 1] /\ i - m \in 1..n - 1
      BY <1>1, <1>2, <2>3
    <3> QED BY <3>1 DEF OneByOne, n
  <2> QED BY <1>1, <2>1, <2>2, <2>3
<1> QED BY <1>3, <1>4 DEF u, n

\* What a trace ends with when a step has written one event, or one and an error.
LEMMA WritesEvent ==
  ASSUME CallTypeOK, TracesInStep, NEW c \in Calls, NEW e \in Events, Writes(c, <<e>>),
         e = "request" => pc[c] \in {"idle", "polling"}
  PROVE  OneByOne(trace'[c]) /\ EndsWith(trace'[c], e)
<1> DEFINE t == trace[c]
           more == <<e>>
<1>1. /\ t \in Seq(Events) /\ OneByOne(t)
      /\ e # "request" \/ t = <<>> \/ EndsWith(t, "response")
  BY DEF CallTypeOK, Events, TracesInStep, TraceInStep
<1>2. /\ more \in Seq(Events) /\ Len(more) = 1 /\ Len(more) > 0
      /\ more[1] = e /\ more[Len(more)] = e
  BY DEF Events
<1>3. OneByOne(more)
  BY <1>2 DEF OneByOne
<1>4. trace'[c] = t \o more
  BY DEF Writes, CallTypeOK
<1> HIDE DEF t, more
<1> QED BY <1>1, <1>2, <1>3, <1>4, TraceGrows

LEMMA WritesError ==
  ASSUME CallTypeOK, TracesInStep, NEW c \in Calls, NEW e \in Events, Writes(c, <<e, "error">>),
         e = "request" => pc[c] = "idle"
  PROVE  OneByOne(trace'[c]) /\ EndsWith(trace'[c], "error")
<1> DEFINE t == trace[c]
           more == <<e, "error">>
<1>1. /\ t \in Seq(Events) /\ OneByOne(t)
      /\ e # "request" \/ t = <<>> \/ EndsWith(t, "response")
  BY DEF CallTypeOK, Events, TracesInStep, TraceInStep
<1>2. /\ more \in Seq(Events) /\ Len(more) = 2 /\ Len(more) > 0
      /\ more[1] = e /\ more[Len(more)] = "error"
  BY DEF Events
<1>3. OneByOne(more)
  BY <1>2 DEF OneByOne
<1>4. trace'[c] = t \o more
  BY DEF Writes, CallTypeOK
<1> HIDE DEF t, more
<1> QED BY <1>1, <1>2, <1>3, <1>4, TraceGrows

LEMMA WritesOwn ==
  ASSUME CallTypeOK, NEW c \in Calls, NEW events, Writes(c, events)
  PROVE  \A d \in Calls \ {c} : trace'[d] = trace[d]
  BY DEF Writes, CallTypeOK


\* A step of a call touches no other call's trace.
LEMMA TraceOfOne ==
  ASSUME TracesInStep, NEW c \in Calls, TraceInStep(c)',
         \A d \in Calls \ {c} : /\ pc'[d] = pc[d]
                                /\ report'[d] = report[d]
                                /\ trace'[d] = trace[d]
                                /\ kind'[d] = kind[d]
  PROVE  TracesInStep'
  BY DEF TracesInStep, TraceInStep

LEMMA TracesUntouched ==
  ASSUME TracesInStep, UNCHANGED <<kind, pc, trace, report>>
  PROVE  TracesInStep'
  BY DEF TracesInStep, TraceInStep

LEMMA TellsOwn ==
  ASSUME CallTypeOK, NEW c \in Calls, NEW how, NEW diagnostic, Tells(c, how, diagnostic)
  PROVE  /\ pc'[c] = "ended" /\ report'[c] = how
         /\ \A d \in Calls \ {c} : pc'[d] = pc[d] /\ report'[d] = report[d]
  BY DEF Tells, CallTypeOK

LEMMA TraceEnds ==
  ASSUME CallTypeOK, TracesInStep, NEW c \in Calls, NEW how, NEW diagnostic, NEW events,
         Tells(c, how, diagnostic), Writes(c, events), OneByOne(trace'[c]),
         how # "refused", \A d \in Calls \ {c} : kind'[d] = kind[d],
         how \in {"executed", "stepUp", "killed"} => EndsWith(trace'[c], "response"),
         how \in {"denied", "failed", "timedOut"} => EndsWith(trace'[c], "error")
  PROVE  TracesInStep'
<1>1. TraceInStep(c)'
  BY TellsOwn DEF TraceInStep
<1> QED BY <1>1, TellsOwn, WritesOwn, TraceOfOne

LEMMA TraceSends ==
  ASSUME CallsConsistent, TracesInStep, NEW c \in Calls, NEW s, Sends(c, s),
         pc[c] \in {"idle", "polling"}, Writes(c, <<"request">>),
         \A d \in Calls \ {c} : kind'[d] = kind[d]
  PROVE  TracesInStep'
<1>1. CallTypeOK /\ report[c] = "none"
  BY DEF CallsConsistent, CallInStep
<1>2. OneByOne(trace'[c]) /\ EndsWith(trace'[c], "request")
  BY <1>1, WritesEvent DEF Events
<1>3. /\ pc'[c] = "asking" /\ report'[c] = "none"
      /\ \A d \in Calls \ {c} : pc'[d] = pc[d] /\ report'[d] = report[d]
  BY <1>1 DEF Sends, CallTypeOK
<1>4. TraceInStep(c)'
  BY <1>2, <1>3 DEF TraceInStep
<1> QED BY <1>1, <1>3, <1>4, WritesOwn, TraceOfOne

LEMMA TracesKept == CallsConsistent /\ TracesInStep /\ [Next]_vars => TracesInStep'
<1> SUFFICES ASSUME CallsConsistent, TracesInStep, [Next]_vars PROVE TracesInStep'
  OBVIOUS
<1>0. CallTypeOK
  BY DEF CallsConsistent
<1>1. ASSUME NEW c \in Calls, NEW k, NEW s, Begin(c, k, s) PROVE TracesInStep'
  <2>1. /\ pc[c] = "idle" /\ trace[c] = <<>>
        /\ kind'[c] = k /\ \A d \in Calls \ {c} : kind'[d] = kind[d]
    BY <1>0, <1>1 DEF Begin, TracesInStep, TraceInStep, CallTypeOK
  <2>2. CASE Sends(c, s) /\ Writes(c, <<"request">>)
    BY <2>1, <2>2, TraceSends
  <2>3. CASE k # "mcp" /\ Tells(c, "refused", NoDiagnostic) /\ UNCHANGED trace
    <3>1. OneByOne(trace'[c])
      BY <2>3 DEF TracesInStep, TraceInStep
    <3>2. TraceInStep(c)'
      BY <1>0, <2>1, <2>3, <3>1, TellsOwn DEF TraceInStep
    <3> QED BY <1>0, <2>1, <2>3, <3>2, TellsOwn, TraceOfOne
  <2>4. CASE k = "mcp" /\ Tells(c, "refused", NoDiagnostic) /\ Writes(c, <<"request">>)
    <3>1. OneByOne(trace'[c])
      BY <1>0, <2>1, <2>4, WritesEvent DEF Events
    <3>2. trace'[c] = <<"request">>
      BY <1>0, <2>1, <2>4 DEF Writes, CallTypeOK
    <3>3. TraceInStep(c)'
      BY <1>0, <2>1, <2>4, <3>1, <3>2, TellsOwn DEF TraceInStep
    <3> QED BY <1>0, <2>1, <2>4, <3>3, TellsOwn, WritesOwn, TraceOfOne
  <2>5. CASE Tells(c, "failed", NoDiagnostic) /\ Writes(c, <<"request", "error">>)
    <3>1. OneByOne(trace'[c]) /\ EndsWith(trace'[c], "error")
      BY <1>0, <2>1, <2>5, WritesError DEF Events
    <3> QED BY <1>0, <2>1, <2>5, <3>1, TraceEnds
  <2> QED BY <1>1, <2>2, <2>3, <2>4, <2>5 DEF Begin
<1>2. ASSUME NEW c \in Calls, Hear(c) PROVE TracesInStep'
  <2>0. UNCHANGED kind
    BY <1>2 DEF Hear
  <2>1. /\ Writes(c, <<"response">>) => OneByOne(trace'[c]) /\ EndsWith(trace'[c], "response")
        /\ Writes(c, <<"error">>) => OneByOne(trace'[c]) /\ EndsWith(trace'[c], "error")
    BY <1>0, WritesEvent DEF Events
  <2>2. Writes(c, <<"response", "error">>) =>
          OneByOne(trace'[c]) /\ EndsWith(trace'[c], "error")
    BY <1>0, WritesError DEF Events
  <2>3. CASE HearChallenge(c)
    <3>1. CASE pc' = [pc EXCEPT ![c] = "polling"] /\ UNCHANGED report
      <4>1. report[c] = "none"
        BY <1>2 DEF Hear, CallsConsistent, CallInStep
      <4>2. TraceInStep(c)'
        BY <1>0, <2>1, <2>3, <3>1, <4>1 DEF HearChallenge, TraceInStep, CallTypeOK
      <4> QED BY <1>0, <2>0, <2>3, <3>1, <4>2, WritesOwn, TraceOfOne DEF HearChallenge, CallTypeOK
    <3>2. CASE Tells(c, "stepUp", diagnosed[ClientOf(c)])
      BY <1>0, <2>0, <2>1, <2>3, <3>2, TraceEnds DEF HearChallenge
    <3> QED BY <2>3, <3>1, <3>2 DEF HearChallenge, PollsFor
  <2>4. CASE HearResult(c)
    <3>1. CASE /\ Tells(c, "denied", Heard(c))
               /\ Writes(c, <<"response", "error">>) \/ Writes(c, <<"error">>)
      BY <1>0, <2>0, <2>1, <2>2, <3>1, TraceEnds
    <3>2. CASE Writes(c, <<"response">>) /\ Tells(c, "executed", Heard(c))
      BY <1>0, <2>0, <2>1, <3>2, TraceEnds
    <3> QED BY <2>4, <3>1, <3>2 DEF HearResult
  <2>5. CASE HearFault(c)
    BY <1>0, <2>0, <2>1, <2>5, TraceEnds DEF HearFault
  <2> QED BY <1>2, <2>3, <2>4, <2>5 DEF Hear
<1>3. ASSUME NEW c \in Calls, NEW how \in {"failed", "timedOut"}, Fails(c, how), UNCHANGED kind
      PROVE  TracesInStep'
  <2>1. OneByOne(trace'[c]) /\ EndsWith(trace'[c], "error")
    BY <1>0, <1>3, WritesEvent DEF Fails, Events
  <2> QED BY <1>0, <1>3, <2>1, TraceEnds DEF Fails
<1>4. ASSUME NEW c \in Calls, Resume(c) PROVE TracesInStep'
  BY <1>4, TraceSends DEF Resume
<1>5. ASSUME NEW c \in Calls, Die(c) PROVE TracesInStep'
  <2>1. Tells(c, "killed", NoDiagnostic) /\ UNCHANGED <<kind, trace>>
    BY <1>5 DEF Die
  <2>2. OneByOne(trace'[c]) /\ EndsWith(trace'[c], "response")
    BY <1>5, <2>1 DEF Die, TracesInStep, TraceInStep
  <2>3. TraceInStep(c)'
    BY <1>0, <2>1, <2>2, TellsOwn DEF TraceInStep
  <2> QED BY <1>0, <2>1, <2>3, TellsOwn, TraceOfOne
<1>6. ASSUME NEW c \in Calls, Client(c) PROVE TracesInStep'
  BY <1>2, <1>3, <1>4, <1>6, TracesUntouched
  DEF Client, Receive, HearNothing, PollTimesOut, StopsPolling
<1>7. ASSUME NEW c \in Calls, Service(c) PROVE TracesInStep'
  BY <1>7, TracesUntouched DEF Service, Admit, Redeem, Finish, HandlerStep, clientVars
<1>8. ASSUME NEW c \in Calls, World(c) PROVE TracesInStep'
  BY <1>1, <1>3, <1>5, <1>8, TracesUntouched
  DEF World, PollFails, StopsPolling, Prove, ChainStep, clientVars
<1>9. Restart \/ Tick \/ UNCHANGED vars => TracesInStep'
  BY TracesUntouched DEF Restart, Tick, vars, clientVars
<1> QED BY <1>6, <1>7, <1>8, <1>9 DEF Next

-----------------------------------------------------------------------------
(***************************************************************************)
(* The clock.                                                              *)
(***************************************************************************)

LEMMA Measures ==
  ASSUME CallsConsistent, NEW c \in Calls
  PROVE  /\ age[c] \in Int /\ age[c] >= Never /\ age[c] <= StateTTL + 1
         /\ provedAt[c] \in Int /\ provedAt[c] >= Never /\ timer[c] \in Nat
         /\ StateTTL \in Nat /\ PollTimeout \in Nat /\ PollInterval \in Nat /\ MaxLag \in Nat
         /\ Never = -1
<1>1. /\ age[c] \in Never..StateTTL + 1 /\ provedAt[c] \in Never..StateTTL + 1
      /\ timer[c] \in Nat
  BY DEF CallsConsistent, CallTypeOK
<1> QED BY <1>1, CallAssumption DEF Never

\* A step of a call touches no other call's times.
LEMMA TimeOfOne ==
  ASSUME TimesInStep, NEW c \in Calls, TimeInStep(c)',
         \A d \in Calls \ {c} : /\ pc'[d] = pc[d] /\ report'[d] = report[d]
                                /\ wire'[d] = wire[d] /\ shows'[d] = shows[d]
                                /\ answer'[d] = answer[d] /\ timer'[d] = timer[d]
                                /\ age'[d] = age[d] /\ provedAt'[d] = provedAt[d]
  PROVE  TimesInStep'
  BY DEF TimesInStep, TimeInStep

LEMMA TimesUntouched ==
  ASSUME TimesInStep, UNCHANGED <<pc, report, wire, shows, answer, timer, age, provedAt>>
  PROVE  TimesInStep'
  BY DEF TimesInStep, TimeInStep

\* The steps of the client.
LEMMA BeginInTime ==
  ASSUME CallsConsistent, TimesInStep, NEW c \in Calls, NEW k, NEW s, Begin(c, k, s)
  PROVE  TimesInStep'
<1>1. CallTypeOK
  BY DEF CallsConsistent
<1>2. /\ pc[c] = "idle" /\ shows[c] = NoCall /\ wire[c] = "none" /\ report[c] = "none"
      /\ provedAt[c] = Never /\ s # c
      /\ UNCHANGED <<age, provedAt>>
  BY CallAssumption
  DEF Begin, Printed, CallsConsistent, CallInStep, TimesInStep, TimeInStep, gateVars
<1>3. CASE Sends(c, s)
  <2>1. /\ pc'[c] = "asking" /\ shows'[c] = s /\ wire'[c] = "request" /\ answer'[c] = "none"
        /\ report'[c] = "none"
    BY <1>1, <1>2, <1>3 DEF Sends, CallTypeOK
  <2>2. TimeInStep(c)'
    BY <1>2, <2>1 DEF TimeInStep
  <2> QED BY <1>1, <1>2, <1>3, <2>2, TimeOfOne DEF Sends, CallTypeOK
<1>4. CASE Still /\ \E how \in {"refused", "failed"} : Tells(c, how, NoDiagnostic)
  <2>1. /\ pc'[c] = "ended" /\ report'[c] \in {"refused", "failed"}
        /\ UNCHANGED <<shows, wire, answer, timer>>
    BY <1>1, <1>4 DEF Tells, Still, CallTypeOK
  <2>2. TimeInStep(c)'
    BY <1>2, <2>1, CallAssumption DEF TimeInStep
  <2> QED BY <1>1, <1>2, <1>4, <2>1, <2>2, TimeOfOne DEF Tells, CallTypeOK
<1> QED BY <1>3, <1>4 DEF Begin

LEMMA HearInTime ==
  ASSUME CallsConsistent, TimesInStep, NEW c \in Calls, Hear(c)
  PROVE  TimesInStep'
<1>1. CallTypeOK /\ TimeInStep(c)
  BY DEF CallsConsistent, TimesInStep
<1>2. /\ pc[c] = "asking" /\ wire[c] = "heard"
      /\ wire'[c] = "none" /\ timer'[c] = 0
      /\ UNCHANGED <<age, provedAt, shows, answer>>
      /\ \A d \in Calls \ {c} : wire'[d] = wire[d] /\ timer'[d] = timer[d]
  BY <1>1 DEF Hear, gateVars, CallTypeOK
<1>3. CASE /\ answer[c] = "challenge" /\ shows[c] = NoCall
           /\ pc' = [pc EXCEPT ![c] = "polling"] /\ UNCHANGED report
  <2>1. pc'[c] = "polling" /\ report[c] = "none"
    BY <1>1, <1>2, <1>3 DEF CallTypeOK, CallsConsistent, CallInStep
  <2>2. age[c] >= 0 /\ provedAt[c] = Never
    BY <1>1, <1>2, <1>3, Measures DEF TimeInStep
  <2>3. TimeInStep(c)'
    BY <1>2, <1>3, <2>1, <2>2 DEF TimeInStep
  <2> QED BY <1>1, <1>2, <1>3, <2>3, TimeOfOne DEF CallTypeOK
<1>4. CASE \E how \in {"stepUp", "denied", "executed", "failed"} :
             \E diagnostic : Tells(c, how, diagnostic)
  <2>1. pc'[c] = "ended" /\ report'[c] # "timedOut"
    BY <1>1, <1>4 DEF Tells, CallTypeOK
  <2>2. TimeInStep(c)'
    BY <1>1, <1>2, <2>1 DEF TimeInStep
  <2> QED BY <1>1, <1>2, <1>4, <2>2, TimeOfOne DEF Tells, CallTypeOK
<1> QED BY <1>3, <1>4 DEF Hear, HearChallenge, PollsFor, HearResult, HearFault

LEMMA HearNothingInTime ==
  ASSUME CallsConsistent, TimesInStep, NEW c \in Calls, HearNothing(c)
  PROVE  TimesInStep'
<1>1. CallTypeOK /\ TimeInStep(c)
  BY DEF CallsConsistent, TimesInStep
<1>2. /\ pc'[c] = "ended" /\ report'[c] = "failed" /\ wire'[c] \in {"none", wire[c]}
      /\ UNCHANGED <<age, provedAt, shows, answer>>
      /\ \A d \in Calls \ {c} : /\ pc'[d] = pc[d] /\ report'[d] = report[d]
                                /\ wire'[d] = wire[d] /\ timer'[d] = timer[d]
  BY <1>1 DEF HearNothing, Fails, Tells, gateVars, CallTypeOK
<1>3. TimeInStep(c)'
  BY <1>1, <1>2 DEF TimeInStep
<1> QED BY <1>2, <1>3, TimeOfOne

LEMMA ResumeInTime ==
  ASSUME CallsConsistent, TimesInStep, NEW c \in Calls, Resume(c)
  PROVE  TimesInStep'
<1>1. CallTypeOK /\ TimeInStep(c) /\ c # NoCall /\ report[c] = "none"
  BY CallAssumption DEF CallsConsistent, TimesInStep, Resume, CallInStep
<1>2. /\ pc[c] = "polling" /\ provedAt[c] # Never
      /\ pc'[c] = "asking" /\ report'[c] = "none" /\ wire'[c] = "request" /\ shows'[c] = c
      /\ answer'[c] = "none" /\ timer'[c] = 0
      /\ UNCHANGED <<age, provedAt>>
      /\ \A d \in Calls \ {c} : /\ pc'[d] = pc[d] /\ report'[d] = report[d]
                                /\ wire'[d] = wire[d] /\ shows'[d] = shows[d]
                                /\ answer'[d] = answer[d] /\ timer'[d] = timer[d]
  BY <1>1 DEF Resume, Sends, gateVars, CallTypeOK
<1>3. TimeInStep(c)'
  BY <1>1, <1>2, Measures DEF TimeInStep
<1> QED BY <1>2, <1>3, TimeOfOne

\* A terminal gives up its state only when that is past its lifetime.
LEMMA GivesUpInTime ==
  ASSUME CallsConsistent, TimesInStep, NEW c \in Calls, PollTimesOut(c) \/ PollFails(c) \/ Die(c)
  PROVE  TimesInStep'
<1>1. CallTypeOK /\ TimeInStep(c)
  BY DEF CallsConsistent, TimesInStep
<1>2. /\ pc[c] = "polling" /\ shows[c] = NoCall /\ wire[c] = "none"
      /\ pc'[c] = "ended"
      /\ report'[c] = "timedOut" => timer[c] = PollTimeout
      /\ UNCHANGED <<age, provedAt, shows, wire, answer, timer>>
      /\ \A d \in Calls \ {c} : pc'[d] = pc[d] /\ report'[d] = report[d]
  BY <1>1
  DEF PollTimesOut, PollFails, StopsPolling, Die, Fails, Tells, Still, gateVars, CallTypeOK,
      CallsConsistent, CallInStep
<1>3. report'[c] = "timedOut" => age[c] >= StateTTL
  BY <1>1, <1>2, Measures, PollsForTheLifetime DEF TimeInStep
<1>4. TimeInStep(c)'
  BY <1>1, <1>2, <1>3, CallAssumption DEF TimeInStep
<1> QED BY <1>2, <1>4, TimeOfOne

\* The steps of the human, the gate and the clock.
LEMMA ProveInTime ==
  ASSUME CallsConsistent, TimesInStep, NEW s \in Calls, Prove(s)
  PROVE  TimesInStep'
<1>1. CallTypeOK /\ TimeInStep(s)
  BY DEF CallsConsistent, TimesInStep
<1>2. /\ provedAt[s] = Never /\ provedAt'[s] = age[s]
      /\ UNCHANGED <<pc, report, wire, shows, answer, timer, age>>
      /\ \A d \in Calls \ {s} : provedAt'[d] = provedAt[d]
  BY <1>1 DEF Prove, clientVars, CallTypeOK
<1>3. pc[s] \notin {"idle", "asking"}
  BY DEF Prove, Presentable, Printed, CallsConsistent, CallInStep
<1>4. TimeInStep(s)'
  BY <1>1, <1>2, <1>3, Measures DEF TimeInStep
<1> QED BY <1>2, <1>4, TimeOfOne

\* An answer that is no challenge, nor says that the state has expired, may come at any time.
LEMMA ReplyInTime ==
  ASSUME CallsConsistent, TimesInStep, NEW c \in Calls, NEW a \in Answers, Reply(c, a),
         wire[c] \in {"request", "service"},
         UNCHANGED <<pc, report, shows>>,
         \A d \in Calls \ {c} : age'[d] = age[d] /\ provedAt'[d] = provedAt[d],
         shows[c] = NoCall => provedAt'[c] = provedAt[c],
         a = "challenge" => age'[c] # Never,
         a = "expired" /\ shows[c] = c /\ pc[c] = "asking" =>
           provedAt'[c] + PollInterval + MaxLag > StateTTL
  PROVE  TimesInStep'
<1>1. CallTypeOK /\ TimeInStep(c) /\ pc[c] # "polling" /\ report[c] # "timedOut" /\ pc[c] # "idle"
  BY DEF CallsConsistent, TimesInStep, CallInStep
<1>2. /\ pc[c] = "asking" => wire'[c] = "answer" /\ answer'[c] = a
      /\ pc[c] # "asking" => wire'[c] = "none" /\ answer'[c] = "none"
      /\ \A d \in Calls \ {c} : /\ wire'[d] = wire[d] /\ answer'[d] = answer[d]
                                /\ timer'[d] = timer[d]
  BY <1>1 DEF Reply, CallTypeOK, TimeInStep
<1>3. TimeInStep(c)'
  BY <1>1, <1>2 DEF TimeInStep
<1> QED BY <1>2, <1>3, TimeOfOne

LEMMA GateInTime ==
  ASSUME CallsConsistent, TimesInStep, NEW c \in Calls, Admit(c) \/ Redeem(c) \/ Finish(c)
  PROVE  TimesInStep'
<1>1. CallTypeOK /\ TimeInStep(c) /\ c # NoCall
  BY CallAssumption DEF CallsConsistent, TimesInStep
<1>2. CASE Admit(c)
  <2>1. /\ wire[c] = "request" /\ shows[c] = NoCall
        /\ UNCHANGED <<pc, report, shows, provedAt>>
        /\ \A d \in Calls \ {c} : age'[d] = age[d]
        /\ \E a \in Answers : Reply(c, a) /\ a # "expired" /\ (a = "challenge" => age'[c] = 0)
    BY <1>1, <1>2 DEF Admit, CallTypeOK, Answers
  <2>2. 0 # Never
    BY DEF Never
  <2> QED BY <1>1, <2>1, <2>2, ReplyInTime
<1>3. CASE Redeem(c)
  <2>1. /\ wire[c] = "request" /\ shows[c] # NoCall
        /\ UNCHANGED <<pc, report, shows>>
    BY <1>3 DEF Redeem
  <2>2. CASE age[shows[c]] > StateTTL /\ Reply(c, "expired") /\ UNCHANGED gateVars
    <3>1. shows[c] = c /\ pc[c] = "asking" => provedAt[c] + PollInterval + MaxLag > StateTTL
      BY <1>1, <2>1, <2>2, Measures DEF TimeInStep
    <3> QED BY <2>1, <2>2, <3>1, ReplyInTime DEF gateVars, Answers
  <2>3. ASSUME Forgets(c)
        PROVE  /\ \A d \in Calls \ {c} : age'[d] = age[d] /\ provedAt'[d] = provedAt[d]
               /\ shows[c] # c => age'[c] = age[c] /\ provedAt'[c] = provedAt[c]
    BY <1>1, <2>3 DEF Forgets, CallTypeOK
  <2>4. CASE Forgets(c) /\ \E a \in Refusals : Reply(c, a)
    BY <1>1, <2>1, <2>3, <2>4, ReplyInTime DEF Answers, Refusals
  <2>5. CASE Forgets(c) /\ wire' = [wire EXCEPT ![c] = "service"] /\ UNCHANGED <<answer, timer>>
    <3>1. /\ wire'[c] = "service" /\ answer'[c] = "none" /\ pc[c] \notin {"idle", "polling"}
          /\ report[c] # "timedOut"
          /\ \A d \in Calls \ {c} : wire'[d] = wire[d]
      BY <1>1, <2>1, <2>5 DEF CallTypeOK, TimeInStep, CallsConsistent, CallInStep
    <3>2. TimeInStep(c)'
      BY <1>1, <2>1, <3>1 DEF TimeInStep
    <3> QED BY <2>1, <2>3, <2>5, <3>1, <3>2, TimeOfOne
  <2> QED BY <1>3, <2>2, <2>4, <2>5 DEF Redeem
<1>4. CASE Finish(c)
  <2>1. /\ wire[c] = "service"
        /\ UNCHANGED <<pc, report, shows, age, provedAt>>
        /\ \E a \in {"executed", "toolError"} : Reply(c, a)
    BY <1>4 DEF Finish, gateVars
  <2> QED BY <2>1, ReplyInTime DEF Answers, Refusals
<1> QED BY <1>2, <1>3, <1>4

\* A tick ages the states that are under way, by no more than what is measured of their way.
LEMMA TickInTime ==
  ASSUME CallsConsistent, TimesInStep, Tick
  PROVE  TimesInStep'
<1> SUFFICES ASSUME NEW c \in Calls PROVE TimeInStep(c)'
  BY DEF TimesInStep
<1>1. CallTypeOK /\ TimeInStep(c) /\ c # NoCall
  BY CallAssumption DEF CallsConsistent, TimesInStep
<1>2. /\ UNCHANGED <<pc, report, wire, shows, answer, provedAt>>
      /\ age'[c] = IF Ages(c) THEN age[c] + 1 ELSE age[c]
      /\ timer'[c] = IF pc[c] = "polling" \/ InTransit(c) THEN timer[c] + 1 ELSE timer[c]
  BY DEF Tick, clientVars
<1>3. age'[c] \in {age[c], age[c] + 1} /\ (age[c] # Never => age'[c] # Never)
  BY <1>2, Measures DEF Ages
<1>4. CASE pc[c] = "polling"
  <2>1. Presentable(c) /\ timer'[c] = timer[c] + 1
        /\ (provedAt[c] # Never => age[c] - provedAt[c] < PollInterval)
    BY <1>2, <1>4 DEF Presentable, Tick, MayTick
  <2>2. age[c] >= 0 /\ (age[c] <= StateTTL => Ages(c))
    BY <1>1, <1>4, <2>1, Measures DEF TimeInStep, Ages
  <2>3. /\ age'[c] >= timer'[c] \/ age'[c] > StateTTL
        /\ provedAt[c] # Never => age'[c] <= provedAt[c] + PollInterval
    BY <1>1, <1>2, <1>3, <1>4, <2>1, <2>2, Measures DEF TimeInStep
  <2> QED BY <1>1, <1>2, <1>3, <1>4, <2>3, Measures DEF TimeInStep
<1>5. CASE pc[c] = "asking" /\ wire[c] = "request" /\ shows[c] = c
  <2>1. timer[c] < MaxLag /\ timer'[c] = timer[c] + 1
    BY <1>1, <1>2, <1>5 DEF InTransit, Tick, MayTick
  <2>2. timer'[c] <= MaxLag /\ age'[c] <= provedAt[c] + PollInterval + timer'[c]
    BY <1>1, <1>3, <1>5, <2>1, Measures DEF TimeInStep
  <2> QED BY <1>1, <1>2, <1>3, <1>5, <2>2, Measures DEF TimeInStep
<1>6. CASE pc[c] # "polling" /\ ~(pc[c] = "asking" /\ wire[c] = "request" /\ shows[c] = c)
  BY <1>1, <1>2, <1>3, <1>6, Measures DEF TimeInStep
<1> QED BY <1>4, <1>5, <1>6

LEMMA TimesKept == CallsConsistent /\ TimesInStep /\ [Next]_vars => TimesInStep'
<1> SUFFICES ASSUME CallsConsistent, TimesInStep, [Next]_vars PROVE TimesInStep'
  OBVIOUS
<1>1. ASSUME NEW c \in Calls, Receive(c) PROVE TimesInStep'
  <2>1. /\ pc[c] = "asking" /\ wire[c] = "answer" /\ wire'[c] = "heard"
        /\ UNCHANGED <<pc, report, shows, answer, timer, age, provedAt>>
        /\ \A d \in Calls \ {c} : wire'[d] = wire[d]
    BY <1>1 DEF Receive, gateVars, CallsConsistent, CallTypeOK
  <2>2. TimeInStep(c)'
    BY <2>1 DEF TimesInStep, TimeInStep
  <2> QED BY <2>1, <2>2, TimeOfOne
<1>2. ASSUME NEW c \in Calls, Client(c) PROVE TimesInStep'
  BY <1>1, <1>2, HearInTime, HearNothingInTime, ResumeInTime, GivesUpInTime DEF Client
<1>3. ASSUME NEW c \in Calls, HandlerStep(c) \/ ChainStep(c) PROVE TimesInStep'
  BY <1>3, TimesUntouched DEF HandlerStep, ChainStep, clientVars, gateVars
<1>4. ASSUME NEW c \in Calls, Service(c) \/ World(c) PROVE TimesInStep'
  BY <1>3, <1>4, GateInTime, BeginInTime, GivesUpInTime, ProveInTime DEF Service, World
<1>5. Restart \/ UNCHANGED vars => TimesInStep'
  BY TimesUntouched DEF Restart, vars, clientVars, gateVars
<1> QED BY <1>2, <1>4, <1>5, TickInTime DEF Next

-----------------------------------------------------------------------------
LEMMA CallIInvStarts == Init => CallIInv
<1> SUFFICES ASSUME Init PROVE CallIInv
  OBVIOUS
<1>1. TracesInStep
  BY DEF Init, TracesInStep, TraceInStep, OneByOne, EndsWith
<1>2. TimesInStep
  BY CallAssumption DEF Init, TimesInStep, TimeInStep
<1> QED BY <1>1, <1>2, CallStarts, LimitStarts DEF Init, CallIInv

LEMMA CallKept == CallIInv /\ [Next]_vars => CallIInv'
  BY ConsistencyKept, TracesKept, TimesKept, CallStepsVault, LimitStepKept
  DEF CallIInv, CallsConsistent

\* CallIInv holds of any number of calls, clients and restarts, whatever the limits and the
\* lifetimes are.
THEOREM CallInvariant == Spec => []CallIInv
  BY CallIInvStarts, CallKept, PTL DEF Spec

\* The trace of a call that has come to its end answers each of its requests, and ends with
\* an error just where the call was reported as one; but for the one request the bridge
\* leaves unanswered when it refuses a call.
THEOREM TracesTellOutcomes == Spec => []TraceTellsOutcome
<1>1. CallIInv => TraceTellsOutcome
  <2>0. ASSUME CallIInv, NEW c \in Calls, report[c] = "refused"
        PROVE  trace[c] = IF kind[c] = "mcp" THEN <<"request">> ELSE <<>>
    BY <2>0 DEF CallIInv, TracesInStep, TraceInStep
  <2> SUFFICES ASSUME CallIInv, NEW c \in Calls, report[c] \notin {"none", "refused"}
               PROVE  /\ \A i \in DOMAIN trace[c] : trace[c][i] = "request" =>
                           i < Len(trace[c]) /\ trace[c][i + 1] # "request"
                      /\ trace[c][Len(trace[c])] = "error" <=>
                           report[c] \in {"denied", "failed", "timedOut"}
    BY <2>0 DEF TraceTellsOutcome
  <2>1. trace[c] \in Seq(Events) /\ report[c] \in Reports /\ TraceInStep(c)
    BY DEF CallIInv, CallsConsistent, CallTypeOK, TracesInStep, Events
  <2> DEFINE n == Len(trace[c])
  <2>2. n \in Nat /\ DOMAIN trace[c] = 1..n
    BY <2>1
  <2>3. \/ report[c] \in {"executed", "stepUp", "killed"} /\ EndsWith(trace[c], "response")
        \/ report[c] \in {"denied", "failed", "timedOut"} /\ EndsWith(trace[c], "error")
    BY <2>1 DEF Reports, TraceInStep
  <2>4. OneByOne(trace[c])
    BY <2>1 DEF TraceInStep
  <2>5. ASSUME NEW i \in 1..n, trace[c][i] = "request"
        PROVE  i < n /\ trace[c][i + 1] # "request"
    <3>1. i # n
      BY <2>3, <2>5 DEF EndsWith
    <3> QED BY <2>2, <2>4, <2>5, <3>1 DEF OneByOne
  <2>6. trace[c][n] = "error" <=> report[c] \in {"denied", "failed", "timedOut"}
    BY <2>3 DEF EndsWith
  <2> QED BY <2>2, <2>5, <2>6
<1> QED BY <1>1, CallInvariant, PTL

\* Whatever the lifetimes are, so long as the CLI polls for the lifetime of a state: it does
\* not give up on one that could still be redeemed, and comes too late with a proof only if
\* the human did.
THEOREM CallsProveInTime == Spec => []ProofsAreInTime
<1>1. CallIInv => ProofsAreInTime
  BY DEF CallIInv, TimesInStep, TimeInStep, ProofsAreInTime
<1> QED BY <1>1, CallInvariant, PTL

\* What the user is told of a call is so: its handler has returned where it says so, and
\* nothing has moved where it says that nothing was done.
THEOREM CallsReportTruly == Spec => []ReportsAreTrue
<1>1. CallIInv => ReportsAreTrue
  BY DEF CallIInv, CallsConsistent
<1> QED BY <1>1, CallInvariant, PTL

\* No call reports a diagnostic that came with another answer.
THEOREM CallsReportTheirOwn == Spec => []DiagnosticIsOwn
<1>1. CallIInv => DiagnosticIsOwn
  BY DEF CallIInv, CallsConsistent
<1> QED BY <1>1, CallInvariant, PTL

\* The daily limit is kept whichever calls ask for the transfers, however many they are.
THEOREM CallsKeepLimit == Spec => []LimitKept
  BY CallsImplementVault, LimitIsKept, PTL

\* Ledger and chain agree whichever calls ask for the transfers and however they overlap, by
\* the refinement.
THEOREM CallsAreAccounted == Spec => []LedgerAccounts
<1>1. VaultIInv => LedgerAccounts
  BY DEF VaultIInv
<1> QED BY <1>1, CallsImplementVault, VaultInvariant, PTL
=============================================================================
