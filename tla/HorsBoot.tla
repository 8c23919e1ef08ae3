------------------------------ MODULE HorsBoot ------------------------------
(***************************************************************************)
(* From a published policy to a served call: the owner's enrollment, the   *)
(* checks createHORS makes before a service runs, and the hash a client    *)
(* reads from the registry, signs and is held to.  Owners publish, hand    *)
(* services over and redeploy between any two of these steps.              *)
(*                                                                         *)
(* World ID's nullifier of a proof is the person and the action it is for. *)
(* A proof is completed by some person: that it is the human the owner's   *)
(* wallet belongs to is for nobody to see.                                 *)
(***************************************************************************)
EXTENDS HorsRegistry, FiniteSets

CONSTANTS
  Humans,
  NoHuman,      \* AgentBook knows nobody for the account
  HumanOf,      \* humanOrigin of the manifests that publish a policy
  Checks,       \* calls of verifyEnrollment
  Clients,      \* clients, each of which reads one hash and makes one call
  Undefined,    \* undefined, null
  HasStore,     \* verifyEnrollment is given a nullifier store
  MaxProofs,    \* bound on the enrollments humans complete
  Scenes        \* bound on what happens in one behaviour: one of these sets

Parts == {"enroll", "hand", "start", "call"} \cup Runs

ASSUME BootAssumption ==
  /\ NoHuman \notin Humans
  /\ HumanOf \in [Policies -> Humans]
  /\ HasStore \in BOOLEAN
  /\ Scenes \subseteq SUBSET Parts

Proofs   == [service : Services, human : Humans, by : Humans]
Contents == Manifests \cup {NoManifest}

\* What is left of a HORSServerConfig once a service runs.
Servers ==
  [human : Humans, manifest : Contents, announced : Contents, functions : Policies,
   record : Proofs \cup {Undefined}]

Holdings == [service : Services, content : Contents]

ASSUME UndefinedAssumption == Undefined \notin Proofs \cup Servers \cup Holdings \cup Services

VARIABLES
  scene,      \* what happens in this behaviour
  book,       \* AgentBook
  named,      \* humans it has named
  proofs,     \* completed enrollment challenges
  check,      \* what each call of verifyEnrollment has come to
  spent,      \* enrollment nullifiers in the store
  records,    \* enrollment records in 0G Storage
  server,     \* the running service
  held,       \* what a client has read: the content whose hash it signs, and for whom
  calling     \* where a client is

enrollVars == <<book, named, proofs, check, spent, records>>
callVars == <<held, calling>>
bootVars == <<registryVars, scene, enrollVars, server, callVars>>

\* Its step, its arguments and the human of its own lookup.
NewCheck == [at |-> "new", service |-> Undefined, human |-> NoHuman, proof |-> Undefined]

CheckStates ==
  [at : {"new", "asking", "enrolled", "kept", "lost", "failed"},
   service : Services \cup {Undefined}, human : Humans \cup {NoHuman}, proof : Proofs \cup {Undefined}]

BootTypeOK ==
  /\ scene \in Scenes
  /\ book \in [Accounts -> Humans \cup {NoHuman}]
  /\ named \subseteq Humans
  /\ proofs \subseteq Proofs
  /\ check \in [Checks -> CheckStates]
  /\ spent \subseteq Humans \X Services
  /\ records \subseteq Proofs
  /\ server \in Servers \cup {Undefined}
  /\ held \in [Clients -> Holdings \cup {Undefined}]
  /\ calling \in [Clients -> {"new", "ready", "served"}]

BootInit ==
  /\ RegistryInit
  /\ scene \in Scenes
  /\ book = [a \in Accounts |-> NoHuman]
  /\ named = {} /\ proofs = {}
  /\ check = [e \in Checks |-> NewCheck]
  /\ spent = {} /\ records = {}
  /\ server = Undefined
  /\ held = [c \in Clients |-> Undefined]
  /\ calling = [c \in Clients |-> "new"]

-----------------------------------------------------------------------------
(***************************************************************************)
(* Enrollment.                                                             *)
(***************************************************************************)
AgentBookNames(a, h) ==
  /\ book[a] # h
  /\ book' = [book EXCEPT ![a] = h]
  /\ named' = IF h = NoHuman THEN named ELSE named \cup {h}
  /\ UNCHANGED <<registryVars, scene, proofs, check, spent, records, server, callVars>>

\* initiateEnrollment keeps nothing: what remains of it is the proof somebody completes for
\* its action and its signal.  Nobody asks whether the account owns the service.
Initiate(account, service, person) ==
  /\ book[account] # NoHuman
  /\ Cardinality(proofs) < MaxProofs
  /\ proofs' = proofs \cup {[service |-> service, human |-> book[account], by |-> person]}
  /\ UNCHANGED <<registryVars, scene, book, named, check, spent, records, server, callVars>>

\* verifyEnrollment, to the World API: the human is looked up again.
Look(e, account, service, proof) ==
  /\ check[e].at = "new"
  /\ check' = [check EXCEPT ![e] =
       IF book[account] = NoHuman THEN [NewCheck EXCEPT !.at = "failed"]
       ELSE [at |-> "asking", service |-> service, human |-> book[account], proof |-> proof]]
  /\ UNCHANGED <<registryVars, scene, book, named, proofs, spent, records, server, callVars>>

Nullifier(proof) == <<proof.by, proof.service>>

\* Mutant: the signal is not compared.
ProofFitsAction(e) == check[e].proof.service = check[e].service

\* extractStrictResult wants the action of the service, and the signal is compared with the
\* human AgentBook names now.
ProofFits(e) ==
  /\ check[e].proof.service = check[e].service
  /\ check[e].proof.human = check[e].human

RecordOf(e) ==
  [service |-> check[e].service, human |-> check[e].human, by |-> check[e].proof.by]

CheckFails(e) == check' = [check EXCEPT ![e] = [NewCheck EXCEPT !.at = "failed"]]

\* Mutant: the nullifier is consumed before the signal is compared.
JudgeSpendingFirst(e) ==
  /\ check[e].at = "asking"
  /\ \/ CheckFails(e) /\ UNCHANGED spent
     \/ /\ HasStore => Nullifier(check[e].proof) \notin spent
        /\ spent' = IF HasStore THEN spent \cup {Nullifier(check[e].proof)} ELSE spent
        /\ IF ProofFits(e) THEN check' = [check EXCEPT ![e].at = "enrolled"] ELSE CheckFails(e)
  /\ UNCHANGED <<registryVars, scene, book, named, proofs, records, server, callVars>>

\* World's answer and what follows it: any check may fail, and the last one, which spends
\* the nullifier, is the last thing that can.
Judge(e) ==
  /\ check[e].at = "asking"
  /\ \/ CheckFails(e) /\ UNCHANGED spent
     \/ /\ ProofFits(e)
        /\ HasStore => Nullifier(check[e].proof) \notin spent
        /\ spent' = IF HasStore THEN spent \cup {Nullifier(check[e].proof)} ELSE spent
        /\ check' = [check EXCEPT ![e].at = "enrolled"]
  /\ UNCHANGED <<registryVars, scene, book, named, proofs, records, server, callVars>>

\* uploadEnrollmentRecord, which may throw: then the nullifier is spent and the record lost.
Keep(e) ==
  /\ check[e].at = "enrolled"
  /\ \/ /\ check' = [check EXCEPT ![e].at = "kept"]
        /\ records' = records \cup {RecordOf(e)}
     \/ /\ check' = [check EXCEPT ![e].at = "lost"]
        /\ UNCHANGED records
  /\ UNCHANGED <<registryVars, scene, book, named, proofs, spent, server, callVars>>

-----------------------------------------------------------------------------
(***************************************************************************)
(* createHORS and hors().  A service whose start throws does not run.      *)
(***************************************************************************)

\* Mutant: the inline policies are not compared.
MatchesManifestOrigin(functions, manifest, human) ==
  manifest # NoManifest => HumanOf[manifest.functions] = human

\* The manifest is for the human the service serves, and validatePolicyAtRegistration
\* finds every inline policy in it.
MatchesManifest(functions, manifest, human) ==
  manifest # NoManifest =>
    HumanOf[manifest.functions] = human /\ functions = manifest.functions

\* A service id in the configuration of 0G Storage is compared with the manifest's and the
\* record's; the record is read only where storage is configured.
SameService(service, other) == service # Undefined => other.service = service

MatchesRecord(record, human, service) ==
  record # Undefined => record.human = human /\ SameService(service, record)

Start(human, service, manifest, pinned, functions, record) ==
  /\ server = Undefined
  /\ MatchesManifest(functions, manifest, human)
  /\ manifest # NoManifest =>
       SameService(service, manifest) /\ pinned \in {NoManifest, manifest}
  /\ MatchesRecord(record, human, service)
  /\ server' = [human |-> human, manifest |-> manifest,
                announced |-> IF manifest # NoManifest THEN manifest ELSE pinned,
                functions |-> functions, record |-> record]
  /\ UNCHANGED <<registryVars, scene, enrollVars, callVars>>

\* With a manifest that can be downloaded, or none, and a pinned hash or none.
StartSomehow ==
  \E h \in Humans, s \in Services \cup {Undefined}, f \in Policies, r \in records \cup {Undefined} :
  \E m, pinned \in stored \cup {NoManifest} :
    Start(h, s, m, pinned, f, r)

Stop ==
  /\ server # Undefined /\ server' = Undefined
  /\ UNCHANGED <<registryVars, scene, enrollVars, callVars>>

-----------------------------------------------------------------------------
(***************************************************************************)
(* Calls.                                                                  *)
(***************************************************************************)

\* A client takes the hash of a record whose owner its id names, or signs none.
ReadPolicy(c) ==
  /\ calling[c] = "new"
  /\ calling' = [calling EXCEPT ![c] = "ready"]
  /\ \/ \E s \in Services :
          /\ Registered(s) /\ Bound(s)
          /\ held' = [held EXCEPT ![c] = [service |-> s, content |-> content[s]]]
     \/ UNCHANGED held
  /\ UNCHANGED <<registryVars, scene, enrollVars, server>>

\* assertPolicyHash: a service that announces a hash takes no other and no zero hash.
HashAccepted(c) ==
  server.announced # NoManifest => held[c] # Undefined /\ held[c].content = server.announced

\* The call is decided under the inline policies; a call that is refused here changes
\* nothing.
Call(c) ==
  /\ calling[c] = "ready" /\ server # Undefined
  /\ HashAccepted(c)
  /\ calling' = [calling EXCEPT ![c] = "served"]
  /\ held' = [held EXCEPT ![c] = Undefined]
  /\ UNCHANGED <<registryVars, scene, enrollVars, server>>

-----------------------------------------------------------------------------
Publish ==
  /\ \/ \E r \in Runs \cap scene : Enroll(r)
     \/ "hand" \in scene /\ (CallByHand \/ StoreByHand)
  /\ UNCHANGED <<scene, enrollVars, server, callVars>>

Enrollment ==
  /\ "enroll" \in scene
  /\ \/ \E a \in Accounts, h \in Humans \cup {NoHuman} : AgentBookNames(a, h)
     \/ \E a \in Accounts, s \in Services, h \in Humans : Initiate(a, s, h)
     \/ \E e \in Checks, a \in Accounts, s \in Services, p \in proofs : Look(e, a, s, p)
     \/ \E e \in Checks : Judge(e) \/ Keep(e)

BootNext ==
  \/ Publish
  \/ Enrollment
  \/ "start" \in scene /\ (StartSomehow \/ Stop)
  \/ "call" \in scene /\ \E c \in Clients : ReadPolicy(c) \/ Call(c)

BootSpec == BootInit /\ [][BootNext]_bootVars

-----------------------------------------------------------------------------
(***************************************************************************)
(* Properties.                                                             *)
(***************************************************************************)

\* One person enrolls a service once for as long as the store remembers, whichever checks
\* of one proof run at a time, and a person whose nullifier is spent got the record for it:
\* no check that fails costs an enrollment.
EnrolledOnce ==
  LET Gave == {e \in Checks : check[e].at \in {"enrolled", "kept", "lost"}} IN
  HasStore =>
    /\ \A n \in spent : \E e \in Gave : Nullifier(check[e].proof) = n
    /\ \A e, f \in Gave : e # f => Nullifier(check[e].proof) # Nullifier(check[f].proof)

\* A call signed with a hash from the registry, and served by a service that has loaded a
\* manifest, is decided under the functions that hash stands for and for the human they
\* were published for; the account the service id names committed to them, whoever owns the
\* service by now and whatever was published, redeployed or handed over since the read.
ServedAsCommitted ==
  [][\A c \in Clients :
       calling[c] = "ready" /\ calling'[c] = "served" /\ server.manifest # NoManifest =>
         /\ held[c] # Undefined
         /\ held[c].content \in vouched[held[c].service]
         /\ server.functions = held[c].content.functions
         /\ server.human = HumanOf[held[c].content.functions]]_bootVars

-----------------------------------------------------------------------------
(***************************************************************************)
(* The inductive invariant.                                                *)
(***************************************************************************)

\* A record stands for a challenge made for its human and its service, and completed.
RecordsTestify ==
  /\ \A a \in Accounts : book[a] # NoHuman => book[a] \in named
  /\ \A p \in proofs : p.human \in named
  /\ records \subseteq proofs
  /\ \A e \in Checks :
       /\ check[e].at \in {"asking", "enrolled", "kept", "lost"} => check[e].proof \in proofs
       /\ check[e].at = "asking" => check[e].service \in Services /\ check[e].human \in Humans
       /\ check[e].at \in {"enrolled", "kept", "lost"} => RecordOf(e) = check[e].proof

\* What a running service was started with still fits together.
RunsAsPublished ==
  server # Undefined =>
    /\ MatchesManifest(server.functions, server.manifest, server.human)
    /\ server.manifest # NoManifest => server.announced = server.manifest
    /\ server.record # Undefined => server.record \in records /\ server.record.human = server.human

\* What a client holds was committed to by the account its service is named for.
HoldsVouched ==
  \A c \in Clients : held[c] # Undefined => held[c].content \in vouched[held[c].service]

\* Every spent nullifier gave a record, and every enrollment with a store spent one.
SpentForRecords ==
  HasStore =>
    /\ \A e \in Checks : check[e].at \in {"enrolled", "kept", "lost"} =>
         Nullifier(check[e].proof) \in spent
    /\ EnrolledOnce

BootIInv ==
  /\ RegistryIInv
  /\ BootTypeOK
  /\ RecordsTestify
  /\ RunsAsPublished
  /\ HoldsVouched
  /\ SpentForRecords
=============================================================================
