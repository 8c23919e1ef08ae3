---------------------------- MODULE HorsRegistry ----------------------------
(***************************************************************************)
(* The HORSRegistry contract and enroll.ts, the script that publishes a    *)
(* policy manifest: read the version, upload the manifest to 0G Storage,   *)
(* send the transaction that commits to it.  Runs of the script race with  *)
(* each other and with calls owners send by hand.                          *)
(*                                                                         *)
(* keccak256 is injective: a service id is the pair it is derived from,    *)
(* and a content hash, like a storage root, is the manifest itself.  The   *)
(* humanOrigin a service is registered with is left out: no call changes   *)
(* it later, and nothing that reads the record compares it.                *)
(***************************************************************************)
EXTENDS Naturals

CONSTANTS
  Accounts,     \* wallets
  Nobody,       \* address(0)
  Names,        \* normalized ENS names
  Policies,     \* the functions a manifest may publish
  NoManifest,
  Runs,         \* runs of enroll.ts
  AccountOf, NameOf, PolicyOf,   \* their environment
  Foreign,      \* manifests no run of enroll.ts made, of any service and any version
  MaxVersion    \* bound on the version calls by hand bring a service to

ASSUME RegistryAssumption ==
  /\ Nobody \notin Accounts
  /\ AccountOf \in [Runs -> Accounts]
  /\ NameOf \in [Runs -> Names]
  /\ PolicyOf \in [Runs -> Policies]
  /\ MaxVersion \in Nat

deriveServiceId(account, name) == <<account, name>>

Services  == Accounts \X Names
Manifests == [service : Services, functions : Policies, version : Nat]

ASSUME ManifestAssumption == NoManifest \notin Manifests /\ Foreign \subseteq Manifests

VARIABLES
  owner,      \* services[id].owner
  version,    \* services[id].policyVersion
  content,    \* what policyStorageRoot and policyContentHash commit to
  vouched,    \* contents a service had while the account its id names owned it
  stored,     \* manifests in 0G Storage
  step,       \* of each run
  seen        \* existingPolicyVersion

contractVars == <<owner, version, content, vouched>>
registryVars == <<contractVars, stored, step, seen>>

Steps == {"start", "read", "uploaded", "sent", "failed", "mined", "reverted"}

RegistryTypeOK ==
  /\ owner \in [Services -> Accounts \cup {Nobody}]
  /\ version \in [Services -> Nat]
  /\ content \in [Services -> Manifests \cup {NoManifest}]
  /\ vouched \in [Services -> SUBSET Manifests]
  /\ stored \subseteq Manifests
  /\ step \in [Runs -> Steps]
  /\ seen \in [Runs -> Nat]

RegistryInit ==
  /\ owner = [s \in Services |-> Nobody]
  /\ version = [s \in Services |-> 0]
  /\ content = [s \in Services |-> NoManifest]
  /\ vouched = [s \in Services |-> {}]
  /\ stored = {}
  /\ step = [r \in Runs |-> "start"]
  /\ seen = [r \in Runs |-> 0]

-----------------------------------------------------------------------------
(***************************************************************************)
(* The contract.  A call that would revert is not an action.               *)
(***************************************************************************)
Registered(s) == owner[s] # Nobody

\* The account the id names owns the service: what assertHORSServiceBinding asks for.
Bound(s) == owner[s] = s[1]

registerService(account, name, manifest) ==
  LET s == deriveServiceId(account, name) IN
  /\ ~Registered(s)
  /\ owner' = [owner EXCEPT ![s] = account]
  /\ version' = [version EXCEPT ![s] = 1]
  /\ content' = [content EXCEPT ![s] = manifest]
  /\ vouched' = [vouched EXCEPT ![s] = @ \cup {manifest}]

\* Mutant: the version stays as it is.
updatePolicyQuietly(account, s, manifest) ==
  /\ Registered(s) /\ owner[s] = account
  /\ content' = [content EXCEPT ![s] = manifest]
  /\ vouched' = IF Bound(s) THEN [vouched EXCEPT ![s] = @ \cup {manifest}] ELSE vouched
  /\ UNCHANGED <<owner, version>>

updatePolicy(account, s, manifest) ==
  /\ Registered(s) /\ owner[s] = account
  /\ version' = [version EXCEPT ![s] = @ + 1]
  /\ content' = [content EXCEPT ![s] = manifest]
  /\ vouched' = IF Bound(s) THEN [vouched EXCEPT ![s] = @ \cup {manifest}] ELSE vouched
  /\ UNCHANGED owner

\* Whoever gets a service gets its content with it.
transferOwnership(account, s, newOwner) ==
  /\ Registered(s) /\ owner[s] = account
  /\ owner' = [owner EXCEPT ![s] = newOwner]
  /\ vouched' = IF newOwner = s[1] THEN [vouched EXCEPT ![s] = @ \cup {content[s]}] ELSE vouched
  /\ UNCHANGED <<version, content>>

\* A call that no script makes: the contract takes any root and hash, so the manifest
\* may be one of enroll.ts or not, and need not be there to download.
CallByHand ==
  /\ \/ \E a \in Accounts, n \in Names, m \in stored \cup Foreign : registerService(a, n, m)
     \/ \E a \in Accounts, s \in Services, m \in stored \cup Foreign :
          version[s] < MaxVersion /\ updatePolicy(a, s, m)
     \/ \E a, b \in Accounts, s \in Services : a # b /\ transferOwnership(a, s, b)
  /\ UNCHANGED <<stored, step, seen>>

\* Anyone may upload to 0G Storage.
StoreByHand ==
  /\ \E m \in Foreign : stored' = stored \cup {m}
  /\ UNCHANGED <<contractVars, step, seen>>

-----------------------------------------------------------------------------
(***************************************************************************)
(* enroll.ts.                                                              *)
(***************************************************************************)
ServiceOf(r) == deriveServiceId(AccountOf[r], NameOf[r])

ManifestOf(r) ==
  [service |-> ServiceOf(r), functions |-> PolicyOf[r], version |-> seen[r] + 1]

\* readServicePolicy in a try: a service that is not registered and a read that failed
\* for any other reason both leave existingPolicyVersion at 0.
ReadVersion(r, reachable) ==
  /\ step[r] = "start"
  /\ step' = [step EXCEPT ![r] = "read"]
  /\ seen' = [seen EXCEPT ![r] = IF reachable THEN version[ServiceOf(r)] ELSE 0]
  /\ UNCHANGED <<contractVars, stored>>

\* uploadPolicyManifest; the run ends when it throws.
Upload(r) ==
  /\ step[r] = "read"
  /\ \/ step' = [step EXCEPT ![r] = "uploaded"] /\ stored' = stored \cup {ManifestOf(r)}
     \/ step' = [step EXCEPT ![r] = "failed"] /\ UNCHANGED stored
  /\ UNCHANGED <<contractVars, seen>>

\* The transaction of the run would not revert now.
Accepted(r) ==
  IF seen[r] > 0 THEN owner[ServiceOf(r)] = AccountOf[r] ELSE ~Registered(ServiceOf(r))

\* writeContract estimates gas, which throws when the call would revert; it does not
\* wait for the transaction, and the run goes on to write .env.
Send(r) ==
  /\ step[r] = "uploaded"
  /\ step' = [step EXCEPT ![r] = IF Accepted(r) THEN "sent" ELSE "failed"]
  /\ UNCHANGED <<contractVars, stored, seen>>

\* The transaction is mined, by then perhaps to revert; transactions of two runs are
\* mined in any order.
Mine(r) ==
  /\ step[r] = "sent"
  /\ IF Accepted(r)
       THEN /\ step' = [step EXCEPT ![r] = "mined"]
            /\ \/ seen[r] > 0 /\ updatePolicy(AccountOf[r], ServiceOf(r), ManifestOf(r))
               \/ seen[r] = 0 /\ registerService(AccountOf[r], NameOf[r], ManifestOf(r))
       ELSE /\ step' = [step EXCEPT ![r] = "reverted"]
            /\ UNCHANGED contractVars
  /\ UNCHANGED <<stored, seen>>

Enroll(r) ==
  \/ \E reachable \in BOOLEAN : ReadVersion(r, reachable)
  \/ Upload(r)
  \/ Send(r)
  \/ Mine(r)

RegistryNext == CallByHand \/ StoreByHand \/ \E r \in Runs : Enroll(r)

RegistrySpec == RegistryInit /\ [][RegistryNext]_registryVars

-----------------------------------------------------------------------------
(***************************************************************************)
(* Properties.                                                             *)
(***************************************************************************)

\* The version that a manifest enroll.ts made gives itself is never ahead of the version
\* the chain has for it, whichever runs of enroll.ts raced for it, whatever they failed to
\* read, and whichever of these manifests an owner commits to by hand.  Of a manifest that
\* somebody else made, nothing follows: the contract does not look at it.
ManifestNeverAhead ==
  \A s \in Services :
    Registered(s) /\ content[s].service = s /\ content[s] \notin Foreign =>
      content[s].version <= version[s]

\* A manifest of enroll.ts is at most one version ahead of its service.
StoredWithinReach ==
  /\ \A m \in stored \ Foreign : m.version <= version[m.service] + 1
  /\ \A r \in Runs : seen[r] <= version[ServiceOf(r)]

\* What the chain commits to can be downloaded or is not of enroll.ts; an id that is not
\* registered has no content and no version.
CommitsToStored ==
  \A s \in Services :
    /\ Registered(s) => content[s] \in stored \cup Foreign
    /\ ~Registered(s) => version[s] = 0
    /\ vouched[s] \subseteq stored \cup Foreign
    /\ Registered(s) /\ Bound(s) => content[s] \in vouched[s]

\* A run sends what it uploaded.
SendsWhatItUploaded ==
  \A r \in Runs : step[r] \in {"uploaded", "sent"} => ManifestOf(r) \in stored

RegistryIInv ==
  /\ RegistryTypeOK
  /\ StoredWithinReach
  /\ CommitsToStored
  /\ SendsWhatItUploaded
  /\ ManifestNeverAhead
=============================================================================
