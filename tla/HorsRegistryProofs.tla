------------------------- MODULE HorsRegistryProofs -------------------------
(***************************************************************************)
(* TLAPS proofs about HorsRegistry and the two components that read what   *)
(* it holds, HorsDiscovery and HorsBoot: for any accounts, names, policies *)
(* and runs of enroll.ts, any endpoints and commands, any humans, checks   *)
(* and clients, and any bounds.                                            *)
(***************************************************************************)
EXTENDS HorsDiscovery, HorsBoot, TLAPS

-----------------------------------------------------------------------------
(***************************************************************************)
(* The registry and its publishers.                                        *)
(***************************************************************************)
LEMMA RegistryInitHolds == RegistryInit => RegistryIInv
<1> SUFFICES ASSUME RegistryInit PROVE RegistryIInv
  OBVIOUS
<1>1. RegistryTypeOK
  BY DEF RegistryInit, RegistryTypeOK, Steps
<1>2. \A r \in Runs : ServiceOf(r) \in Services
  BY RegistryAssumption DEF ServiceOf, deriveServiceId, Services
<1>3. StoredWithinReach
  BY <1>2 DEF RegistryInit, StoredWithinReach
<1>4. CommitsToStored /\ SendsWhatItUploaded /\ ManifestNeverAhead
  BY RegistryAssumption
     DEF RegistryInit, CommitsToStored, SendsWhatItUploaded, ManifestNeverAhead, Registered
<1> QED
  BY <1>1, <1>3, <1>4 DEF RegistryIInv

\* What a run uploads is a manifest of its service.
LEMMA ManifestOfRun ==
  ASSUME RegistryTypeOK, NEW r \in Runs
  PROVE  /\ ServiceOf(r) \in Services
         /\ ManifestOf(r) \in Manifests
         /\ ManifestOf(r).service = ServiceOf(r)
         /\ ManifestOf(r).version = seen[r] + 1
BY RegistryAssumption
   DEF RegistryTypeOK, ServiceOf, deriveServiceId, Services, ManifestOf, Manifests

\* A transaction, whoever sends it, that commits to a manifest, stored or not of enroll.ts,
\* or changes only the owner.
Transaction ==
  \/ \E a \in Accounts, n \in Names, m \in stored \cup Foreign : registerService(a, n, m)
  \/ \E a \in Accounts, s \in Services, m \in stored \cup Foreign : updatePolicy(a, s, m)
  \/ \E a, b \in Accounts, s \in Services : transferOwnership(a, s, b)

\* Versions only grow, so what is within reach stays within reach, and the version a
\* transaction brings keeps up with the manifest it commits to.
LEMMA TransactionHolds ==
  ASSUME RegistryIInv, Transaction, UNCHANGED <<stored, seen>>,
         step' \in [Runs -> Steps],
         \A r \in Runs : step'[r] \in {"uploaded", "sent"} => step[r] \in {"uploaded", "sent"}
  PROVE  RegistryIInv'
<1> USE DEF RegistryIInv, RegistryTypeOK, Registered, Bound
<1>1. \A m \in stored \cup Foreign : m \in Manifests /\ m.service \in Services /\ m.version \in Nat
  BY ManifestAssumption DEF Manifests
<1>2. \A r \in Runs : ServiceOf(r) \in Services /\ ManifestOf(r)' = ManifestOf(r)
  BY ManifestOfRun DEF ManifestOf, ServiceOf
<1>3. SendsWhatItUploaded'
  BY <1>2 DEF SendsWhatItUploaded
<1>4. ASSUME RegistryTypeOK', \A s \in Services : version[s] <= version'[s]
      PROVE  StoredWithinReach'
  <2>1. \A m \in stored \ Foreign : m.version <= version'[m.service] + 1
    BY <1>1, <1>4 DEF StoredWithinReach
  <2>2. \A r \in Runs : seen[r] <= version'[ServiceOf(r)]
    BY <1>2, <1>4 DEF StoredWithinReach
  <2> QED
    BY <2>1, <2>2 DEF StoredWithinReach, ServiceOf
<1>5. CASE \E a \in Accounts, n \in Names, m \in stored \cup Foreign : registerService(a, n, m)
  <2>1. PICK a \in Accounts, n \in Names, m \in stored \cup Foreign : registerService(a, n, m)
    BY <1>5
  <2> DEFINE s == deriveServiceId(a, n)
  <2>2. s \in Services /\ s[1] = a /\ version[s] = 0 /\ ~Registered(s)
    BY <2>1 DEF registerService, deriveServiceId, Services, CommitsToStored
  <2> HIDE DEF s
  <2>3. /\ owner' = [owner EXCEPT ![s] = a]
        /\ version' = [version EXCEPT ![s] = 1]
        /\ content' = [content EXCEPT ![s] = m]
        /\ vouched' = [vouched EXCEPT ![s] = @ \cup {m}]
    BY <2>1 DEF registerService, s
  <2>4. RegistryTypeOK'
    BY <1>1, <2>1, <2>2, <2>3
  <2>5. StoredWithinReach'
    BY <1>4, <2>2, <2>3, <2>4
  <2>6. CommitsToStored'
    BY <2>2, <2>3, RegistryAssumption DEF CommitsToStored
  <2>7. ManifestNeverAhead'
    BY <2>2, <2>3 DEF ManifestNeverAhead, StoredWithinReach
  <2> QED
    BY <1>3, <2>4, <2>5, <2>6, <2>7
<1>6. CASE \E a \in Accounts, s \in Services, m \in stored \cup Foreign : updatePolicy(a, s, m)
  <2>1. PICK a \in Accounts, s \in Services, m \in stored \cup Foreign : updatePolicy(a, s, m)
    BY <1>6
  <2>2. RegistryTypeOK'
    BY <1>1, <2>1 DEF updatePolicy
  <2>3. StoredWithinReach'
    BY <1>4, <2>1, <2>2 DEF updatePolicy
  <2>4. CommitsToStored'
    BY <2>1 DEF updatePolicy, CommitsToStored
  <2>5. ManifestNeverAhead'
    BY <2>1 DEF updatePolicy, ManifestNeverAhead, StoredWithinReach
  <2> QED
    BY <1>3, <2>2, <2>3, <2>4, <2>5
<1>7. CASE \E a, b \in Accounts, s \in Services : transferOwnership(a, s, b)
  <2>1. PICK a \in Accounts, b \in Accounts, s \in Services : transferOwnership(a, s, b)
    BY <1>7
  <2>2. content[s] \in stored \cup Foreign /\ content[s] \in Manifests
    BY <1>1, <2>1 DEF transferOwnership, CommitsToStored
  <2>3. RegistryTypeOK'
    BY <2>1, <2>2 DEF transferOwnership
  <2>4. StoredWithinReach'
    BY <1>4, <2>1, <2>3 DEF transferOwnership
  <2>5. CommitsToStored'
    BY <2>1, <2>2, RegistryAssumption DEF transferOwnership, CommitsToStored
  <2>6. ManifestNeverAhead'
    BY <2>1 DEF transferOwnership, ManifestNeverAhead
  <2> QED
    BY <1>3, <2>3, <2>4, <2>5, <2>6
<1> QED
  BY <1>5, <1>6, <1>7 DEF Transaction

\* A run of enroll.ts.
LEMMA EnrollHolds == ASSUME RegistryIInv, NEW r \in Runs, Enroll(r) PROVE RegistryIInv'
<1> USE DEF RegistryIInv, RegistryTypeOK, Steps
<1>1. \A q \in Runs : ServiceOf(q) \in Services /\ ManifestOf(q) \in Manifests
  BY ManifestOfRun
<1>2. \A q \in Runs : ServiceOf(q)' = ServiceOf(q)
  BY DEF ServiceOf
<1>3. CASE \E reachable \in BOOLEAN : ReadVersion(r, reachable)
  <2>1. PICK reachable \in BOOLEAN : ReadVersion(r, reachable)
    BY <1>3
  <2>2. RegistryTypeOK' /\ seen'[r] <= version[ServiceOf(r)]
    BY <1>1, <2>1 DEF ReadVersion, contractVars
  <2>3. StoredWithinReach'
    BY <1>1, <1>2, <2>1, <2>2 DEF ReadVersion, contractVars, StoredWithinReach
  <2>4. CommitsToStored' /\ ManifestNeverAhead'
    BY <2>1
       DEF ReadVersion, contractVars, CommitsToStored, ManifestNeverAhead, Registered, Bound
  <2>5. SendsWhatItUploaded'
    BY <2>1 DEF ReadVersion, contractVars, SendsWhatItUploaded, ManifestOf, ServiceOf
  <2> QED
    BY <2>2, <2>3, <2>4, <2>5
<1>4. CASE Upload(r)
  <2>1. RegistryTypeOK' /\ stored \subseteq stored' /\ stored' \subseteq stored \cup {ManifestOf(r)}
    BY <1>1, <1>4 DEF Upload, contractVars
  <2>2. StoredWithinReach'
    <3>1. ManifestOf(r).version <= version[ManifestOf(r).service] + 1
      BY <1>1, ManifestOfRun DEF StoredWithinReach
    <3> QED
      BY <1>2, <1>4, <2>1, <3>1 DEF Upload, contractVars, StoredWithinReach
  <2>3. CommitsToStored' /\ ManifestNeverAhead'
    BY <1>4, <2>1
       DEF Upload, contractVars, CommitsToStored, ManifestNeverAhead, Registered, Bound
  <2>4. SendsWhatItUploaded'
    BY <1>4, <2>1 DEF Upload, contractVars, SendsWhatItUploaded, ManifestOf, ServiceOf
  <2> QED
    BY <2>1, <2>2, <2>3, <2>4
<1>5. CASE Send(r)
  <2>1. RegistryTypeOK' /\ UNCHANGED <<contractVars, stored, seen>>
    BY <1>5 DEF Send, contractVars
  <2>2. StoredWithinReach' /\ CommitsToStored' /\ ManifestNeverAhead'
    BY <1>2, <2>1
       DEF contractVars, StoredWithinReach, CommitsToStored, ManifestNeverAhead, Registered, Bound
  <2>3. SendsWhatItUploaded'
    BY <1>5, <2>1 DEF Send, SendsWhatItUploaded, ManifestOf, ServiceOf
  <2> QED
    BY <2>1, <2>2, <2>3
<1>6. CASE Mine(r)
  <2>1. /\ step' \in [Runs -> Steps]
        /\ \A q \in Runs :
             step'[q] \in {"uploaded", "sent"} => step[q] \in {"uploaded", "sent"}
        /\ UNCHANGED <<stored, seen>>
    BY <1>6 DEF Mine
  <2>2. ManifestOf(r) \in stored
    BY <1>6 DEF Mine, SendsWhatItUploaded
  <2>3. CASE Accepted(r)
    <3>1. Transaction
      BY <1>1, <1>6, <2>2, <2>3, RegistryAssumption DEF Mine, Transaction
    <3> QED
      BY <2>1, <3>1, TransactionHolds
  <2>4. CASE ~Accepted(r)
    <3>1. UNCHANGED <<contractVars, stored, seen>>
      BY <1>6, <2>4 DEF Mine
    <3>2. RegistryTypeOK'
      BY <2>1, <3>1 DEF contractVars
    <3>3. StoredWithinReach' /\ CommitsToStored' /\ ManifestNeverAhead'
      BY <1>2, <3>1
         DEF contractVars, StoredWithinReach, CommitsToStored, ManifestNeverAhead, Registered, Bound
    <3>4. SendsWhatItUploaded'
      BY <2>1, <3>1 DEF SendsWhatItUploaded, ManifestOf, ServiceOf
    <3> QED
      BY <3>2, <3>3, <3>4
  <2> QED
    BY <2>3, <2>4
<1> QED
  BY <1>3, <1>4, <1>5, <1>6 DEF Enroll

LEMMA RegistryStepHolds == RegistryIInv /\ [RegistryNext]_registryVars => RegistryIInv'
<1> SUFFICES ASSUME RegistryIInv, [RegistryNext]_registryVars PROVE RegistryIInv'
  OBVIOUS
<1>1. CASE CallByHand
  <2>1. Transaction /\ UNCHANGED <<stored, seen, step>>
    BY <1>1 DEF CallByHand, Transaction
  <2> QED
    BY <2>1, TransactionHolds DEF RegistryIInv, RegistryTypeOK
<1>2. CASE \E r \in Runs : Enroll(r)
  BY <1>2, EnrollHolds
<1>3. CASE StoreByHand
  <2>1. RegistryTypeOK' /\ UNCHANGED <<contractVars, step, seen>>
    BY <1>3, ManifestAssumption DEF StoreByHand, RegistryIInv, RegistryTypeOK, contractVars
  <2>2. stored \subseteq stored' /\ stored' \subseteq stored \cup Foreign
    BY <1>3 DEF StoreByHand
  <2>3. StoredWithinReach' /\ CommitsToStored' /\ ManifestNeverAhead'
    BY <2>1, <2>2
       DEF RegistryIInv, contractVars, StoredWithinReach, CommitsToStored, ManifestNeverAhead,
           Registered, Bound, ServiceOf
  <2>4. SendsWhatItUploaded'
    BY <2>1, <2>2 DEF RegistryIInv, SendsWhatItUploaded, ManifestOf, ServiceOf
  <2> QED
    BY <2>1, <2>3, <2>4 DEF RegistryIInv
<1>4. CASE UNCHANGED registryVars
  BY <1>4
     DEF registryVars, contractVars, RegistryIInv, RegistryTypeOK, StoredWithinReach, CommitsToStored,
         SendsWhatItUploaded, ManifestNeverAhead, Registered, Bound, ManifestOf, ServiceOf
<1> QED
  BY <1>1, <1>2, <1>3, <1>4 DEF RegistryNext

\* The inductive invariant of the registry and of enroll.ts.
THEOREM RegistryInvariant == RegistrySpec => []RegistryIInv
BY RegistryInitHolds, RegistryStepHolds, PTL DEF RegistrySpec

\* Runs of enroll.ts that race, or that fail to read the version, and owners who commit by
\* hand to what a run has uploaded, never bring the chain to a manifest of enroll.ts whose
\* version is ahead of the chain's.
THEOREM NeverAhead == RegistrySpec => []ManifestNeverAhead
<1>1. RegistryIInv => ManifestNeverAhead
  BY DEF RegistryIInv
<1> QED
  BY <1>1, RegistryInvariant, PTL

-----------------------------------------------------------------------------
(***************************************************************************)
(* Discovery, on top of the invariant of the registry.                     *)
(***************************************************************************)
LEMMA DiscoveryInitHolds == DiscoveryInit => DiscoveryIInv
<1> SUFFICES ASSUME DiscoveryInit PROVE DiscoveryIInv
  OBVIOUS
<1>1. RegistryIInv
  BY RegistryInitHolds DEF DiscoveryInit
<1>2. DiscoveryTypeOK
  BY DEF DiscoveryInit, DiscoveryTypeOK, Phases, Drafts, Blank
<1>3. DraftsArePublished
  BY DEF DiscoveryInit, DraftsArePublished, DraftIsPublished, Blank, Committed
<1>4. TextsArePublished /\ ServiceMeansVerified
  BY DEF DiscoveryInit, TextsArePublished, ServiceMeansVerified
<1>5. VerifiedEntryWasPublished /\ VerifiedFunctionsWereCommitted
  BY DEF DiscoveryInit, VerifiedEntryWasPublished, VerifiedFunctionsWereCommitted
<1> QED
  BY <1>1, <1>2, <1>3, <1>4, <1>5 DEF DiscoveryIInv

\* What was published, and what was committed to, stays so.
HistoryGrows ==
  /\ \A n \in Names : published[n] \subseteq published'[n]
  /\ \A s \in Services : vouched[s] \subseteq vouched'[s]

LEMMA PublishedStays ==
  ASSUME HistoryGrows, NEW n \in Names, NEW e, Published(n, e)
  PROVE  Published(n, e)'
BY DEF HistoryGrows, Published

\* The service of an entry with functions is one.
LEMMA FunctionsHaveService ==
  ASSUME NEW n, NEW e, e.verified => Published(n, e), Committed(e)
  PROVE  e.functions # Absent => e.service \in Services
BY DEF Published, Committed

\* A step of the owner or of the registry leaves the cache and the commands alone.
LEMMA WorldStepHolds ==
  ASSUME DiscoveryIInv, RegistryIInv', DiscoveryTypeOK', TextsArePublished', HistoryGrows,
         UNCHANGED <<cache, commandVars>>
  PROVE  DiscoveryIInv'
<1> USE DEF DiscoveryIInv
<1>1. \A c \in Commands : target[c] \in Names
  BY DEF DiscoveryTypeOK
<1>2. VerifiedEntryWasPublished'
  BY PublishedStays DEF VerifiedEntryWasPublished
<1>3. VerifiedFunctionsWereCommitted'
  <2> SUFFICES ASSUME NEW n \in Names, cache[n] # Absent PROVE Committed(cache[n])'
    BY DEF VerifiedFunctionsWereCommitted
  <2>1. /\ cache[n].verified => Published(n, cache[n])
        /\ Committed(cache[n])
    BY DEF VerifiedEntryWasPublished, VerifiedFunctionsWereCommitted
  <2>2. cache[n].functions # Absent => cache[n].service \in Services
    BY <2>1, FunctionsHaveService
  <2> QED
    BY <2>1, <2>2 DEF HistoryGrows, Committed
<1>4. ServiceMeansVerified'
  BY DEF ServiceMeansVerified
<1>5. DraftsArePublished'
  <2> SUFFICES ASSUME NEW c \in Commands PROVE DraftIsPublished(c)'
    BY DEF DraftsArePublished
  <2> USE DEF commandVars
  <2>1. DraftIsPublished(c)
    BY DEF DraftsArePublished
  <2>2. /\ draft'[c].verified => Published(target[c], draft[c])'
        /\ Committed(draft[c])'
    <3>1. draft[c].functions # Absent => draft[c].service \in Services
      BY <2>1, FunctionsHaveService DEF DraftIsPublished
    <3> QED
      BY <1>1, <2>1, <3>1 DEF HistoryGrows, DraftIsPublished, Published, Committed
  <2>3. phase'[c] = "downloading" => committed'[c] \in vouched'[draft[c].service]
    BY <2>1 DEF HistoryGrows, DraftIsPublished, Published
  <2>4. /\ draft'[c].endpoint # Absent => draft'[c].endpoint \in published'[target[c]]
        /\ draft'[c].service # Absent => draft'[c].service \in published'[target[c]]
    BY <1>1, <2>1 DEF HistoryGrows, DraftIsPublished
  <2> QED
    BY <2>1, <2>2, <2>3, <2>4 DEF DraftIsPublished
<1> QED
  BY <1>2, <1>3, <1>4, <1>5

LEMMA RegistryGrows ==
  ASSUME RegistryTypeOK, RegistryNext
  PROVE  \A s \in Services : vouched[s] \subseteq vouched'[s]
BY DEF RegistryTypeOK, RegistryNext, CallByHand, StoreByHand, Enroll, ReadVersion, Upload, Send, Mine,
       contractVars, registerService, updatePolicy, transferOwnership

LEMMA RegistryActionHolds ==
  ASSUME DiscoveryIInv, RegistryNext, UNCHANGED <<textVars, cache, commandVars>>
  PROVE  DiscoveryIInv'
<1>1. RegistryIInv'
  BY RegistryStepHolds DEF DiscoveryIInv
<1>2. HistoryGrows
  BY RegistryGrows DEF HistoryGrows, DiscoveryIInv, RegistryIInv, textVars
<1>3. DiscoveryTypeOK' /\ TextsArePublished'
  BY DEF DiscoveryIInv, DiscoveryTypeOK, TextsArePublished, textVars, commandVars
<1> QED
  BY <1>1, <1>2, <1>3, WorldStepHolds

LEMMA RegistryIInvStays ==
  ASSUME RegistryIInv, UNCHANGED registryVars PROVE RegistryIInv'
BY RegistryStepHolds

LEMMA SetTextHolds ==
  ASSUME DiscoveryIInv, NEW n \in Names, SetText(n) PROVE DiscoveryIInv'
<1>1. RegistryIInv'
  BY RegistryIInvStays DEF SetText, DiscoveryIInv
<1>2. HistoryGrows
  BY DEF SetText, HistoryGrows, DiscoveryIInv, DiscoveryTypeOK, registryVars, contractVars
<1>3. DiscoveryTypeOK' /\ TextsArePublished'
  BY DEF SetText, DiscoveryIInv, DiscoveryTypeOK, TextsArePublished, commandVars
<1> QED
  BY <1>1, <1>2, <1>3, WorldStepHolds DEF SetText

\* A command changes what it has itself, and no more.
LEMMA DraftStepHolds ==
  ASSUME DiscoveryIInv, NEW c \in Commands,
         UNCHANGED <<registryVars, textVars, cache, target>>,
         DiscoveryTypeOK', DraftIsPublished(c)',
         \A d \in Commands \ {c} :
           phase'[d] = phase[d] /\ draft'[d] = draft[d] /\ committed'[d] = committed[d]
  PROVE  DiscoveryIInv'
<1> USE DEF DiscoveryIInv, registryVars, contractVars, textVars
<1>1. RegistryIInv'
  BY RegistryIInvStays
<1>2. DraftsArePublished'
  <2> SUFFICES ASSUME NEW d \in Commands, d # c PROVE DraftIsPublished(d)'
    BY DEF DraftsArePublished
  <2> QED
    BY DEF DraftsArePublished, DraftIsPublished, Published, Committed
<1>3. TextsArePublished' /\ ServiceMeansVerified'
  BY DEF TextsArePublished, ServiceMeansVerified
<1>4. VerifiedEntryWasPublished' /\ VerifiedFunctionsWereCommitted'
  BY DEF VerifiedEntryWasPublished, VerifiedFunctionsWereCommitted, Published, Committed
<1> QED
  BY <1>1, <1>2, <1>3, <1>4

LEMMA EndIsPublished ==
  ASSUME DiscoveryTypeOK, NEW c \in Commands, End(c)
  PROVE  /\ phase' \in [Commands -> Phases]
         /\ draft' \in [Commands -> Drafts]
         /\ committed' \in [Commands -> Manifests \cup {NoManifest}]
         /\ phase'[c] = "done" /\ draft'[c] = Blank
         /\ \A d \in Commands \ {c} :
              phase'[d] = phase[d] /\ draft'[d] = draft[d] /\ committed'[d] = committed[d]
BY DEF DiscoveryTypeOK, End, Goto, Phases, Drafts, Blank

\* A command that ends has nothing left to write.
LEMMA EndHolds ==
  ASSUME DiscoveryIInv, NEW c \in Commands, End(c),
         UNCHANGED <<registryVars, textVars, cache, target>>
  PROVE  DiscoveryIInv'
<1>1. DiscoveryTypeOK'
  BY EndIsPublished DEF DiscoveryIInv, DiscoveryTypeOK, textVars
<1>2. DraftIsPublished(c)'
  BY EndIsPublished DEF DiscoveryIInv, DraftIsPublished, Blank, Committed
<1> QED
  BY <1>1, <1>2, EndIsPublished, DraftStepHolds DEF DiscoveryIInv

LEMMA ResolveTextHolds ==
  ASSUME DiscoveryIInv, NEW c \in Commands, ResolveText(c) PROVE DiscoveryIInv'
<1> USE DEF DiscoveryIInv
<1> DEFINE n == target[c]
<1>1. n \in Names /\ DraftIsPublished(c)
  BY DEF DiscoveryTypeOK, DraftsArePublished
<1>2. ~draft[c].verified \/ Published(n, draft[c])
  BY <1>1 DEF DraftIsPublished
<1>3. Absent \notin Endpoints /\ Absent \notin Services
  BY DiscoveryAssumption
<1>4. CASE draft[c].endpoint = Absent /\ endpointText[n] # Absent
           /\ draft' = [draft EXCEPT ![c].endpoint = endpointText[n]]
           /\ Goto(c, IF draft[c].service = Absent THEN "resolving" ELSE "resolved")
           /\ UNCHANGED committed
  <2>1. DiscoveryTypeOK'
    BY <1>1, <1>4 DEF ResolveText, DiscoveryTypeOK, Goto, Phases, Drafts, textVars
  <2>2. ~draft[c].verified
    BY <1>1, <1>2, <1>4, <1>3 DEF Published, DiscoveryTypeOK, TextsArePublished
  <2>3. DraftIsPublished(c)'
    BY <1>1, <1>3, <1>4, <2>2
       DEF ResolveText, DraftIsPublished, DiscoveryTypeOK, Drafts, TextsArePublished, Committed,
           Goto, textVars, registryVars, contractVars
  <2> QED
    BY <1>4, <2>1, <2>3, DraftStepHolds DEF ResolveText, DiscoveryTypeOK, Goto
<1>5. CASE draft[c].service = Absent /\ idText[n] # Absent
           /\ draft' = [draft EXCEPT ![c].service = idText[n]]
           /\ Goto(c, IF draft[c].endpoint = Absent THEN "resolving" ELSE "resolved")
           /\ UNCHANGED committed
  <2>1. DiscoveryTypeOK'
    BY <1>1, <1>5 DEF ResolveText, DiscoveryTypeOK, Goto, Phases, Drafts, textVars
  <2>2. ~draft[c].verified
    BY <1>1, <1>2, <1>5, <1>3 DEF Published
  <2>3. DraftIsPublished(c)'
    BY <1>1, <1>3, <1>5, <2>2
       DEF ResolveText, DraftIsPublished, DiscoveryTypeOK, Drafts, TextsArePublished, Committed,
           Goto, textVars, registryVars, contractVars
  <2> QED
    BY <1>5, <2>1, <2>3, DraftStepHolds DEF ResolveText, DiscoveryTypeOK, Goto
<1>6. CASE End(c)
  BY <1>6, EndHolds DEF ResolveText
<1> QED
  BY <1>4, <1>5, <1>6 DEF ResolveText

\* The binding check finds the account of the id as the owner, so what the registry has
\* for the service is among what that account vouched for.
LEMMA BoundIsVouched ==
  ASSUME RegistryIInv, NEW s \in Services, NEW n \in Names, BoundTo(s, n)
  PROVE  s[2] = n /\ content[s] \in vouched[s]
<1>1. s[1] = owner[s] /\ s[2] = n
  BY DEF BoundTo, deriveServiceId
<1> QED
  BY <1>1 DEF RegistryIInv, CommitsToStored, BoundTo, Bound

LEMMA VerifyHolds ==
  ASSUME DiscoveryIInv, NEW c \in Commands, verifyHORSServiceRegistration(c)
  PROVE  DiscoveryIInv'
<1> USE DEF DiscoveryIInv
<1> DEFINE s == draft[c].service
<1>1. target[c] \in Names /\ DraftIsPublished(c)
  BY DEF DiscoveryTypeOK, DraftsArePublished
<1>2. CASE BoundTo(s, target[c])
  <2>1. s \in Services
    BY <1>1 DEF verifyHORSServiceRegistration, DraftIsPublished, DiscoveryTypeOK, Drafts
  <2>2. Published(target[c], draft[c])
    BY <1>1, <1>2, <2>1, BoundIsVouched
       DEF verifyHORSServiceRegistration, DraftIsPublished, Published
  <2>3. /\ Goto(c, "ready") /\ UNCHANGED committed
        /\ draft' = [draft EXCEPT ![c].verified = TRUE]
    BY <1>2 DEF verifyHORSServiceRegistration
  <2>4. DiscoveryTypeOK'
    BY <2>3 DEF verifyHORSServiceRegistration, DiscoveryTypeOK, Goto, Phases, Drafts, textVars
  <2>5. /\ draft'[c].endpoint = draft[c].endpoint /\ draft'[c].service = s
        /\ draft'[c].functions = draft[c].functions /\ draft'[c].verified
        /\ phase'[c] = "ready"
    BY <2>3 DEF DiscoveryTypeOK, Drafts, Goto
  <2>6. DraftIsPublished(c)'
    BY <1>1, <2>2, <2>5
       DEF verifyHORSServiceRegistration, DraftIsPublished, Published, Committed,
           textVars, registryVars, contractVars
  <2> QED
    BY <2>3, <2>4, <2>6, DraftStepHolds DEF verifyHORSServiceRegistration, DiscoveryTypeOK, Goto
<1>3. CASE ~BoundTo(s, target[c])
  BY <1>3, EndHolds DEF verifyHORSServiceRegistration
<1> QED
  BY <1>2, <1>3

LEMMA DiscoverHolds ==
  ASSUME DiscoveryIInv, NEW c \in Commands, Discover(c) PROVE DiscoveryIInv'
<1> USE DEF DiscoveryIInv
<1>1. DiscoveryTypeOK'
  BY DEF Discover, DiscoveryTypeOK, Goto, Phases, textVars
<1>2. DraftIsPublished(c)'
  BY DEF Discover, DraftsArePublished, DraftIsPublished, Published, Committed, DiscoveryTypeOK,
         Goto, textVars, registryVars, contractVars
<1> QED
  BY <1>1, <1>2, DraftStepHolds DEF Discover, DiscoveryTypeOK, Goto

\* list-functions copies an entry, and an entry with a serviceId is verified.
LEMMA ListFunctionsHolds ==
  ASSUME DiscoveryIInv, NEW c \in Commands, ListFunctions(c) PROVE DiscoveryIInv'
<1> USE DEF DiscoveryIInv
<1> DEFINE e == cache[target[c]]
<1>1. target[c] \in Names /\ e \in Entries /\ e # Absent /\ e.service # Absent
  BY DEF ListFunctions, DiscoveryTypeOK
<1>2. e.verified /\ Published(target[c], e) /\ Committed(e)
  BY <1>1 DEF ServiceMeansVerified, VerifiedEntryWasPublished, VerifiedFunctionsWereCommitted
<1>3. e \in Drafts
  BY <1>1 DEF Entries, Drafts
<1>4. draft'[c] = e /\ phase'[c] = "refreshing"
  BY DEF ListFunctions, DiscoveryTypeOK, Goto
<1>5. DiscoveryTypeOK'
  BY <1>3 DEF ListFunctions, DiscoveryTypeOK, Goto, Phases, textVars
<1>6. DraftIsPublished(c)'
  BY <1>2, <1>4
     DEF ListFunctions, DraftIsPublished, Published, Committed, textVars, registryVars, contractVars
<1> QED
  BY <1>5, <1>6, DraftStepHolds DEF ListFunctions, DiscoveryTypeOK, Goto

LEMMA ReadRecordHolds ==
  ASSUME DiscoveryIInv, NEW c \in Commands, ReadRecord(c) PROVE DiscoveryIInv'
<1> USE DEF DiscoveryIInv
<1> DEFINE s == draft[c].service
<1>1. target[c] \in Names /\ DraftIsPublished(c)
  BY DEF DiscoveryTypeOK, DraftsArePublished
<1>2. CASE BoundTo(s, target[c])
  <2>1. s \in Services
    BY <1>1 DEF ReadRecord, DraftIsPublished, Published
  <2>2. content[s] \in vouched[s]
    BY <1>1, <1>2, <2>1, BoundIsVouched
  <2>3. /\ Goto(c, "downloading") /\ UNCHANGED draft
        /\ committed' = [committed EXCEPT ![c] = content[s]]
    BY <1>2 DEF ReadRecord
  <2>4. DiscoveryTypeOK'
    BY <2>1, <2>3 DEF ReadRecord, DiscoveryTypeOK, RegistryIInv, RegistryTypeOK, Goto, Phases, textVars
  <2>5. DraftIsPublished(c)'
    BY <1>1, <2>2, <2>3
       DEF ReadRecord, DraftIsPublished, Published, Committed, DiscoveryTypeOK, Goto,
           textVars, registryVars, contractVars
  <2> QED
    BY <2>3, <2>4, <2>5, DraftStepHolds DEF ReadRecord, DiscoveryTypeOK, Goto
<1>3. CASE ~BoundTo(s, target[c])
  BY <1>3, EndHolds DEF ReadRecord
<1> QED
  BY <1>2, <1>3

\* The manifest that hashes to what the registry had is one the service committed to.
LEMMA DownloadHolds ==
  ASSUME DiscoveryIInv, NEW c \in Commands, Download(c) PROVE DiscoveryIInv'
<1> USE DEF DiscoveryIInv
<1> DEFINE s == draft[c].service
<1>1. target[c] \in Names /\ DraftIsPublished(c)
  BY DEF DiscoveryTypeOK, DraftsArePublished
<1>2. PICK m \in stored : IF m = committed[c] THEN Accept(c, m) ELSE End(c)
  BY DEF Download
<1>3. CASE End(c)
  BY <1>3, EndHolds DEF Download
<1>4. CASE m = committed[c] /\ ~End(c)
  <2>1. /\ m.service = s
        /\ Goto(c, "ready")
        /\ draft' = [draft EXCEPT ![c].verified = TRUE, ![c].functions = m.functions]
        /\ committed' = [committed EXCEPT ![c] = NoManifest]
    BY <1>2, <1>4 DEF Accept
  <2>2. m.functions \in Policies
    BY DEF RegistryIInv, RegistryTypeOK, Manifests
  <2>3. m \in vouched[s] /\ Published(target[c], draft[c])
    BY <1>1, <1>4 DEF Download, DraftIsPublished
  <2>4. DiscoveryTypeOK'
    BY <2>1, <2>2 DEF Download, DiscoveryTypeOK, Goto, Phases, Drafts, textVars
  <2>5. /\ draft'[c].endpoint = draft[c].endpoint /\ draft'[c].service = s
        /\ draft'[c].functions = m.functions /\ draft'[c].verified
        /\ phase'[c] = "ready"
    BY <2>1 DEF DiscoveryTypeOK, Drafts, Goto
  <2>6. DraftIsPublished(c)'
    BY <1>1, <2>1, <2>3, <2>5
       DEF Download, DraftIsPublished, Published, Committed, textVars, registryVars, contractVars
  <2> QED
    BY <2>1, <2>4, <2>6, DraftStepHolds DEF Download, DiscoveryTypeOK, Goto
<1> QED
  BY <1>2, <1>3, <1>4

\* An entry that is written to the cache: a command's own, or a manual one.
LEMMA CacheStepHolds ==
  ASSUME DiscoveryIInv, NEW n \in Names, NEW e \in Entries,
         cache' = [cache EXCEPT ![n] = e], UNCHANGED <<registryVars, textVars>>,
         e.service # Absent => e.verified,
         e.verified => Published(n, e), Committed(e),
         DiscoveryTypeOK', DraftsArePublished'
  PROVE  DiscoveryIInv'
<1> USE DEF DiscoveryIInv, registryVars, contractVars, textVars
<1>1. RegistryIInv'
  BY RegistryIInvStays
<1>2. \A m \in Names : cache'[m] = IF m = n THEN e ELSE cache[m]
  BY DEF DiscoveryTypeOK
<1>3. TextsArePublished' /\ ServiceMeansVerified'
  BY <1>2 DEF TextsArePublished, ServiceMeansVerified
<1>4. VerifiedEntryWasPublished'
  BY <1>2 DEF VerifiedEntryWasPublished, Published
<1>5. VerifiedFunctionsWereCommitted'
  BY <1>2 DEF VerifiedFunctionsWereCommitted, Committed
<1> QED
  BY <1>1, <1>3, <1>4, <1>5

LEMMA upsertServiceHolds ==
  ASSUME DiscoveryIInv, NEW c \in Commands, upsertService(c) PROVE DiscoveryIInv'
<1> USE DEF DiscoveryIInv
<1> DEFINE e == draft[c]
<1>1. target[c] \in Names /\ DraftIsPublished(c)
  BY DEF DiscoveryTypeOK, DraftsArePublished
<1>2. e.verified /\ Published(target[c], e) /\ Committed(e)
  BY <1>1 DEF upsertService, DraftIsPublished
<1>3. e \in Entries
  BY <1>2, <1>1, DiscoveryAssumption DEF Published, DiscoveryTypeOK, Drafts, Entries
<1>4. DiscoveryTypeOK'
  BY <1>1, <1>3, EndIsPublished DEF upsertService, DiscoveryTypeOK, textVars
<1>5. DraftsArePublished'
  <2> SUFFICES ASSUME NEW d \in Commands PROVE DraftIsPublished(d)'
    BY DEF DraftsArePublished
  <2>1. CASE d = c
    BY <2>1, EndIsPublished DEF upsertService, DraftIsPublished, Blank, Committed
  <2>2. CASE d # c
    BY <2>2, EndIsPublished
       DEF upsertService, DraftsArePublished, DraftIsPublished, Published, Committed,
           textVars, registryVars, contractVars
  <2> QED
    BY <2>1, <2>2
<1> QED
  BY <1>1, <1>2, <1>3, <1>4, <1>5, CacheStepHolds DEF upsertService

LEMMA OverrideHolds ==
  ASSUME DiscoveryIInv, NEW n \in Names, NEW u \in Endpoints, OverrideEndpoint(n, u)
  PROVE  DiscoveryIInv'
<1> USE DEF DiscoveryIInv
<1> DEFINE e == [Blank EXCEPT !.endpoint = u]
<1>1. e \in Entries /\ e.service = Absent /\ ~e.verified /\ e.functions = Absent
  BY DEF Entries, Blank
<1>2. DiscoveryTypeOK'
  BY <1>1 DEF OverrideEndpoint, DiscoveryTypeOK, textVars, commandVars
<1>3. DraftsArePublished'
  BY DEF OverrideEndpoint, DraftsArePublished, DraftIsPublished, Published, Committed,
         textVars, registryVars, contractVars, commandVars
<1> QED
  BY <1>1, <1>2, <1>3, CacheStepHolds DEF OverrideEndpoint, Committed

LEMMA DiscoveryStepHolds == DiscoveryIInv /\ [DiscoveryNext]_discoveryVars => DiscoveryIInv'
<1> SUFFICES ASSUME DiscoveryIInv, [DiscoveryNext]_discoveryVars PROVE DiscoveryIInv'
  OBVIOUS
<1>1. CASE RegistryNext /\ UNCHANGED <<textVars, cache, commandVars>>
  BY <1>1, RegistryActionHolds
<1>2. CASE \E n \in Names : SetText(n)
  BY <1>2, SetTextHolds
<1>3. CASE \E n \in Names, u \in Endpoints : OverrideEndpoint(n, u)
  BY <1>3, OverrideHolds
<1>4. CASE \E c \in Commands : Command(c)
  BY <1>4, DiscoverHolds, ResolveTextHolds, VerifyHolds, ListFunctionsHolds, ReadRecordHolds,
     DownloadHolds, upsertServiceHolds DEF Command
<1>5. CASE UNCHANGED discoveryVars
  <2>1. UNCHANGED <<registryVars, textVars, cache, commandVars>>
    BY <1>5 DEF discoveryVars
  <2>2. RegistryIInv' /\ HistoryGrows
    BY <2>1, RegistryIInvStays
       DEF DiscoveryIInv, HistoryGrows, registryVars, contractVars, textVars
  <2>3. DiscoveryTypeOK' /\ TextsArePublished'
    BY <2>1 DEF DiscoveryIInv, DiscoveryTypeOK, TextsArePublished, textVars, commandVars
  <2> QED
    BY <2>1, <2>2, <2>3, WorldStepHolds
<1> QED
  BY <1>1, <1>2, <1>3, <1>4, <1>5 DEF DiscoveryNext

\* The inductive invariant of the cache and of the commands that fill it.
THEOREM DiscoveryInvariant == DiscoverySpec => []DiscoveryIInv
BY DiscoveryInitHolds, DiscoveryStepHolds, PTL DEF DiscoverySpec

\* What the cache calls verified was published, however commands, owners and overrides
\* interleave.
THEOREM CacheIsPublished == DiscoverySpec => []VerifiedEntryWasPublished
<1>1. DiscoveryIInv => VerifiedEntryWasPublished
  BY DEF DiscoveryIInv
<1> QED
  BY <1>1, DiscoveryInvariant, PTL

\* The functions the cache shows were committed to.
THEOREM CacheIsCommitted == DiscoverySpec => []VerifiedFunctionsWereCommitted
<1>1. DiscoveryIInv => VerifiedFunctionsWereCommitted
  BY DEF DiscoveryIInv
<1> QED
  BY <1>1, DiscoveryInvariant, PTL

-----------------------------------------------------------------------------
(***************************************************************************)
(* Enrollment, start and calls, on top of the invariant of the registry.   *)
(***************************************************************************)
Enrolled == {"enrolled", "kept", "lost"}

LEMMA BootInitHolds == BootInit => BootIInv
<1> SUFFICES ASSUME BootInit PROVE BootIInv
  OBVIOUS
<1>1. RegistryIInv
  BY RegistryInitHolds DEF BootInit
<1>2. NewCheck \in CheckStates
  BY DEF NewCheck, CheckStates
<1>3. BootTypeOK
  BY <1>2 DEF BootInit, BootTypeOK
<1>4. \A e \in Checks : check[e].at = "new"
  BY DEF BootInit, NewCheck
<1>5. RecordsTestify /\ SpentForRecords
  BY <1>4 DEF BootInit, RecordsTestify, SpentForRecords, EnrolledOnce
<1>6. RunsAsPublished /\ HoldsVouched
  BY DEF BootInit, RunsAsPublished, HoldsVouched
<1> QED
  BY <1>1, <1>3, <1>5, <1>6 DEF BootIInv

\* The parts of the invariant speak of different variables.
LEMMA RegistryKept == ASSUME RegistryIInv, UNCHANGED registryVars PROVE RegistryIInv'
BY RegistryStepHolds

\* A service keeps what it was vouched for.
LEMMA VouchedGrows ==
  ASSUME RegistryIInv, RegistryNext
  PROVE  \A s \in Services : vouched[s] \subseteq vouched'[s]
BY DEF RegistryIInv, RegistryTypeOK, RegistryNext, CallByHand, StoreByHand, Enroll, ReadVersion, Upload, Send, Mine,
       contractVars, registerService, updatePolicy, transferOwnership

LEMMA PublishHolds == ASSUME BootIInv, Publish PROVE BootIInv'
<1>1. RegistryNext /\ UNCHANGED <<scene, enrollVars, server, callVars>>
  BY DEF Publish, RegistryNext
<1>2. RegistryIInv'
  BY <1>1, RegistryStepHolds DEF BootIInv
<1>3. BootTypeOK'
  BY <1>1 DEF BootIInv, BootTypeOK, enrollVars, callVars
<1>4. RecordsTestify' /\ SpentForRecords'
  BY <1>1 DEF BootIInv, RecordsTestify, RecordOf, SpentForRecords, EnrolledOnce, enrollVars
<1>5. RunsAsPublished'
  BY <1>1 DEF BootIInv, RunsAsPublished, enrollVars
<1>6. HoldsVouched'
  <2>1. \A c \in Clients : held[c] # Undefined => held[c].service \in Services
    BY DEF BootIInv, BootTypeOK, Holdings
  <2> QED
    BY <1>1, <2>1, VouchedGrows DEF BootIInv, HoldsVouched, callVars
<1> QED
  BY <1>2, <1>3, <1>4, <1>5, <1>6 DEF BootIInv

-----------------------------------------------------------------------------
(***************************************************************************)
(* Enrollment.                                                             *)
(***************************************************************************)
\* What the parts of the invariant that enrollment leaves alone need.
LEMMA EnrollmentFrame ==
  ASSUME BootIInv, UNCHANGED <<registryVars, scene, server, callVars>>,
         records \subseteq records', BootTypeOK', RecordsTestify', SpentForRecords'
  PROVE  BootIInv'
<1>1. RegistryIInv'
  BY RegistryKept DEF BootIInv
<1>2. RunsAsPublished'
  BY DEF BootIInv, RunsAsPublished, MatchesManifest
<1>3. HoldsVouched'
  BY DEF BootIInv, HoldsVouched, callVars, registryVars, contractVars
<1> QED
  BY <1>1, <1>2, <1>3 DEF BootIInv

LEMMA NamesHolds ==
  ASSUME BootIInv, NEW a \in Accounts, NEW h \in Humans \cup {NoHuman}, AgentBookNames(a, h)
  PROVE  BootIInv'
<1>1. BootTypeOK'
  BY DEF AgentBookNames, BootIInv, BootTypeOK, callVars
<1>2. RecordsTestify'
  BY DEF AgentBookNames, BootIInv, RecordsTestify, RecordOf
<1>3. SpentForRecords'
  BY DEF AgentBookNames, BootIInv, SpentForRecords, EnrolledOnce
<1> QED
  BY <1>1, <1>2, <1>3, EnrollmentFrame DEF AgentBookNames

LEMMA InitiateHolds ==
  ASSUME BootIInv, NEW a \in Accounts, NEW s \in Services, NEW h \in Humans, Initiate(a, s, h)
  PROVE  BootIInv'
<1>1. book[a] \in Humans /\ book[a] \in named
  BY DEF Initiate, BootIInv, BootTypeOK, RecordsTestify
<1>2. BootTypeOK'
  BY <1>1 DEF Initiate, BootIInv, BootTypeOK, Proofs, callVars
<1>3. RecordsTestify'
  BY <1>1 DEF Initiate, BootIInv, RecordsTestify, RecordOf
<1>4. SpentForRecords'
  BY DEF Initiate, BootIInv, SpentForRecords, EnrolledOnce
<1> QED
  BY <1>2, <1>3, <1>4, EnrollmentFrame DEF Initiate

\* One check moves on, and the others stay.
LEMMA CheckMoves ==
  ASSUME BootTypeOK, NEW e \in Checks, NEW c \in CheckStates,
         check' = [check EXCEPT ![e] = c]
  PROVE  /\ check' \in [Checks -> CheckStates]
         /\ check'[e] = c
         /\ \A f \in Checks \ {e} : check'[f] = check[f]
BY DEF BootTypeOK

LEMMA LookHolds ==
  ASSUME BootIInv, NEW e \in Checks, NEW a \in Accounts, NEW s \in Services, NEW p \in proofs,
         Look(e, a, s, p)
  PROVE  BootIInv'
<1> DEFINE c == IF book[a] = NoHuman THEN [NewCheck EXCEPT !.at = "failed"]
                ELSE [at |-> "asking", service |-> s, human |-> book[a], proof |-> p]
<1>1. p \in Proofs /\ (book[a] # NoHuman => book[a] \in Humans)
  BY DEF BootIInv, BootTypeOK
<1>2. c \in CheckStates
  BY <1>1 DEF CheckStates, NewCheck
<1>3. /\ c.at \in {"asking", "failed"}
      /\ c.at = "asking" => c.proof \in proofs /\ c.service \in Services /\ c.human \in Humans
  BY <1>1 DEF NewCheck
<1>4. check' = [check EXCEPT ![e] = c]
  BY DEF Look
<1> HIDE DEF c
<1>5. /\ check' \in [Checks -> CheckStates] /\ check'[e] = c
      /\ \A f \in Checks \ {e} : check'[f] = check[f]
  BY <1>2, <1>4, CheckMoves DEF BootIInv
<1>6. BootTypeOK'
  BY <1>5 DEF Look, BootIInv, BootTypeOK, callVars
<1>7. RecordsTestify'
  BY <1>3, <1>5 DEF Look, BootIInv, RecordsTestify, RecordOf
<1>8. check[e].at = "new"
  BY DEF Look
<1>9. SpentForRecords'
  BY <1>3, <1>5, <1>8 DEF Look, BootIInv, SpentForRecords, EnrolledOnce
<1> QED
  BY <1>6, <1>7, <1>9, EnrollmentFrame DEF Look

\* A check that fails spends nothing.
LEMMA FailHolds ==
  ASSUME BootIInv, NEW e \in Checks, check[e].at = "asking", CheckFails(e),
         UNCHANGED <<registryVars, scene, book, named, proofs, spent, records, server, callVars>>
  PROVE  BootIInv'
<1> DEFINE c == [NewCheck EXCEPT !.at = "failed"]
<1>1. c \in CheckStates /\ c.at = "failed"
  BY DEF CheckStates, NewCheck
<1>2. check' = [check EXCEPT ![e] = c]
  BY DEF CheckFails
<1> HIDE DEF c
<1>3. /\ check' \in [Checks -> CheckStates] /\ check'[e] = c
      /\ \A f \in Checks \ {e} : check'[f] = check[f]
  BY <1>1, <1>2, CheckMoves DEF BootIInv
<1>4. BootTypeOK'
  BY <1>3 DEF BootIInv, BootTypeOK, callVars
<1>5. RecordsTestify'
  BY <1>1, <1>3 DEF BootIInv, RecordsTestify, RecordOf
<1>6. SpentForRecords'
  BY <1>1, <1>3 DEF BootIInv, SpentForRecords, EnrolledOnce
<1> QED
  BY <1>4, <1>5, <1>6, EnrollmentFrame

\* A check that succeeds spends a nullifier nobody has spent.
LEMMA JudgeHolds == ASSUME BootIInv, NEW e \in Checks, Judge(e) PROVE BootIInv'
<1>1. check[e].at = "asking" /\ check[e] \in CheckStates
  BY DEF Judge, BootIInv, BootTypeOK
<1>2. CASE CheckFails(e) /\ UNCHANGED spent
  BY <1>1, <1>2, FailHolds DEF Judge
<1>3. CASE /\ ProofFits(e)
           /\ HasStore => Nullifier(check[e].proof) \notin spent
           /\ spent' = IF HasStore THEN spent \cup {Nullifier(check[e].proof)} ELSE spent
           /\ check' = [check EXCEPT ![e].at = "enrolled"]
  <2> DEFINE c == [check[e] EXCEPT !.at = "enrolled"]
  <2>1. /\ c \in CheckStates /\ c.at = "enrolled"
        /\ c.proof = check[e].proof /\ c.service = check[e].service /\ c.human = check[e].human
    BY <1>1 DEF CheckStates
  <2>2. check' = [check EXCEPT ![e] = c]
    BY <1>3
  <2> HIDE DEF c
  <2>3. /\ check' \in [Checks -> CheckStates] /\ check'[e] = c
        /\ \A f \in Checks \ {e} : check'[f] = check[f]
    BY <2>1, <2>2, CheckMoves DEF BootIInv
  <2>4. check[e].proof \in proofs /\ check[e].proof \in Proofs
    BY <1>1 DEF BootIInv, RecordsTestify, BootTypeOK
  <2>5. UNCHANGED <<registryVars, scene, book, named, proofs, records, server, callVars>>
    BY DEF Judge
  <2>6. Nullifier(check[e].proof) \in Humans \X Services
    BY <2>4 DEF Nullifier, Proofs
  <2>7. BootTypeOK'
    BY <1>3, <2>3, <2>5, <2>6 DEF BootIInv, BootTypeOK, callVars
  <2>8. RecordOf(e)' = check[e].proof
    BY <1>3, <2>1, <2>3, <2>4 DEF RecordOf, ProofFits, Proofs
  <2>9. RecordsTestify'
    BY <2>1, <2>3, <2>4, <2>5, <2>8 DEF BootIInv, RecordsTestify, RecordOf
  <2>10. SpentForRecords'
    <3>1. SUFFICES ASSUME HasStore PROVE SpentForRecords'
      BY DEF SpentForRecords
    <3>2. /\ Nullifier(check[e].proof) \notin spent
          /\ spent' = spent \cup {Nullifier(check[e].proof)}
      BY <1>3, <3>1
    <3>3. \A f \in Checks \ {e} : check[f].at \in Enrolled =>
            Nullifier(check[f].proof) # Nullifier(check[e].proof)
      BY <3>1, <3>2 DEF BootIInv, SpentForRecords, Enrolled
    <3>4. \A f \in Checks : check'[f].proof = check[f].proof
      BY <2>1, <2>3
    <3>5. \A f \in Checks : check'[f].at \in Enrolled <=> f = e \/ check[f].at \in Enrolled
      BY <1>1, <2>1, <2>3 DEF Enrolled
    <3>6. EnrolledOnce'
      BY <1>1, <3>1, <3>2, <3>3, <3>4, <3>5 DEF BootIInv, SpentForRecords, EnrolledOnce, Enrolled, Nullifier
    <3> QED
      BY <3>1, <3>2, <3>4, <3>5, <3>6 DEF BootIInv, SpentForRecords, Enrolled, Nullifier
  <2> QED
    BY <2>5, <2>7, <2>9, <2>10, EnrollmentFrame
<1> QED
  BY <1>2, <1>3 DEF Judge

\* The record is kept or lost, and the check counts as before.
LEMMA KeepHolds == ASSUME BootIInv, NEW e \in Checks, Keep(e) PROVE BootIInv'
<1>1. check[e].at = "enrolled" /\ check[e] \in CheckStates
  BY DEF Keep, BootIInv, BootTypeOK
<1>2. PICK how \in {"kept", "lost"} : check' = [check EXCEPT ![e].at = how]
  BY DEF Keep
<1> DEFINE c == [check[e] EXCEPT !.at = how]
<1>3. /\ c \in CheckStates /\ c.at = how
      /\ c.proof = check[e].proof /\ c.service = check[e].service /\ c.human = check[e].human
  BY <1>1 DEF CheckStates
<1>4. check' = [check EXCEPT ![e] = c]
  BY <1>2
<1> HIDE DEF c
<1>5. /\ check' \in [Checks -> CheckStates] /\ check'[e] = c
      /\ \A f \in Checks \ {e} : check'[f] = check[f]
  BY <1>3, <1>4, CheckMoves DEF BootIInv
<1>6. /\ UNCHANGED <<registryVars, scene, book, named, proofs, spent, server, callVars>>
      /\ records \subseteq records' /\ records' \subseteq records \cup {RecordOf(e)}
  BY DEF Keep
<1>7. RecordOf(e) \in proofs /\ proofs \subseteq Proofs
  BY <1>1 DEF BootIInv, RecordsTestify, BootTypeOK
<1>8. BootTypeOK'
  BY <1>5, <1>6, <1>7 DEF BootIInv, BootTypeOK, callVars
<1>9. \A f \in Checks :
        /\ check'[f].proof = check[f].proof
        /\ check'[f].at \in Enrolled <=> check[f].at \in Enrolled
        /\ check'[f].at = "asking" <=> check[f].at = "asking"
        /\ check'[f].service = check[f].service /\ check'[f].human = check[f].human
  BY <1>1, <1>3, <1>5 DEF Enrolled
<1>10. RecordsTestify'
  BY <1>6, <1>7, <1>9 DEF BootIInv, RecordsTestify, RecordOf, Enrolled
<1>11. SpentForRecords'
  BY <1>6, <1>9 DEF BootIInv, SpentForRecords, EnrolledOnce, Enrolled, Nullifier
<1> QED
  BY <1>6, <1>8, <1>10, <1>11, EnrollmentFrame

-----------------------------------------------------------------------------
(***************************************************************************)
(* Starts and calls.                                                       *)
(***************************************************************************)
LEMMA ServiceFrame ==
  ASSUME BootIInv, UNCHANGED <<registryVars, scene, enrollVars>>, BootTypeOK', RunsAsPublished',
         HoldsVouched'
  PROVE  BootIInv'
<1>1. RegistryIInv'
  BY RegistryKept DEF BootIInv
<1>2. RecordsTestify' /\ SpentForRecords'
  BY DEF BootIInv, RecordsTestify, RecordOf, SpentForRecords, EnrolledOnce, enrollVars
<1> QED
  BY <1>1, <1>2 DEF BootIInv

LEMMA StartHolds == ASSUME BootIInv, StartSomehow PROVE BootIInv'
<1>1. PICK h \in Humans, s \in Services \cup {Undefined}, f \in Policies, r \in records \cup {Undefined},
           m \in stored \cup {NoManifest}, pinned \in stored \cup {NoManifest} :
             Start(h, s, m, pinned, f, r)
  BY DEF StartSomehow
<1>2. m \in Contents /\ pinned \in Contents /\ r \in Proofs \cup {Undefined}
  BY DEF BootIInv, RegistryIInv, RegistryTypeOK, BootTypeOK, Contents
<1>3. server' \in Servers /\ server' # Undefined
  BY <1>1, <1>2, UndefinedAssumption DEF Start, Servers
<1>4. UNCHANGED <<registryVars, scene, enrollVars, callVars>>
  BY <1>1 DEF Start
<1>5. BootTypeOK'
  BY <1>3, <1>4 DEF BootIInv, BootTypeOK, enrollVars, callVars
<1>6. RunsAsPublished'
  BY <1>1, <1>2, <1>4 DEF Start, RunsAsPublished, MatchesManifest, MatchesRecord, enrollVars
<1>7. HoldsVouched'
  BY <1>4 DEF BootIInv, HoldsVouched, callVars, registryVars, contractVars
<1> QED
  BY <1>4, <1>5, <1>6, <1>7, ServiceFrame

LEMMA StopHolds == ASSUME BootIInv, Stop PROVE BootIInv'
<1>1. BootTypeOK'
  BY DEF Stop, BootIInv, BootTypeOK, enrollVars, callVars
<1>2. RunsAsPublished'
  BY DEF Stop, RunsAsPublished
<1>3. HoldsVouched'
  BY DEF Stop, BootIInv, HoldsVouched, callVars, registryVars, contractVars
<1> QED
  BY <1>1, <1>2, <1>3, ServiceFrame DEF Stop

\* What the account of its id has registered is vouched for.
LEMMA ReadHolds == ASSUME BootIInv, NEW c \in Clients, ReadPolicy(c) PROVE BootIInv'
<1>1. UNCHANGED <<registryVars, scene, enrollVars, server>>
  BY DEF ReadPolicy
<1>2. RunsAsPublished'
  BY <1>1 DEF BootIInv, RunsAsPublished, MatchesManifest, enrollVars
<1>3. CASE UNCHANGED held
  <2>1. BootTypeOK'
    BY <1>1, <1>3 DEF ReadPolicy, BootIInv, BootTypeOK, enrollVars
  <2>2. HoldsVouched'
    BY <1>1, <1>3 DEF BootIInv, HoldsVouched, registryVars, contractVars
  <2> QED
    BY <1>1, <1>2, <2>1, <2>2, ServiceFrame
<1>4. CASE \E s \in Services :
             /\ Registered(s) /\ Bound(s)
             /\ held' = [held EXCEPT ![c] = [service |-> s, content |-> content[s]]]
  <2>1. PICK s \in Services :
             /\ Registered(s) /\ Bound(s)
             /\ held' = [held EXCEPT ![c] = [service |-> s, content |-> content[s]]]
    BY <1>4
  <2>2. content[s] \in vouched[s] /\ content[s] \in Contents
    BY <2>1 DEF BootIInv, RegistryIInv, CommitsToStored, RegistryTypeOK, Contents
  <2>3. [service |-> s, content |-> content[s]] \in Holdings
    BY <2>2 DEF Holdings
  <2>4. BootTypeOK'
    BY <1>1, <2>1, <2>3 DEF ReadPolicy, BootIInv, BootTypeOK, enrollVars
  <2>5. UNCHANGED vouched
    BY <1>1 DEF registryVars, contractVars
  <2>6. HoldsVouched'
    BY <2>1, <2>2, <2>5 DEF BootIInv, BootTypeOK, HoldsVouched
  <2> QED
    BY <1>1, <1>2, <2>4, <2>6, ServiceFrame
<1> QED
  BY <1>3, <1>4 DEF ReadPolicy

LEMMA CallHolds == ASSUME BootIInv, NEW c \in Clients, Call(c) PROVE BootIInv'
<1>1. UNCHANGED <<registryVars, scene, enrollVars, server>>
  BY DEF Call
<1>2. RunsAsPublished'
  BY <1>1 DEF BootIInv, RunsAsPublished, MatchesManifest, enrollVars
<1>3. BootTypeOK'
  BY <1>1 DEF Call, BootIInv, BootTypeOK, enrollVars
<1>4. HoldsVouched'
  BY <1>1 DEF Call, BootIInv, BootTypeOK, HoldsVouched, registryVars, contractVars
<1> QED
  BY <1>1, <1>2, <1>3, <1>4, ServiceFrame

LEMMA BootStepHolds == BootIInv /\ [BootNext]_bootVars => BootIInv'
<1> SUFFICES ASSUME BootIInv, [BootNext]_bootVars PROVE BootIInv'
  OBVIOUS
<1>1. CASE Publish
  BY <1>1, PublishHolds
<1>2. CASE Enrollment
  BY <1>2, NamesHolds, InitiateHolds, LookHolds, JudgeHolds, KeepHolds DEF Enrollment
<1>3. CASE StartSomehow \/ Stop
  BY <1>3, StartHolds, StopHolds
<1>4. CASE \E c \in Clients : ReadPolicy(c) \/ Call(c)
  BY <1>4, ReadHolds, CallHolds
<1>5. CASE UNCHANGED bootVars
  <2>1. UNCHANGED <<registryVars, scene, enrollVars, server, callVars>>
    BY <1>5 DEF bootVars
  <2>2. BootTypeOK'
    BY <2>1 DEF BootIInv, BootTypeOK, enrollVars, callVars
  <2>3. RunsAsPublished' /\ HoldsVouched'
    BY <2>1 DEF BootIInv, RunsAsPublished, MatchesManifest, HoldsVouched, enrollVars, callVars,
                registryVars, contractVars
  <2> QED
    BY <2>1, <2>2, <2>3, ServiceFrame
<1> QED
  BY <1>1, <1>2, <1>3, <1>4, <1>5 DEF BootNext

-----------------------------------------------------------------------------
\* The inductive invariant of enrollment, of running services and of their callers, with
\* the registry and enroll.ts beside them.
THEOREM BootInvariant == BootSpec => []BootIInv
BY BootInitHolds, BootStepHolds, PTL DEF BootSpec

\* A person enrolls a service once, and whoever spent a nullifier got the record for it.
THEOREM EnrolledOnlyOnce == BootSpec => []EnrolledOnce
<1>1. BootIInv => EnrolledOnce
  BY DEF BootIInv, SpentForRecords, EnrolledOnce
<1> QED
  BY <1>1, BootInvariant, PTL

\* The composition implements the registry with its publishers: no enrollment, start or
\* call touches what the chain has.
THEOREM BootImplementsRegistry == BootSpec => RegistrySpec
<1>1. BootInit => RegistryInit
  BY DEF BootInit
<1>2. [BootNext]_bootVars => [RegistryNext]_registryVars
  BY DEF BootNext, Publish, RegistryNext, Enrollment, AgentBookNames, Initiate, Look, Judge, Keep,
         StartSomehow, Start, Stop, ReadPolicy, Call, bootVars
<1> QED
  BY <1>1, <1>2, PTL DEF BootSpec, RegistrySpec

\* No manifest is ahead of the chain, whoever enrolls, starts and calls.
THEOREM BootNeverAhead == BootSpec => []ManifestNeverAhead
BY BootImplementsRegistry, NeverAhead, PTL

\* What a client signed and a service with a manifest serves is decided as committed.
THEOREM CallsAreServedAsCommitted == BootSpec => ServedAsCommitted
<1> DEFINE ServedStep ==
      \A c \in Clients :
        calling[c] = "ready" /\ calling'[c] = "served" /\ server.manifest # NoManifest =>
          /\ held[c] # Undefined
          /\ held[c].content \in vouched[held[c].service]
          /\ server.functions = held[c].content.functions
          /\ server.human = HumanOf[held[c].content.functions]
<1>1. BootIInv /\ [BootNext]_bootVars => [ServedStep]_bootVars
  <2> SUFFICES ASSUME BootIInv, BootNext, NEW c \in Clients,
                      calling[c] = "ready", calling'[c] = "served", server.manifest # NoManifest
               PROVE  /\ held[c] # Undefined
                      /\ held[c].content \in vouched[held[c].service]
                      /\ server.functions = held[c].content.functions
                      /\ server.human = HumanOf[held[c].content.functions]
    OBVIOUS
  <2>1. PICK d \in Clients : Call(d) \/ ReadPolicy(d)
    BY DEF BootNext, Publish, Enrollment, AgentBookNames, Initiate, Look, Judge, Keep,
           StartSomehow, Start, Stop, callVars
  <2>2. Call(c)
    BY <2>1 DEF Call, ReadPolicy, BootIInv, BootTypeOK
  <2>3. server # Undefined /\ HashAccepted(c) /\ RunsAsPublished /\ HoldsVouched
    BY <2>2 DEF Call, BootIInv
  <2> QED
    BY <2>3 DEF HashAccepted, RunsAsPublished, HoldsVouched, MatchesManifest
<1> QED
  BY <1>1, BootInvariant, PTL DEF BootSpec, ServedAsCommitted
=============================================================================
