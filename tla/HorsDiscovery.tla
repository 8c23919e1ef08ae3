---------------------------- MODULE HorsDiscovery ----------------------------
(***************************************************************************)
(* How an agent finds a service: the ENS text records its owner publishes, *)
(* and the two commands of the CLI (and of its MCP bridge) that fill the   *)
(* agent's cache.  discover resolves the records and checks the id against *)
(* the registry; list-functions takes the cached entry, downloads the      *)
(* manifest the registry commits to and writes the entry back with the     *)
(* functions in it.  Every read is a request to a chain or to 0G Storage,  *)
(* so owners, other commands and enroll.ts act between any two of them.    *)
(*                                                                         *)
(* The cache is one map; the two files that hold it, and what processes    *)
(* that write them at the same time do to them, are HorsProfile.           *)
(***************************************************************************)
EXTENDS HorsRegistry

CONSTANTS
  Endpoints,    \* URLs
  Commands,     \* runs of discover and of list-functions
  Absent        \* null: no text record, no serviceId, no functions, no entry

ASSUME DiscoveryAssumption ==
  Absent \notin Endpoints \cup Policies \cup Services

VARIABLES
  endpointText,   \* agent-endpoint[mcp] of a name
  idText,         \* hors.service-id of a name
  published,      \* endpoints and ids a name has had
  cache,          \* the cached entry of a name
  phase,          \* of each command
  target,         \* its name
  draft,          \* the entry it is building
  committed       \* the content it read from the registry

textVars == <<endpointText, idText, published>>
commandVars == <<phase, target, draft, committed>>
discoveryVars == <<registryVars, textVars, cache, commandVars>>

Phases == {"new", "resolving", "resolved", "refreshing", "downloading", "ready", "done"}

Entries ==
  [endpoint : Endpoints, service : Services \cup {Absent}, verified : BOOLEAN,
   functions : Policies \cup {Absent}]

Drafts ==
  [endpoint : Endpoints \cup {Absent}, service : Services \cup {Absent},
   verified : BOOLEAN, functions : Policies \cup {Absent}]

ASSUME EntryAssumption == Absent \notin Entries

Blank == [endpoint |-> Absent, service |-> Absent, verified |-> FALSE, functions |-> Absent]

DiscoveryTypeOK ==
  /\ endpointText \in [Names -> Endpoints \cup {Absent}]
  /\ idText \in [Names -> Services \cup {Absent}]
  /\ published \in [Names -> SUBSET (Endpoints \cup Services)]
  /\ cache \in [Names -> Entries \cup {Absent}]
  /\ phase \in [Commands -> Phases]
  /\ target \in [Commands -> Names]
  /\ draft \in [Commands -> Drafts]
  /\ committed \in [Commands -> Manifests \cup {NoManifest}]

DiscoveryInit ==
  /\ RegistryInit
  /\ endpointText = [n \in Names |-> Absent]
  /\ idText = [n \in Names |-> Absent]
  /\ published = [n \in Names |-> {}]
  /\ cache = [n \in Names |-> Absent]
  /\ phase = [c \in Commands |-> "new"]
  /\ target \in [Commands -> Names]
  /\ draft = [c \in Commands |-> Blank]
  /\ committed = [c \in Commands |-> NoManifest]

-----------------------------------------------------------------------------
(***************************************************************************)
(* The owner's records: one setText, sent by set-ens.ts for one key at a   *)
(* time, or in an ENS app.                                                 *)
(***************************************************************************)
SetText(n) ==
  /\ \/ \E e \in Endpoints :
          /\ endpointText' = [endpointText EXCEPT ![n] = e]
          /\ published' = [published EXCEPT ![n] = @ \cup {e}]
          /\ UNCHANGED idText
     \/ \E s \in Services :
          /\ idText' = [idText EXCEPT ![n] = s]
          /\ published' = [published EXCEPT ![n] = @ \cup {s}]
          /\ UNCHANGED endpointText
  /\ UNCHANGED <<registryVars, cache, commandVars>>

-----------------------------------------------------------------------------
(***************************************************************************)
(* Commands.  One that throws ends and leaves the cache alone.             *)
(***************************************************************************)
Goto(c, p) == phase' = [phase EXCEPT ![c] = p]

\* A command that ends forgets what it read.
End(c) ==
  /\ Goto(c, "done")
  /\ draft' = [draft EXCEPT ![c] = Blank]
  /\ committed' = [committed EXCEPT ![c] = NoManifest]

\* `hors services <ens> --endpoint <url>`.
OverrideEndpoint(n, e) ==
  /\ cache' = [cache EXCEPT ![n] = [Blank EXCEPT !.endpoint = e]]
  /\ UNCHANGED <<registryVars, textVars, commandVars>>

Discover(c) ==
  /\ phase[c] = "new"
  /\ Goto(c, "resolving")
  /\ UNCHANGED <<registryVars, textVars, cache, target, draft, committed>>

\* The getEnsText calls are concurrent, and their answers are of different moments.
ResolveText(c) ==
  /\ phase[c] = "resolving"
  /\ \/ /\ draft[c].endpoint = Absent
        /\ IF endpointText[target[c]] = Absent
             THEN End(c)
             ELSE /\ draft' = [draft EXCEPT ![c].endpoint = endpointText[target[c]]]
                  /\ Goto(c, IF draft[c].service = Absent THEN "resolving" ELSE "resolved")
                  /\ UNCHANGED committed
     \/ /\ draft[c].service = Absent
        /\ IF idText[target[c]] = Absent
             THEN End(c)
             ELSE /\ draft' = [draft EXCEPT ![c].service = idText[target[c]]]
                  /\ Goto(c, IF draft[c].endpoint = Absent THEN "resolving" ELSE "resolved")
                  /\ UNCHANGED committed
  /\ UNCHANGED <<registryVars, textVars, cache, target>>

\* Mutant: a service that is registered will do.
RegisteredSomewhere(s, n) == Registered(s)

\* assertHORSServiceBinding of the record the registry has now.
BoundTo(s, n) == Registered(s) /\ s = deriveServiceId(owner[s], n)

verifyHORSServiceRegistration(c) ==
  /\ phase[c] = "resolved"
  /\ IF BoundTo(draft[c].service, target[c])
       THEN /\ Goto(c, "ready")
            /\ draft' = [draft EXCEPT ![c].verified = TRUE]
            /\ UNCHANGED committed
       ELSE End(c)
  /\ UNCHANGED <<registryVars, textVars, cache, target>>

\* list-functions of an entry with a serviceId, when it has no functions yet or is told
\* to refresh: what it will write is a copy of the entry it found.
ListFunctions(c) ==
  /\ phase[c] = "new"
  /\ cache[target[c]] # Absent
  /\ cache[target[c]].service # Absent
  /\ Goto(c, "refreshing")
  /\ draft' = [draft EXCEPT ![c] = cache[target[c]]]
  /\ UNCHANGED <<registryVars, textVars, cache, target, committed>>

ReadRecord(c) ==
  /\ phase[c] = "refreshing"
  /\ IF BoundTo(draft[c].service, target[c])
       THEN /\ Goto(c, "downloading")
            /\ committed' = [committed EXCEPT ![c] = content[draft[c].service]]
            /\ UNCHANGED draft
       ELSE End(c)
  /\ UNCHANGED <<registryVars, textVars, cache, target>>

\* The indexer sends m, and m names the service: the entry to write has its functions.
Accept(c, m) ==
  IF m.service = draft[c].service
    THEN /\ Goto(c, "ready")
         /\ draft' = [draft EXCEPT ![c].verified = TRUE, ![c].functions = m.functions]
         /\ committed' = [committed EXCEPT ![c] = NoManifest]
    ELSE End(c)

\* Mutant: the content hash is not compared.
DownloadUnchecked(c) ==
  /\ phase[c] = "downloading"
  /\ \E m \in stored : Accept(c, m)
  /\ UNCHANGED <<registryVars, textVars, cache, target>>

\* downloadAndVerifyPolicy: whatever the indexer sends must hash to policyContentHash.
Download(c) ==
  /\ phase[c] = "downloading"
  /\ \E m \in stored : IF m = committed[c] THEN Accept(c, m) ELSE End(c)
  /\ UNCHANGED <<registryVars, textVars, cache, target>>

\* Mutant: the functions are merged into the entry the cache has by now.
upsertServiceMerging(c) ==
  /\ phase[c] = "ready"
  /\ cache' = [cache EXCEPT ![target[c]] =
       IF @ # Absent /\ draft[c].functions # Absent
         THEN [@ EXCEPT !.verified = TRUE, !.functions = draft[c].functions]
         ELSE draft[c]]
  /\ End(c)
  /\ UNCHANGED <<registryVars, textVars, target>>

upsertService(c) ==
  /\ phase[c] = "ready"
  /\ cache' = [cache EXCEPT ![target[c]] = draft[c]]
  /\ End(c)
  /\ UNCHANGED <<registryVars, textVars, target>>

Command(c) ==
  \/ Discover(c)
  \/ ResolveText(c)
  \/ verifyHORSServiceRegistration(c)
  \/ ListFunctions(c)
  \/ ReadRecord(c)
  \/ Download(c)
  \/ upsertService(c)

DiscoveryNext ==
  \/ RegistryNext /\ UNCHANGED <<textVars, cache, commandVars>>
  \/ \E n \in Names : SetText(n)
  \/ \E n \in Names, e \in Endpoints : OverrideEndpoint(n, e)
  \/ \E c \in Commands : Command(c)

DiscoverySpec == DiscoveryInit /\ [][DiscoveryNext]_discoveryVars

-----------------------------------------------------------------------------
(***************************************************************************)
(* Properties.                                                             *)
(***************************************************************************)

\* What a verified entry of a name says was published: its endpoint and its id were in
\* the name's records, and the account the id names owned the service.
Published(n, e) ==
  /\ e.endpoint \in published[n]
  /\ e.service \in published[n] \cap Services
  /\ e.service[2] = n
  /\ vouched[e.service] # {}

\* The functions of an entry are those of a manifest its service committed to, and that
\* names the service, while the account its id names owned it.
Committed(e) ==
  e.functions # Absent =>
    /\ e.verified
    /\ \E m \in vouched[e.service] : m.service = e.service /\ m.functions = e.functions

\* An entry shown as verified never mixes in what the owner did not publish, whatever
\* discoveries, manual overrides and refreshes raced for it.
VerifiedEntryWasPublished ==
  \A n \in Names : cache[n] # Absent /\ cache[n].verified => Published(n, cache[n])

\* The functions list-functions shows for a service are functions it committed to.
VerifiedFunctionsWereCommitted ==
  \A n \in Names : cache[n] # Absent => Committed(cache[n])

TextsArePublished ==
  \A n \in Names :
    /\ endpointText[n] # Absent => endpointText[n] \in published[n]
    /\ idText[n] # Absent => idText[n] \in published[n]

\* Only a verified entry has a serviceId: list-functions starts from no other.
ServiceMeansVerified ==
  \A n \in Names : cache[n] # Absent /\ cache[n].service # Absent => cache[n].verified

\* What a command has so far: texts it resolved, or the entry it found.
DraftIsPublished(c) ==
  /\ draft[c].endpoint # Absent => draft[c].endpoint \in published[target[c]]
  /\ draft[c].service # Absent => draft[c].service \in published[target[c]]
  /\ draft[c].verified => Published(target[c], draft[c])
  /\ Committed(draft[c])
  /\ phase[c] = "resolved" => draft[c].endpoint # Absent /\ draft[c].service # Absent
  /\ phase[c] \in {"refreshing", "downloading", "ready"} => draft[c].verified
  /\ phase[c] = "downloading" => committed[c] \in vouched[draft[c].service]

DraftsArePublished == \A c \in Commands : DraftIsPublished(c)

DiscoveryIInv ==
  /\ DiscoveryTypeOK
  /\ RegistryIInv
  /\ TextsArePublished
  /\ ServiceMeansVerified
  /\ DraftsArePublished
  /\ VerifiedEntryWasPublished
  /\ VerifiedFunctionsWereCommitted
=============================================================================
