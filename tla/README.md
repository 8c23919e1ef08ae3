# HORS, verified

A TLA+ development of [HORS](../src/README.md): MCP tools that run only for the human who
owns them. An agent signs each call (`Hors-Authorization`), the service maps the agent's
address to a human through AgentBook, a per-function policy decides, a World App proof may
be asked for in a step-up, and a function may have to answer with what a verified 0G
executor said. Services are found through ENS and publish their policies in a registry
contract and 0G Storage.

Paths below are relative to `src/packages/`, those in `docs/` to `src/`, unless they start
with `src/`.

## 1. Inventory

| Component | State it keeps | Operations | What is hard | What makes it correct | Module |
| --- | --- | --- | --- | --- | --- |
| Policy engine (`hors-core/src/policy.ts`, the checks of `hors-server/src/hors.ts`) | none | `evaluatePolicy`, `policiesEqual`, registration checks, public fast path | order of early returns, optional fields, several proofs | allows exactly what the policy permits; equal policies decide alike; one step-up is enough | `HorsPolicy` |
| Replay store (`hors-core/src/replay-store.ts`) | key to expiry | `consume` | expiry boundaries, restarts | a held key is refused for its lifetime | `ReplayStore` |
| Header verification (`hors-server/src/verify.ts`, `parse-resources.ts`) | two replay stores | `verifyHorsAuthorization` | four awaits, copies of headers, clocks, failing lookups | a header is spent once | `HorsAuth` |
| Tool wrapper and step-up (`hors-server/src/hors.ts`, `auth-context.ts`, `hors-assurance/src/`) | step-up and nullifier stores, signed request state | `horsImpl`, `handleStepUpReentry` | rival resumes, expiry, redeployment, restart | a signed call runs once, unchanged, under a policy that permits it | `HorsServer` |
| Executor receipts (`createHorsCtx`, `validateExecutionReceipt`, `hors-executor-0g/src/executor.ts`) | the WeakMap of branded receipts | `execute`, presenting a receipt | concurrent handlers, two sources of a verdict | what is delivered is what the executor said for this call, once | `HorsReceipts` |
| Registry contract (`src/contracts/src/HORSRegistry.sol`) | owner, version and content of each service | register, update, transfer | transfers, order of mining | no content without owner; versions grow | `HorsRegistry` |
| Publishing (`src/examples/call-home/enroll.ts`) | a version it read, stored manifests | read, upload, send | races, failed reads | no manifest is ahead of the chain | `HorsRegistry` |
| Discovery (`hors-client/src/discover.ts`, `registry.ts`, `storage.ts`, `hors-cli/src/commands/services.ts`, `list-functions.ts`, `mcp/server.ts`) | cached entries, ENS texts | resolve, verify, override, refresh | reads of different moments, write-backs | what is called verified was published | `HorsDiscovery` |
| CLI files (`hors-cli/src/profile/`, `commands/connect.ts`, `disconnect.ts`) | keystore, profile, services cache | connect, upsert, disconnect | no locks, truncating writes, crashes between two system calls | a command left alone does all it should; a profile names a registered human | `HorsProfile` |
| Traces (`hors-cli/src/trace/`, `commands/watch.ts`) | a file, a byte offset, an unfinished line | append, watch | creation races, partial lines, a file removed under its reader | every line is shown once and in order | `HorsTrace` |
| Client (`hors-client/src/client.ts`, `hors-cli/src/commands/call.ts`, `shared/selfie-qr.ts`, `mcp/server.ts`) | last diagnostic, pending step-up | call, resume, poll | deadlines, lost answers, concurrent calls | a report says what happened; a resume is sent while its state lives; every call ends | `HorsCall` |
| Example vault (`src/examples/call-home/server.ts`) | ledger | borrow, emergency | awaits between check and write, restarts, unconfirmed transfers | the ledger is what was paid | `HorsVault` |
| Enrollment and service start (`hors-server/src/enrollment.ts`, `storage.ts`, `auth-context.ts`) | enrollment nullifiers and records, the running service | enroll, start, announce, check the signed hash | AgentBook between two lookups, redeployment between read and call | a person enrolls once; a service decides as was committed | `HorsBoot` |
| Audit log | none | `writeAuditLog` | failures are swallowed | an answer never depends on it | part of `Return` in `HorsServer` |
| Hashing, headers, errors, diagnostics, `hello-hors` | none | pure functions, demonstration | - | - | not modelled |

How they interact. A request reaches `horsImpl`; it calls header verification, which
consumes the nonce and the call id and asks AgentBook; the policy engine decides; a
challenge leaves the process as a signed state that the client brings back with a proof,
which consumes the step-up key and, once World has vouched for it, the nullifier; the
handler may call an executor and must present its receipt; the answer leaves after the
audit log. The client learns where the service is, and what its policies are, from ENS, the
registry and 0G Storage. A service does not read them when it serves a call
(`docs/ARCHITECTURE.md:250-253`): it compares the hash a call is signed with with the one
of the manifest it was started with. That is why the two halves are separate modules, and
`HorsBoot` models where they meet. On the client's machine every command is a process;
processes share `~/.hors` and nothing else.

## 2. Modules

```
ReplayStore <- HorsAuth <- HorsServer          HorsGate      (abstract)
HorsPolicy  <------------- HorsServer          HorsReceipts
HorsRegistry <- HorsDiscovery                  HorsProfile <- HorsTrace
HorsRegistry <- HorsBoot                       HorsVault   <- HorsCall
```

`MCxxx` instantiates module `xxx` for TLC, `xxxProofs` holds its theorems;
`HorsRegistryProofs` also those of discovery and boot, `HorsTraceProofs` those of the
profile, `HorsCallProofs` those of the vault. Definitions
whose comment starts with "Mutant" are faulty variants of the definition that follows them;
they are used to check that a property notices the fault, and by nothing else.

**ReplayStore.** `InMemoryReplayStore` as a function from keys to expiry times; `Consume`
includes the cleanup the code performs first. A custom store (`config.stores`) is the same
map; `Durable` says that the stores survive a restart, `StoresReject` that they may reject, with or
without having recorded the entry. The in-memory defaults do neither.

**HorsAuth.** One request is one slot. `verifyHorsAuthorization` is cut at its awaits:
`Arrive` (parsing and freshness, before the first await), `ConsumeNonce` and
`RejectSignature` (after the signature check), `ConsumeCallId`, `LookupHuman`, and
`NonceStoreFails`, `CallIdStoreFails` and `LookupFails` for promises that reject. Between
any two of them other requests run, clocks move, AgentBook changes and the process may
restart as another deployment. Headers are model values with the fields the server reads;
any request may carry a copy of any signed header. The 300 s and 600 s of the code are the
constants `MaxAge` and `NonceTTL`; client clocks are at most `MaxSkew` off and verification
takes at most `MaxDelay` (see section 4).

**HorsGate.** The promise of authorization without clocks, stores or phases: of all
requests that carry a signed call at most one is admitted while the gate remembers.

**HorsPolicy.** `FunctionPolicy` with its optional fields as sets of at most one value,
`evaluatePolicy` in the order of its returns, registration (`ValidPolicy`,
`policiesEqual`), the fast path (`SkipsAuthorization`), and `Permitted`, a reference
definition that states what a policy means without an order. `Policy` is parameterised by
what each field may hold, so that theorems cover values registration does not look at.

**HorsServer.** Extends both. `Invoke` is everything `horsImpl` and the SDK do before the
first await (state verification, `agentCallable`, executor present, public fast path, header
present), `Verify` maps the outcomes of `HorsAuth` to answers, `Decide` is the first call,
`Reenter` is `handleStepUpReentry` up to the World API, `AcceptProof` and `RefuseProof` what
follows it, each with the store that rejects, `Return` is `finalizeAllowResult`. `Answer`
distinguishes tool results, which carry diagnostics, from thrown protocol errors. A request
state is identified by the request it answered; it carries what the code signs into it.

**HorsReceipts.** Handlers run concurrently and share memory, so any invocation may present
any receipt, or a forged one, with any text. `Execute`, `RouterAnswers`, `RouterFails` and
`VerifierAnswers` are the executor's awaits, `Settle` the branding, `Return` the check that
removes the brand before it compares. `verifyTee` and `independent` are chosen at start.

**HorsRegistry.** The contract's three operations and `enroll.ts`, one action per network
call: `ReadVersion` (any failure counts as "not registered", as its `catch` does),
`Upload`, `Send` (gas estimation rejects what would revert), `Mine`. A service id is the
pair it is the hash of; a content hash and a storage root are the manifest. `vouched`
records which contents a service had while the account its id names owned it.
`CallByHand` stands for wallets: any account may make any call, and the contract takes any
root and hash. `StoreByHand` is an upload of a manifest no script made. Such manifests are
`Foreign`; they may claim any service and any version, so `ManifestNeverAhead` speaks only
of those `enroll.ts` made, whoever commits to them.

**HorsBoot.** Extends it with the three checks between a published policy and a served call,
each made by another party at another time. `Initiate` is the challenge of `enrollment.ts`,
which keeps nothing; `Look`, `Judge` and `Keep` are `verifyEnrollment` and the upload of its
record, cut at their awaits, while AgentBook moves the owner. `Start` is `buildAuthContext`
with `validatePolicyAtRegistration`: manifest against human, service id, pinned hash and
inline policies, record against human and service id. `ReadPolicy` is a client that takes
the hash from the registry, `Call` the comparison of that hash with the announced one
(`assertPolicyHash`). A behaviour plays one of `Scenes`, either enrollments and starts, or
publications, calls by hand, starts and calls; at most `MaxProofs` enrollment challenges are
completed.

**HorsDiscovery.** Extends it with the ENS texts (`SetText`, one iteration of the loop in
`set-ens.ts` or an edit by hand), the cache and the commands. A discovery reads its texts
at separate moments (`ResolveText`), checks the binding (`verifyHORSServiceRegistration`)
and writes (`upsertService`); a refresh copies the entry it finds (`ListFunctions`), reads
the record (`ReadRecord`), downloads whatever the indexer sends (`Download`) and writes the
copy back. The CLI and its MCP bridge contain the same code twice; one set of actions
stands for both. The two files of the cache are one map here; `HorsProfile` takes them
apart.

**HorsProfile.** The keystore, the profile and the services cache. A file is `Absent`,
`Empty` (opened with truncation and not yet filled), `Garbled` (two writers wrote over each
other) or `Whole`; a reader takes the first three for "nothing there", as the `catch` of
the readers does, except the keystore's, which throws. Each action is one system call:
`OpenCache`, `WriteCache`, `Unlink` and so on, or one lookup; `Kill` ends a process
anywhere between. A file that is unlinked while it is open is filled without a name
(`own[p].unlinked`). The commands of one behaviour are one of the sets in `Mixes`. `alone`
and `before` are history: the running command that has met no other, and the home as it
found it.

**HorsTrace.** Extends it with `trace.jsonl`, a sequence of cells so that an offset may
point into the middle of a line. `CheckTrace`, `CreateTrace` and `AppendTrace` are the three
system calls of `writeTraceEvent`; `Stat` and `Read` are the two halves of the watcher's
`flush`, `FirstLook` and `CallBack` stand for `watchFile`, which reports only what changed
after it looked for the first time, and once that it found no file. `disturbed` records that
the file was removed or emptied under the watch, after which nothing is promised.

**HorsVault.** One handler run per call: `BeginRun` builds the prompt from the ledger,
`Judge` is the executor's verdict, `Send`, `Mine` and `Confirm` the transfer, and the entry
in the ledger comes last. A transaction may revert, stay pending, or be made although its
handler failed; `RestartVault` empties the ledger. A reverted transaction is entered as a
success, because the code does not look at the receipt's status. Two variables are
history: `forgotten`, the calls whose entries a restart wiped out, and `missed`, the types
one of whose calls began without knowing all before it.

**HorsCall.** Extends it with the calls. `hors call` in a terminal polls for the proof and
resumes, in a pipe it prints the state and exits, the bridge hands it to its caller. The
gate is reduced to what `HorsServer` promises: it challenges with a state that expires
(`Admit`) and redeems a state once (`Redeem`), after which the handler runs. Requests and
answers may be lost, a client may be gone when its answer comes, and the service may
restart. `Tick` is one time unit for all timers.

## 3. Runs

| Run | Question | Bounds, and why they are enough |
| --- | --- | --- |
| `policy` | Does every decision agree with the reference definition? | every policy over two attributes, two humans, lists of up to two proofs: the rules look at the first proof of a kind and at one other. "Alike" covers the decision, the fast path and the executor the policy demands |
| `auth` | Is a header spent once, and is verification the gate? | two headers with one call id, one signed with a hash the service does not pin, three requests, clock to 3 with lifetimes 3 and 2, one restart: entries expire while copies are verified, and a third request meets the store after both. The stores forget at a restart, and may reject. 5.4 million states, about 85 s |
| `server_clock` | Is anything redeemed or run twice when states and entries expire, and is `ServerIInv` invariant? | one call, its challenge, two resumes; clock to 2 with state lifetime 1 and entry lifetime 2, so states expire before the entries that guard them |
| `server_policies` | Does what runs match what was signed and permitted, and is every call answered? | four deployments that cover adapters missing, executors missing, hidden, public and attribute policies; two agents of two humans; two requests |
| `server_redeploy` | Does a challenge stay sound across a redeployment, with durable stores and a stable key? | three deployments of one tool (Selfie, no step-up, Identity), one restart, three requests; any of the four stores may reject. 4 million states, about 170 s, the longest run |
| `receipts` | Does only the executor's word for this call get out, once? | three invocations, two executions, two texts, two executor names, all settings; an execution may begin after its handler has returned. 7.5 million states, about 120 s |
| `boot` | Does a service start and decide as was published, and does a person enroll once? | two publications of different humans' policies that race for one service id, a second account it may be handed to, versions up to 2 on the chain, and a manifest made by hand that claims version 9; a service is started beside the race, or beside one run and calls by hand; or two checks, two completed challenges, two humans. One client: calls do not touch each other. 0.8 million states, about 30 s |
| `discovery` | Is what the cache calls verified something the owner published? | two commands, two endpoints, two service ids and a manifest of each, which anyone stores and any owner commits to, first as the account of the id and then, after a transfer, as another; versions up to 2. No run of `enroll.ts`: all one does, calls and uploads by hand do too. 1.8 million states, about 95 s |
| `home` | What do commands leave in `~/.hors` that share it, interrupt each other and are killed? | three processes, one service name, one human; either upsert, connect and disconnect, or calls and disconnect, with one watcher: a lost update takes two writers, a third disconnects. 2.2 million states, about 95 s |
| `call` | Is a call reported as what it was, does it end, and is the ledger what was paid? | two calls, by terminal and bridge and by terminal and pipe, a daily limit of one borrow, state lifetime and polling of 3 units, messages within 1: the state expires before, while and after a proof is on its way. `CallIInv` is checked with its parts about limits, traces and times. 0.4 million states, about 45 s |
| `server_human`, `server_reuse` | violations, see section 6 | the smallest instance that shows each |

`RunOncePerCall`, `StateRedeemedOnce`, `RunMatchesSignedCall`, `RunHasEvidence` and
`RunGateSpec` speak about the handler's runs, several requests and the stores at once: a
signed call runs at most once, with its own function and arguments, under a policy that
permits it, after a proof made for exactly its challenge. `RunHasEvidence` is checked in
`server_redeploy` too, where the policy that decides is not the one that challenged.
`SameStores` limits "once" to the life of the stores, because the in-memory defaults
forget on restart.
`VerifiedEntryWasPublished` and `VerifiedFunctionsWereCommitted` bound what racing commands
can do to the cache. They do not say that the newest endpoint wins: a refresh that started
before a discovery and ends after it brings the older endpoint back.

`AloneTakesEffect` bounds what the missing locks of the CLI cost: whatever half-written
files earlier commands left, the next command that has the home to itself does all it
should. `ProfileNamesRegistered` holds without that condition, though an upsert may bring
an older profile back. `KeptOnceSettled` excepts the lines of calls that create the trace
at the same time, because the second creation wipes out what the first call has appended:
that loss is in the code, and the property confines it to these calls.

`ReportsAreTrue`, `LedgerAccounts` and `LimitKept` relate the report of a client to the
chain. A call that is reported as denied or failed may have been paid: the handler runs
before its receipt is checked, and an answer may be lost. `LedgerAccounts` holds however
calls overlap; what it lets the ledger lack is what the code really loses: transfers whose
handler still waits, failed or was stopped on the way, and the entries a restart wiped out.
The limit is kept only among calls that knew of each other: overlapping calls exceed it
together, and so may calls after a restart or an unconfirmed payment. The code has no
protection there, and `LimitKept` claims none. `TraceTellsOutcome` speaks of every call that
ended, with the one exception of section 6. `ProofsAreInTime` says how late a proof may
reach the gate.

`ServedAsCommitted` is the chain of trust in one property: when a call that was signed with
a hash from the registry is served by a service that loaded a manifest, the functions that
decide it are the ones the account named by the service id committed to, whoever owns the
service by then.

Deadlock checking is off: clients may stop, clocks and versions are bounded, and a served
request is done. Symmetry is used over requests, endpoints and commands in runs without
liveness.

## 4. Assumptions and fairness

- `NonceOutlivesHeader`: `NonceTTL > MaxAge + MaxSkew + MaxDelay`. The code has 600 s
  against 300 s; skew and verification time together may thus reach 300 s. Nothing in the
  code enforces a limit on verification time; beyond the assumption a copy of a header
  finds its nonce forgotten.
- `StepUpOutlivesState`: `StepUpTTL > StateTTL + MaxDelay`, 600 s against 300 s.
- keccak256, canonical JSON and signatures are equality of what they cover; ids generated
  at random do not collide, except where a client signs one twice.
- Fairness is used for two properties. `EveryCallAnswered` (run `server_policies`): weak
  fairness of `Serve(r)` for each request. The event loop resumes every continuation whose
  promise settles, and store, AgentBook, World API and handler promises settle or reject
  (the model contains the rejections; the run has the in-memory stores, which do not reject,
  and a custom store that does takes the way of a failed lookup). `EveryCallEnds` (run
  `call`): weak fairness of `Client(c)` for each call and of `Tick`, that is, of the
  client's own code with the SDK's request timeout and of time. Gate, handlers, chain and
  humans are owed nothing. The other modules have no fairness: their properties are safety.
- `PollsForTheLifetime`: the CLI polls at least as long as a request state lives, five
  minutes each. `MaxLag` and `PollInterval` bound what the code leaves to the network.
- The guardian of the vault keeps the rules of its prompt (`WithinRules`); a model that
  does not is a matter of the prompt and not of this code.
- Enrollment nullifiers do not expire (`NullifierStore` keeps them for 24 hours), so
  "once" is within one life of an entry; without a store (`HasStore` FALSE) it is not
  promised. A service may be started with any manifest that was stored, by `enroll.ts` or
  by hand.
- The key of a connect is named for its process, so keys do not collide.

## 5. Proofs

For every value of the constants, from the named assumptions:

- **HorsPolicyProofs**: `PolicyAllowsExactlyThePermitted`, `EqualPoliciesDecideAlike`,
  `OneStepUpSuffices`, by cases over the optional fields; the only sequence fact is that
  the first attested identity proof of the list is one with the least index.
  `AllowedIsPermitted` is the half the wrapper relies on, for every policy registration
  accepts, whatever stands in the fields registration does not check.
- **MCHorsPolicyProofs**: `DecidesByReference`, `DecidesAsPublished`, `OneStepUpIsEnough`.
  What the enumerating run checks is an invariant of its specification for any attributes,
  humans and lists.
- **HorsAuthProofs**: `AuthTypeCorrect`; `AuthInductive` for `AuthIInv`, from which
  `HeadersSpentOnce` and `CallIdsSpaced` follow; `AuthImplementsGate`. "Spent once" is not
  inductive: a second copy is refused because the store still holds the nonce, and it does
  because every copy still in flight arrived fresh (`InFlightTimely`) and the entry
  outlives the last moment such a copy can be verified (`NonceRemembered`, from
  `NonceOutlivesHeader`). The refinement maps a successful `LookupHuman` to `Admit`, a
  restart with volatile stores to `Forget` and everything else to a stutter.
- **HorsServerProofs**: `ServerVerifiesHeaders`, that the wrapper drives header verification
  by its own steps only, so that `AuthIInv` holds in the server; `ServerInductive` for
  `ServerIInv`, then `RunsMatchSignedCalls`, `RunsHaveEvidence` and `StatesRedeemedOnce`. A
  handler may run long after the header that started the call was verified, in another
  request. The invariant therefore carries what was signed from there to the run: wrapper
  and verification are equally far (`StageFollowsPhase`), a state binds the function, the
  arguments and the human of its request, which itself ran nothing (`StatesBindCalls`), a
  resume was accepted before the state expired and from the same address
  (`ResumesAccepted`), what awaits the World API brings a proof for the bound call
  (`ProvingMatches`), and a run belongs to the request's own call or to the one it resumes
  (`RunsForOwnCall`). `StepUpRemembered` is the clock part: as long as a redeemed state can
  be presented, the store holds its step-up key, from `StepUpOutlivesState`.
  `RunsOncePerCall` and `ServerImplementsRunGate` need one hypothesis more,
  `Durable \/ ~StableKey`: the key that signs states does not outlive the stores. Without
  it they are false (section 6). The refinement maps the step that starts a handler,
  `Decide` or `AcceptProof`, to `Admit` and a restart with volatile stores to `Forget`.
- **HorsReceiptsProofs**: `ReceiptsInductive` for `ReceiptsIInv`, then
  `DeliveredTextsWereExecuted`, `FirstPresentationsDecide`, `VerdictsDecide`. The invariant
  ties the brand to the phase of the execution that made the receipt: a receipt that was
  presented is given and no longer branded.
- **HorsRegistryProofs**, the registry: `RegistryInvariant` for `RegistryIInv`, then
  `NeverAhead`. A manifest `enroll.ts` stored is at most one version ahead of its service,
  versions only grow, and a transaction that commits to it brings one more version, whoever
  sends it. Of `Foreign` manifests nothing follows, and nothing is claimed.
- **HorsRegistryProofs**, discovery: `DiscoveryInvariant` for `DiscoveryIInv`, then
  `CacheIsPublished` and `CacheIsCommitted`. The invariant follows a draft from the texts it
  was built from, or the entry it was copied from, to the cache; histories only grow, so
  what was published when it was read still counts when it is written.
- **HorsRegistryProofs**, services: `BootInvariant` for `BootIInv`, on top of `RegistryIInv`,
  then `EnrolledOnlyOnce` and `CallsAreServedAsCommitted`; `BootImplementsRegistry` and
  `BootNeverAhead` carry the registry's results over. "Served as committed" is not
  inductive: it needs that what a client holds was vouched for (`HoldsVouched`, which
  stays true because `vouched` only grows) and that a running service still fits the
  manifest it was started with (`RunsAsPublished`); the hash ties the two together.
- **HorsTraceProofs**, the profile: `ProfileInvariant` for `ProfileIInv`, whose part
  `Progress` says for each step of a command that has met no other what the home looks like;
  then `ProfilesNameRegistered` and `LoneCommandsTakeEffect`. `HomeImplementsProfile` shows
  that traces and the watcher add no way to write the profile, and `HomeNamesRegistered`,
  `HomeLoneCommands` and `HomeInvariant` follow for the composed home.
- **HorsTraceProofs**, the trace: `SettledLinesStay` rests on the fact that no process is
  about to create a trace that holds a settled line. `LinesAreShownInOrder` and
  `WatchCatchesUp` come from `WatchInOrder`: the lines since the watch began are the last of
  the file, `end` says where each ends, the watcher's offset is one of these ends and what
  it has printed is that many lines; `size`, while it reads, is another end, and the last
  one unless `watchFile` still has a change to report. That a read from one end to another
  prints the lines between and leaves nothing in the buffer (`ReadPrints`) is induction over
  lines: `FoldLeft` is a recursive function over sets of positions, which is shown to exist
  (`FeedsExist`) and to take the cells one by one (`FedByCells`).
- **HorsCallProofs**, the vault: `VaultInvariant`, and `LimitIsKept` from `LimitInStep`. The
  limit is a sum over a set of calls; that the community module's sum is one, and grows by
  an amount when a call is added, is proved by counting units (`SumIsCount`,
  `SumOfOneMore`). The invariant says that of each type whose calls have missed nothing at
  most one is outstanding, that it was told all that is recorded, and that together with
  its own amount this is within the limit once it was approved.
- **HorsCallProofs**, the calls: `CallsImplementVault`, that calls drive the vault by its own
  steps only, a refinement in the composed module; `CallInvariant` for `CallIInv`, whose
  part `CallsConsistent` ties the phase of a client to its request, its answer and its
  handler, `TracesInStep` what its trace ends with to the phase, and `TimesInStep` the age
  of a state to the timer that is running; from it `CallsReportTruly`,
  `CallsReportTheirOwn`, `CallsAreAccounted`, `CallsKeepLimit`, `TracesTellOutcomes` and
  `CallsProveInTime`.

Every invariant and every action property that a passing run checks is thus stated by a
theorem. The invariants the runs do not name, `SettledIInv` and `WatchInOrder` of the home
among them, were checked on the run's instance before they were proved. The prover takes no
induction rule with a predicate as a parameter; where a recursive function has to be
reasoned about, induction is stated for a set instead (`ByInduction`), or by the smallest
counterexample (`SubsetsWellFounded`).

Model-checked only: `EveryCallAnswered` and `EveryCallEnds`, since liveness under fairness is
outside the prover's reach, and the runs of section 6, which refute.

## 6. Where documents and code differ

- `server_human`: a resumed call is tied to the address and not to the human AgentBook
  names at the resume (`hors.ts:681-695`, `docs/ARCHITECTURE.md:185-189`).
- `server_reuse`: with a stable state key and the default stores a state is redeemed again
  after a restart (`auth-context.ts:81-84`, `docs/SDK.md:202-203`,
  `docs/ARCHITECTURE.md:188-189`). The same configuration lets a call run twice after a
  redeployment whose policy asks for no step-up: the copy of its header is new to the empty
  store, and the state the old deployment gave is still good. That is why `RunsOncePerCall`
  assumes that the key does not outlive the stores.

Without a run, because a reader sees them in one place:

- Refusals of `handleStepUpReentry` are thrown as protocol errors without the diagnostics
  that `docs/SDK.md:483-485` promises (`hors.ts:372-472`).
- With `verifyTee` off an answer without provider or chat id is trusted on the router's
  word although a verifier is configured (`hors-executor-0g/src/executor.ts:149-162`,
  `types.ts:10-11`).
- Nobody checks that the account that enrolls a service id owns it, and a pinned
  `policyContentHash` without a manifest announces a hash the inline policies are not
  compared with: `ServedAsCommitted` therefore speaks of services with a manifest.
- The CLI signs no policy hash, so a service that announces one refuses its calls
  (`docs/SDK.md:268-270`).
- A borrow whose transaction reverted is entered in the ledger and reported as executed.
- The bridge traces the request of a call before it looks at its arguments; if it gets a
  proof without a state, or a state without a proof, it returns an error and writes no
  event, so the trace keeps a request nothing answers (`hors-cli/src/mcp/server.ts:440-465`).
- The registry takes any content hash from an owner, so a manifest made by hand may claim a
  version far ahead of the chain's (`src/contracts/src/HORSRegistry.sol:84-137`).

## 7. Plan, and what is not modelled

Next: `HorsCall` over the real `HorsServer` instead of the gate's promise, or the gate of
`HorsCall` shown to allow all that the server does, which needs requests of both to be
matched and a smaller instance of both.

Not modelled, and why:

- Hashing, canonical JSON, header and error encodings, diagnostics: pure functions, for
  which equality of values stands in.
- The building of assurance requests and their protocol versions, the contents of the audit
  log and of proofs, encryption of the keystore, QR rendering, the rendering of traces and
  profiles: output, or data no property tells apart.
- The lifetime of enrollment nullifiers, the checks of the manifest's format, and the
  compact policy entries of the contract, which nothing in the repository reads.
- `home.balance`, the demonstration executor that approves everything, `hello-hors`,
  deployment scripts and the landing page: they keep no state.

## 8. Running

`tlc -config MCServerClock.cfg MCHorsServer.tla` and so on; `PROJECT.json` pairs each
configuration with its module. `tlapm HorsAuthProofs.tla` checks a proof module.
