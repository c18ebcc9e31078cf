# A verification project for Enistere Foundation

This directory holds TLA+ modules that model the Enistere Foundation kernel and
its materializer, TLC configurations that check them on small instances, and
proofs that TLAPS checks for every value of the constants. Everything is
translated from the TypeScript under `src/`; `PROJECT.json` maps every
definition to the lines it stands for.

## The system

Foundation compiles *contracts* (JSON documents: requirements, decisions, an
organization context, domain contracts, a system definition, design systems)
into files of a repository, and records what it did so that it can be checked
later. One command of the CLI is one process; nothing runs in the background.

| Component | State it keeps | Operations | Modules |
| --- | --- | --- | --- |
| contract set and authority (`kernel/contracts`) | none, documents are values | validate one contract, validate a closed set, choose the revision in force | `ContractSet` |
| organization context and policy (`effective-organization-context.ts`, `policy.ts`) | none | derive the effective rules, validate, evaluate, find expired waivers | `EffectiveContext`, `Policy` |
| catalog and resolver (`catalog.ts`, `resolve.ts`) | none | validate a catalog, resolve components | `Resolver` |
| plan and facade (`plan.ts`, `facade.ts`) | none | validate, resolve, plan | `Resolver`, `Compiler`; the definition in force and its closure in `ContractSet` |
| system definition and domain contract rules | none | validate the domain side of a system | `SystemIR` |
| requirements and decisions (`requirement-baseline.ts`, `decision-set.ts`) | none | validate, find dependency cycles | `Requirements` |
| change requests (`change-request.ts`, their part of `contract-set.ts`) | none; the revisions and requests are documents | apply changes to a spec, validate a request, its base and its proposed revision | `ChangeRequests` |
| IR, domain IR, API contracts | none | resolve items, bind operations and events, project contracts | `SystemIR`, used by `Compiler` |
| design systems and bindings (`design-system.ts`, `design.ts`) | none | validate and resolve tokens, bind components | `DesignTokens` |
| adapter protocol and ownership rule (`kernel/extensions`) | none | plan the artifacts of a component, decide what happens to a file | `Ownership` |
| materializer (`engine/materializer/src/materialize.ts`) | the workspace: component directories with their files and record files | apply a plan | `Materializer`, abstractly `AtomicWorkspace` |
| extension host and manifests (`engine/materializer/src/host.ts`, `kernel/extensions/src/manifest.ts`) | none, loaded once per process | load extensions, turn manifests into a catalog, find an extension | `ExtensionHost` |
| NestJS adapter (`extensions/runtimes/nestjs`) | none | plan the files of a component; the script that checks its contracts | `NestAdapter`, `ServiceCheck` |
| verifier (`verify.ts`) | evidence files; child processes and ports | check a directory against its record, run toolchain steps, probe a component, run its contract check | `Verifier`, `Probe`, `ServiceCheck` |
| proof chain (`proof-chain.ts`) | a bundle file | export, verify | `ProofChain` |
| command line (`surfaces/cli`) | none | one of the above per process, exit status | `Begin`, `status`, `VFinish`, `verifyStatus` |
| schemas, canonical JSON, digests, versions, goldens, the texts of templates | none | parse, print | not modelled, see below |

How they interact: the CLI reads documents and extensions, calls the facade
(pure), hands its `PlanResult` to `materialize`, which asks the adapter for
contents, the ownership rule for decisions, and writes into the workspace. A
later process, `verify`, reads the records and the files; another, `export`,
reads the records and the evidence. The workspace is the only shared state. It
is also edited by the teams that own the components.

What is hard in it:

- *Nothing is locked.* Two invocations, or an invocation and an editor, may
  touch the same directory; what was read may be stale when it is used.
- *Nothing is transactional.* Files are written one by one, then the old record
  is marked superseded, then the new one is written; the process may die in
  between, and `writeFileSync` truncates before it writes.
- *The ownership rule works from memory.* It compares a file with the latest
  record; the history of several plans, drops and changes of ownership class
  decides whether a file looks like the compiler's or the owner's.
- *Partial success.* Components conflict, are rejected or are skipped one by
  one; the report, the status and the records must say so.
- *Time.* The probe and the generated contract check poll a process with timers,
  the second inside a command that is itself killed at a timeout; waivers expire
  between the compilation and the application of a plan.
- *Order.* Layers, locks and waivers combine in an order; a catalog is searched
  first match first, extensions are looked up last loaded first.
- *Separate conditions that must agree.* Validation and use of the same document
  are written twice: design tokens, items of Domain Contracts, the files that a
  generated project needs of one another.
- *People.* Proposals, decisions and Change Requests are commits of documents;
  the kernel judges sets of documents, not histories.

What makes each part correct is stated as properties, listed with the runs
below, and the hazards they answer are in `PROJECT.json` at their lines.

## Modules

`Ownership` is the decision table `decideWrite`, the set of decisions that
write, and `planArtifacts` with its protocol violations. A content stands for
its digest. `SafePath` stands for the regular expression of safe paths; the runs
render safe ones only, and a repeated path is what they refuse (the theorems have
both).

`Materializer` is `materialize` and the CLI around it. Each process is one
invocation and walks through the code with a program counter:

| Action | Code |
| --- | --- |
| `Begin` | the CLI compiles and calls `materialize`; an invalid compilation or an expired waiver plans no component |
| `ReadInventory`, `ReadFails` | `latestRecord` of the next component; a torn record file makes `JSON.parse` throw |
| `Decide` | one file of `artifacts.map`: read it and call `decideWrite` |
| `Conflict`, `Apply` | all files are decided; any conflict and nothing is written |
| `OpenFile`, `Write` | one `writeFileSync`: the file is truncated, then written |
| `OpenPrevious`, `Supersede` | the `writeFileSync` that rewrites the old record as SUPERSEDED |
| `OpenRecord`, `StoreRecord` | the `writeFileSync` of the new record |
| `Finish` | the records and diagnostics are returned |
| `Crash` | the process dies, or a call throws, before any of these steps; between the two halves of a write it leaves a torn file |
| `OwnerEdit` | a team edits, creates or deletes a file |

`writeFileSync` is not atomic to whoever reads meanwhile: between its two steps
the file is `Torn`, or the record in `broken`, and another invocation or a
verification that reads it then decides on a torn file or throws. When two
invocations write one file at once, what is left may be the bytes of either or
of both (`settled`, `PutRecord`).

The state is `disk` (files), `store` and `broken` (record files by revision, and
which of them do not parse), the local variables of each process, and history
variables that only properties read: `author` (who last changed a file),
`interrupted` (which requests died on a component) and `raced` (which files the
owner changed after a run had decided on them). What the kernel and the adapters give an invocation is the
constant `PlanResult`.

`AtomicWorkspace` is the promise: a directory and its inventory change together
(`Materialize`); an application that is interrupted has replaced or torn some of
the files it was allowed to replace and leaves the inventory as it was
(`Interrupted`); and owners edit. `Materializer` defines the refinement mapping
(`Promise`): until its record is stored, a file that is open or written counts
with the content it had when it was decided, so that the steps of a run are
invisible, `StoreRecord` is `Materialize` and a `Crash` is `Interrupted`.

`Verifier` extends `Materializer` with one verification that reads the
workspace while invocations and owners change it: one action per read of a
record store (`VRead`), of a file (`VReadFile`), and one per kind of check. What
a build or test command does is a choice of outcomes; a probe that finds no free
port ends the whole verification (`VPortFails`).

`Probe` is `runProbe` with a clock: the loop is synchronous between awaits, so
the clock and the child's events move only while it waits for an answer or for
its pause. The child may start, hang, answer something else, recover, exit or be
killed at any time, and another process may take the port.

`ServiceCheck` composes `Probe` with the next check of a NestJS component:
`runCommand` on the contract check that the adapter generated. `spawnSync`
blocks the verifier, so all of `Probe` but the child it left stands still
meanwhile; the script has a clock of its own, starts the service a second time
on a port of its own and talks to whoever listens there.

| Action | Code |
| --- | --- |
| `StartScript`, `ScriptFails` | the boot check passed and the command is run; without contract files the script exits at once; it cannot be run or finds no port |
| `Healthy`, `NotHealthy`, `PauseEnds` | the loop on `/health`: 200; refused or another status; the pause ends, and the deadline is looked at |
| `Answered`, `Refused` | one request of a contract is answered, by whoever listens; `fetch` rejects and the `finally` block stops the service |
| `Leave` | every answer was right: the script ends when the process it started does |
| `TimeOut` | `spawnSync` kills the script, which has no handler and stops nothing |
| `ServiceAnswers`, `ServiceEnds`, `ServiceTerminates`, `TakeServicePort` | the service and the other processes of the machine |

`EffectiveContext`, `Policy` and `Resolver` are pure: they translate the
derivation of the effective rules (a fold over ordered layers, then over
waivers), their validation, the four interpreted rules, the validation of a
catalog, the resolution and the steps of a plan. `KernelValues` holds what they
share. `EffectiveContext` also holds reference definitions (`decisive`,
`inForce`) that do not follow the fold. `SystemIR` is the domain side: what the
contract set requires of components and pinned Domain Contracts, how the
compiler resolves and binds their operations and events, and which API contracts
it projects; an item is `<<contract, id>>` as written and `<<position, id>>`
resolved, because several revisions of a contract may be pinned.

`Requirements` has every rule of a baseline and of a decision set, with the
depth-first search for dependency cycles: what is being visited is the trail, and a
visit is given how many more requirements it may enter, which is never too few.
`DesignTokens` has the validation of tokens and of the overrides of a
context, the recursive resolution and the bindings of components; the formats of
literals are the set of types that each literal fits. `ExtensionHost` turns a
sequence of manifest files, in the order of their paths, into what is loaded, a
catalog and diagnostics; what becomes of an entry when it is imported is part of
the file. `NestAdapter` has the files planned for a component, with their owner
and the other generated files that their text needs.

`Compiler` composes these pure modules: `Compile` is one call of the facade,
`Apply(at)` is the acceptance of the plan by `materialize` at an injected
instant. A request comes with a catalog, as a test gives one, or with the
extensions that the command line loads (`catalogOf`); the diagnostics of the host
change the result as they do in `cli.ts` (`reported`). A compilation that ends in
an exception has the status `THROWN`.

`ContractSet` is pure too: what the kernel says of one document (authority,
supersession) and of a set (references, digests, reliability, staleness), which
definition is in force and what its closure is. A document is a record; its
references carry the role they play in its spec; the content of a document
stands for its digest, so that two documents have the same digest exactly when
they differ at most in their status.

`ProofChain` is the life of such a set. People propose, rewrite, decide, derive
and supersede revisions (`Propose`, `Decide`, `Derive`, `Supersede`,
`BecomesStale`); a decision is stated by a human, by a system with or without an
approval policy, or by an agent (`Acceptor`), and `decideActor` judges it. These
actions are what the code allows, not code: `Commit`
keeps a change only when `validate` accepts the set, which is how the repository
uses it, and status changes are kept whatever they break. `Materialize` and
`Verify` are whole invocations that add records and replace evidence
(`Materializer` and `Verifier` have their steps). `Export` is
`exportProofChain`; what `verify-bundle` would say of the bundle is the operator
`verifyProofChain`. An exported bundle is self-contained, so a history stops
there.

`ChangeRequests` is the life of one definition under Change Requests. The rules
(`applyChanges`, the validation of a request, of its base and of the revision it
produced) are the code; the actions are what people commit: they propose a
request, write and decide the revision it asks for, which may differ from what
the changes say, rebase a stale request, apply it, correct a revision in place.
A request is rebased and applied by what `verifyChangeBase` says of it. A commit
may leave the set invalid; the property speaks of valid sets.

`MCMaterializer`, `MCVerifier`, `MCServiceCheck`, `MCCompiler`, `MCProofChain` and
`MCChangeRequests` hold the small instances.
`MaterializerProofs` and `VerifierProofs` (which extends it), `ServiceCheckProofs` (the
probe included), `CompilerProofs` and `ContextProofs` (which extends it),
`ProofChainProofs` and `ChangeRequestsProofs` hold the theorems; `Induction` has the
lemmas on natural numbers and recursive functions that several of them need. Definitions
introduced by "Faulty variant" are not part of any specification: each is a
plausible bug, and `PROJECT.json` pairs it with the property that detects it.

## Runs

| Run | What it shows | Bounds |
| --- | --- | --- |
| `materialize` | no content of the owner is replaced; records are a chain of immutable valid revisions; a reported MATERIALIZED is on the disk and in the records; a conflict is never the compiler's own doing but for runs that died; the file-by-file materializer implements `AtomicWorkspace` | two components, three files (two owned, one seeded), three invocations of seven (two plans, rejected, repeated path, expired, missing adapter, external), a crash anywhere, one owner edit between runs; about 1 min 50 s |
| `overlap` | a recorded file has its digest unless it is torn or the owner's; the only conflicts are with the owner and with files caught half written; an edit is lost only between the decision and the write; every invocation ends | two processes, three invocations of one request, two files, one crash, one edit at any moment |
| `probe` | the probe returns in time and blames no component that serves; what the contract check passes was answered by the component itself, and it fails none that served in time and has nothing implemented it asks about; both checks end and leave no process unless the command had to be killed | timeouts 4 (boot), 2 (health) and 4 (command), request 2, pause 1 ticks, both ports may be taken; no contract, or a document and an operation without input; about 551000 states |
| `verify` | every check is accounted for, PASS is true of an undisturbed directory | two components, of which one may keep a record of an adapter version that is not loaded and is skipped; two files, two invocations, one edit, one crash, one verification of three checks, one of them a probe that may find no port |
| `compile` | the rules in force are the declarative ones and the trace explains them; resolution does not depend on the order of the catalog; the plan hides nothing; a consumed operation is in the contract its provider and its consumer share; no domain intent and no requirement is lost; what is applied is allowed at that instant; a step is carried out by a loaded extension that can, and nothing is applied after one that should run in this process failed to load (`PlannedIsLoaded`); tokens resolve to literals of their types, the only exception being a cycle of overrides (`TokensResolve`); exactly the cycles of the dependencies are reported (`CyclesAreReported`); every file that a generated one needs is generated too (`ImportsResolve`) | about 20800 states: three components over a Domain Contract of two operations and two events, pinned once, twice or with an error, seven ways to consume and three to subscribe; four accesses of two components to data stores; up to three layers in three precedence orders with a tie, locked and unlocked, five lists of up to two waivers, eight catalogs, four systems, three instants; extension files in every state of disrepair; trees of three tokens with aliases and overrides; all dependency graphs of three requirements; baselines and decisions that break one rule each |
| `bundle` | nothing undecided is compiled but what was superseded without a decision; an exported bundle verifies exactly when every component was last made from the exported compilation; in a bundle that verifies, evidence is about that compilation or reported stale; a lifecycle change invalidates no set and leaves what is compiled as it is | a baseline, decisions, a context and a definition of two components (symmetric), two revisions each, acceptances by a system with and without policy and by an agent, four moves, two materializations of a component, one catalog |
| `changes` | in a valid set the definition in force is what the applied changes give one after the other, however requests met, were rebased, or revisions were corrected in place | two Change Requests, five things to ask for (two members and an array, changes that meet, that need the owner's work, that may not proceed), four revisions, one edit in place; about 263000 states |
| `record_race`, `dropped_path`, `reclaimed_seed`, `rejected_input`, `contract_implemented` | disagreements between code and documents, below | as small as the counterexample allows |

The bounds are enough in this sense: every action and every disjunct is taken;
three files in path order distinguish first, middle and last of a loop that is
interrupted; three invocations are the shortest history in which a record is
superseded twice and a file can be dropped and come back; a crash may fall between
or inside any two writes and is followed by up to two more runs; the probe's timeout holds more than one round
of request and pause, so that the deadline can fall inside any of them; the
script's deadline falls inside its pauses and its command's timeout inside every
state of the script, while requests with an input fail or pass as the document
does and are left out of the instance (the theorems have them); three layers are
needed for a lock that comes after an override and before a refusal; three
tokens and three requirements are the fewest with a chain into a cycle;
four moves are enough to propose and accept a new definition and supersede
the old one, with one more move anywhere in between. That an undecided contract
is compiled at all takes five (`rejected_input` has them): in `bundle`
`UndecidedWasSuperseded` is tested by the sequences that stop short of it, and the
theorem covers the rest.

`Isolated = TRUE` (one invocation at a time, the owner edits between
invocations) is assumed in `materialize`, `dropped_path`, `reclaimed_seed`, `verify`
and the theorems that name it, because the code has no lock. `overlap` and
`record_race` drop it, and what is said there holds of any interleaving: the edit
that is lost after it was decided on (`raced`), the record that another run
replaces, the file that is read half written. A verification interleaves with
everything in `verify` too.

Deadlock checking is off: an invocation that ends, a probe that has returned, an
exported bundle and a plan that nobody applies are final states, and the bounds
stop the rest.

## Fairness

`FairSpec` of `Materializer` has weak fairness on the steps of each process: a
started command is scheduled by the operating system until it returns or dies.
Nobody is obliged to invoke, edit or crash.

`CheckFairSpec` of `ServiceCheck` has weak fairness on the loop of the probe, on
its clock, on the script, and on the death of the child and of the service after
SIGTERM; and strong fairness on the time of the script (`TimeOut`, `ScriptTick`),
because a service that changes its behaviour to and fro within one tick disables
and enables the clock without stopping time. No process is obliged to start, to
answer or to end by itself. That a process obeys SIGTERM is an assumption on the
component, not on Foundation: a child that ignores it keeps the event loop of
the command alive, and the code sends nothing stronger.

## Proofs

`MaterializerProofs` proves, for any number of components, paths, plans,
processes, crashes and edits:

- `MaterializerTypes`: `Spec => []TypeOK`, by one lemma per action. It does not
  need isolation.
- `OwnerContentSurvives`, `RecordsNeverChange`, `RecordsFormAChain`: the
  properties `NoSilentOverwrite`, `RecordsImmutable` and `SupersessionChain`, under
  `Isolated = TRUE`.

None of these is inductive by itself. The strengthening is: `LocalsOK` (what a
process holds at each point of the loop; a record file holds the revision its
name says), `Exclusive` (at most one live run), `PreviousIsLatest` (the record a
run read is still the latest in the store, marked superseded only just before
the new one is written, and only the record file it is writing does not parse),
`RecordsRendered` (a recorded digest is one that some plan renders at that path)
and `DecisionsCurrent` (a decision that is still to be applied is the one that
would be taken now: of isolated runs only, and no more than a step of these
proofs). An UPDATE is then decided only when the file has a recorded digest, which
is a rendering, so no content that only the owner can have written is replaced; a
new record has the revision after the latest one, so it replaces none.

It builds on these:

- `RecordsAreValid`: `Spec => []StoredRecordsValid`, with overlapping and dying
  invocations too. The strengthening `RecordsSound` says of every record, stored
  or held by a run, that it is valid and gives files the owners that plans give
  them, and of every run that it decides no UPDATE or CONFLICT of a seeded file.
- `ConflictsAreForeign`: `[]ConflictIsForeign`, under `Isolated`,
  `SteadyOwnership` (the plans of a component agree on who owns a file) and
  `SteadyPaths` (and on which files it has); the finding `dropped_path` is a
  counterexample without the last, and `reclaimed_seed` shows the kind of change
  that the first excludes. The invariant is `FilesAccounted`: the content
  of a compiler-owned file is absent, torn or the owner's, or the latest record
  lists it, or a run that died on the component or is still writing put it there.
- `ReportedIsInPlace`: `MaterializedIsInPlace`, under `Isolated`. `FilesInPlace`
  (what a run has written is what its plan says, and when it comes to its record
  every planned file is in place) gives the record of each component;
  `OutcomesKept` carries what was reported of a component to the end of the run.

Of overlapping runs, which read what another one is in the middle of writing, die
at any step and meet edits at any moment, it proves:

- `EditsAreLostInTheWindowOnly`: `Spec => OnlyRacedEditsAreLost`, without any
  assumption. `RacesNoted` is inductive: a file that a run is going to write holds
  a rendering, nothing or torn bytes, or the owner changed it after the decision,
  because `decideWrite` writes only where there was no file or what a record lists.
- `OverlappingRunsAgree` and `OnlyTheUnfinishedConflict`: `[]SameRequestConverges`
  and `ConflictIsUnfinished`, when all invocations make the same request
  (`SameRequest`). `Converging` says what no invocation can take from another: a
  file the owner did not touch is absent, torn or a rendering, and torn only while
  a run has it open or after a crash (`Agreed`); the files that a stored record
  lists are there (`StoreKept`); and so are those that a run found, has written or
  has open, and those its previous record lists (`Harmless`). A conflict with
  anything but the owner is then one with a torn file.

It also proves `MaterializerImplementsPromise`: `Spec => ImplementsPromise`, under
`Isolated`, crashes, torn files and edits between the runs included. Its lemmas go
step by step. Reading, deciding, opening, writing and superseding change nothing
the promise sees: a file that is open or was just written counts as it was when it
was decided, which is what was on the disk because decisions are current, and a
record marked superseded still lists what it listed. `StoreRecord` is the
promise's `Materialize`: its guard holds because an UPDATE replaces the listed
digest and everything else is in place (`FilesInPlace`), and a seeded file was
written only where there was none (`RecordsSound`). A `Crash` is its `Interrupted`:
the files that were written have the content of the plan, the one that was open is
torn. That `before` and `listed` mean what they are read as is stated of single
states (`FilesSeen`, `ListedSeen`), so that a step has it of both its ends.

`VerifierProofs` proves, without assuming that invocations do not overlap, and with
the invariants of `MaterializerProofs`, which a verification does not disturb:

- `VerificationIsTyped`: `[]VTypeOK`. That a component is checked only with an
  adapter that is loaded (`CheckingOK`) is part of the induction, and rests on
  `RecordsPlanned`: a record is of a component that its request plans for.
- `NothingIsLeftOut` and `PassIsTrue`: `[]EvidenceComplete` and
  `[]PassIsInPlace`, from `Progress`: of a directory that is finished, every
  check has its one result and a structural PASS is true of the record and the
  files; of the one being checked, this holds of the checks before `index`,
  `blocked` says whether one of them did not pass, and every file that differs
  is among the mismatches or still unread. `Progress` speaks of a verification
  that nothing disturbed; a change of the workspace under it sets `disturbed`.
  Both need `ManifestAssumption`, which `validateManifest` checks when an adapter
  is loaded: check ids are unique and one check is structural.

`ServiceCheckProofs` proves of the probe `ReturnsInTime`, `ServingIsSeen` and
`NotStartedIsError` for every timeout, request limit and pause, from `ProbeInv`:
where the clock may be at each point of the loop, how long a serving child can
have been overlooked, and when a failed start is looked at again. Of the two
checks together it proves, for any contracts and timeouts:

- `ChecksAreTyped`: `CheckSpec => []CheckTypeOK`.
- `ContractCheckIsRight`: `CheckSpec => []CheckIsRight`, from `CheckInv`. The
  verdict alone is not inductive; the strengthening says how far the script is
  (`ScriptInv`), who listens on its port (`ServiceInv`), that answers without a
  failure are the component's own unless the port was taken (`AnswersInv`), and
  that a service which came to serve in time is noticed at the end of the pause
  it came up in and is found at fault only for what its team implemented
  (`SteadyInv`).

`ProofChainProofs` proves, for any template of contracts, any organization of
their references and any number of components, revisions and moves:

- `RecordsAreHistories`: `Spec => []PCInv`. `DocumentsOK`: a document is a
  revision of a contract of the template, there is one with each key, and every
  contract has one. `RecordsOK`: the records of a component are one history, of
  which the last is VALID and each other is superseded by the next, and each names
  a definition that is still there (`restsOn`) and has the component. `EvidenceOK`:
  evidence checked one record of its component. `BundleOK`: a bundle is what would
  be exported again. `TypesCorrect` (`[]PTypeOK`) follows.
- `UndecidedOnlyBySupersession`: `[]UndecidedWasSuperseded`, with no assumption on
  what is superseded. `DecisionsSettled` makes it inductive: a contract in force was
  accepted by someone who may decide (a human, or a system under an approval
  policy), one that was so accepted is in force or superseded, and what it named
  then is still there with the content it was pinned with, itself once in force or
  superseded. Along the references that a compilation follows, what is undecided
  is then a contract that was superseded without a decision, or named by one
  (`PinsAreExplained`); a later move does not change that (`StaysExplained`). That
  such a contract is compiled at all is the finding `rejected_input`.
- `EvidenceIsOfTheBundle`: `[]EvidenceIsAboutThis`. A superseded record has a
  later revision in force in the bundle, so that evidence of it is reported stale.
- `BundlesVerify`: `[]ExportVerifies`. All that a repository has is valid when its
  documents are (`RepositoryIsValid`); what is exported is a part of it that has
  whatever its documents name (`ReferencesAreReached`), because the rounds of
  `referenceClosure` stop growing (`Saturates`); such a part is valid
  (`PartIsValid`), selects the same definition and reaches the same contracts from
  it (`PartSelects`, `PartReaches`), so that it replays.
- `LifecycleStaysLifecycle`: `Spec => LifecycleIsNotContent`. Superseding keeps
  every rule of a valid set, and what references reach is the same but for one
  status, round by round (`SameRounds`).

They rest on two lemmas about `ContractSet`: `ValidKeepsRules` and
`RulesMakeValid` say that a set is `valid` exactly when it keeps the rules of
`isValidSet`, which the diagnostics only report.

`ChangeRequestsProofs` proves, for any members, values, requests, corrections
and numbers of revisions and edits:

- `ChangesAreAChain`: `Spec => []CRInv`. Exactly one revision is in force, pins
  name revisions that were written, and each applied change starts from the
  revision that the one before it produced (`AppliedChain`).
- `AppliedSurvive`: `[]AppliedChangesSurvive`. In a valid set every applied
  request pins the contents as they are and its changes give the revision it
  proposed, so that replaying the chain gives, change by change, the specs of its
  revisions, and at its end the definition in force.

`CompilerProofs` proves, for any number and content of system definitions,
contracts, catalogs, contexts, manifests and instants:

- `Compiled` (a lemma): `Spec => []CInv`. The result is exactly what the stages make
  of the input, and each stage ran with the answers of the one before it; every
  theorem about a `result` starts here. What validation accepted then holds of what
  was compiled (`AcceptedIsCompiled`): a plan exists only without error
  diagnostics, and `NoErrors` turns each diagnostic that did not appear into the
  rule it reports.
- `ConsumersAreServed`, `RequirementsEndSomewhere`, `PlansHideNothing`:
  `ConsumersShareTheContract`, `RequirementsAreTraced` and `NothingDropped`. Most of
  the work is that a list put together from lists of parts, and sorted, has the
  members of the parts (`Flattened`, `ConcatMembers`, `InOrder`).
- `IntentSurvives`: `DomainIntentIsKept`, of Domain Contracts whose invariants apply
  to at least one type, as `domain-contract.schema.json:86` requires
  (`InvariantsApplyToTypes`). Who emits and who awaits an event comes through the
  projection, the shared contract and the plan.
- `ResolutionIsReproducible`: `ResolutionIsDetermined`. Catalogs the host makes have
  no two adapters of an id and list each capability once (`CatalogIsWellFormed`: the
  host refuses a duplicate), and the resolver picks by rank and id, never by place.
- `PlansAreRunnable`: `PlannedIsLoaded`. A step is carried out by an entry of the
  catalog (`RealizedBy`), the catalog comes from the descriptors of the loaded files
  (`LoadedFiles`, `DescriptorsOfManifests`), and each descriptor is found again
  under its id (`LoadedIsFound`).
- `ProjectsAreWhole`: `ImportsResolve`. What a plan contains is listed file by file
  (`PlanIsGenerated`); what each of them needs is then in the list too
  (`ImportsAreGenerated`), by cases on whether the component has contracts and on
  which file it is. From the entry point the controller and the owner's handlers of every
  contract are reached in four steps (`FourSteps`). Whether a path is planned twice
  is counted: 11 paths, and with contracts four more and six for each context
  (`PathsCount`), against as many files with six for each contract.
- `TokensEndInLiterals`: `TokensResolve`. The tokens that are resolved after some
  rounds of aliases are resolved after one more round, and once a round adds none no
  later one does, so they stand still after as many rounds as there are tokens
  (`RoundsAre`, `ChainStands`); what is left then refers only to itself
  (`LeftOverIsClosed`). Validation gives an alias the type of its target, with every
  override too (`OverriddenIs`), and a token keeps it through the rounds.
- `SearchesFindCycles`: `CyclesAreReported`. A visit of the depth-first search
  leaves the trail as it was, and as long as no cycle was met, what it is done with
  depends on nothing else, has no cycle (`settled`) and contains the visited
  requirement; by induction on how many requirements a visit may still enter
  (`VisitorsSettle`), and under it on the list of children (`AllSettle`). No visit is
  cut short, because no requirement is on a trail twice (`TrailIsShort`). A walk
  along aliases that comes back goes round in a loop (`ReturnIsLoop`), and from a loop
  it comes back after as many steps as there are tokens (`LoopReturns`).
- `ResultsAreTyped`: `CTypeOK`, where null is not one of the functions of the
  compiler (`NullIsNoFunction`: in TLA+ a model value may be).

`ContextProofs` proves of the rules in force, for any layers and waivers of an
effective context, in whatever order a document lists them:

- `RulesAreTheReference`: `[]EffectiveIsReference`. The code folds the layers, sorted
  by precedence, into a working set and then applies the waivers by id; the property
  says what a rule is worth without any order of computation. The loop invariant of
  the layers is `made`: after some of them, a rule has an entry when one of them
  defines it, with the value of the first that locked it, else of the last that
  defined it. Of the waivers it is `waived`: the value of the last one so far.
- `TracesExplain`: `[]TraceExplains`. After every layer and every waiver the trace of
  a rule is `explained`: as many entries as layers define it and waivers replace it,
  each of one of them and no two of the same, and exactly one in force, which has the
  value of the rule. That the entries are as many as the definitions is counted by
  bijections.
- `AppliedComplies`: `[]AppliedIsCompliant`. `policy.ts` finds what the layers said of
  a rule in its trace: the last entry of a layer that was not refused, which has the
  value the layers left (`spoken`), also after waivers demoted it, and the waiver it
  finds by the source of the rule is the last one (`sourced`). Every subject then has
  one outcome (`EvaluateIs`), a violated one stops the plan, and an expired waiver
  stops its application. Here null is not a set of reports either
  (`NullIsNoReport`), and instants are naturals (`InstantAssumption`).

All three use that recursions over a list are defined up to its length and that layers and
rules are lists of the form their schema requires (`isContext`), and are of results
where null is not a function.

`Induction` proves induction on natural numbers as a statement on sets
(`SetInduction`), that sets of naturals have least and greatest elements, and
that recursive functions exist and are unique (`NatRecursion`,
`RecursionAgrees`); the closures of `ContractSet` and `ProofChain` and the
replays of `ChangeRequests` are unfolded with them.

The assumptions are the named ASSUMEs of the modules (bounds are naturals, null
and torn values are distinct from documents; in `ProofChain` a template is finite
and its references do not go round, as the first revisions pin one another's
digests; in `ChangeRequests` requests and corrections are of the declared types; in
`Compiler` documents have the form their schemas require, and an experience names a
design system of the closure); TLC evaluates them on every run.

A list is sorted by the rank of its entries (`KernelValues.inOrder`) and a
recursive definition is a recursive function, because tlapm reaches no RECURSIVE
operator; for the same reason the closures of `Requirements` and `DesignTokens`
are functions.

Only model-checked: liveness (`RunEnds`, `ChecksEnd`), which is out of the prover's
reach. Every other property a passing run checks is a theorem, under the hypotheses
named above.

## Findings

Each is a run that TLC ends with a counterexample.

- `record_race`: two overlapping invocations compute the same revision; the
  second record replaces the first under the same reference.
- `dropped_path`: a file that one plan dropped stays on the disk and is
  forgotten; when a later plan renders it again it is a CONFLICT although the
  compiler wrote it.
- `reclaimed_seed`: a file that was seeded and not edited since is updated by the
  compiler once its component goes from OWNER_MANAGED to COMPILER_OWNED, because the
  inventory does not tell who owned a file; `ownership.ts:9` says of a seeded file
  "KEEP — owner's from now on", and ADR-096 that it belongs to the team.
- `rejected_input`: a revision nobody accepted counts as reliable once it is
  SUPERSEDED (`registry.ts:55`), and needs no acceptance (`authority.ts:23-27`), so
  that a definition that rests on it is compiled and materialized, against
  `diagnostics.ts:79`. `UndecidedWasSuperseded` says that there is no other way.
- `contract_implemented`: the generated contract check expects 501 of every
  operation without input for ever, so a component fails it as soon as its team
  has implemented one.

## Limits of the code that the models show and no property claims

- A record file truncated by a crash makes every later `materialize`, `verify`
  and `export` of the workspace throw (`ReadFails`, `VReadFails`), and a file
  truncated by a crash is a CONFLICT, until someone deletes them.
- Invocations that overlap may read files and records that another one has
  truncated, and throw or report a conflict; two that write one file at once may
  leave bytes of both; two of different requests may leave the files of one and the
  record of the other. `SameRequestConverges` is about one request.
- An owner's edit between the decision on a file and its write is lost
  (`OnlyRacedEditsAreLost` says: only then).
- An invocation that dies between two writes leaves files that no record lists
  until the same request is run again: the promise has `Interrupted` for that.
- The CONFLICT record that `materialize` returns, and does not store, lists the
  CREATE and UPDATE decisions that were not carried out (`materialize.ts:145`), and
  the rules of a MaterializationRecord reject it: `StoredRecordsValid` is about
  what is stored.
- When no port is free, `runProbe` rejects and nothing catches it: the verification
  ends without a report (`VPortFails`).
- A verification reads a record once and checks against it for minutes; evidence may
  cite a record that was superseded meanwhile. `PassIsInPlace` and
  `EvidenceComplete` speak of verifications under which nothing changed.
- A port may be taken between `freePort` and the child's bind; whoever answers
  the expected status makes the probe PASS; and of the contract check, if that
  port was taken too.
- A contract check that is killed at the timeout of its command leaves the service
  it started alive, with its port.
- A child killed by a signal has a null exit code and is polled until the
  deadline.
- Evidence is always revision 1 and replaces that of an earlier verification.
- A component whose record names an adapter version that is not loaded is
  skipped with a warning; the command reports PASS if the others pass.
- `verify-bundle` prints errors only: evidence that the set reports stale
  (`EVIDENCE_STALE` is a warning) leaves a bundle valid.
- The latest record of a component that the definition no longer has stays VALID,
  so every later bundle of that workspace fails with PROOF_RECORD_MISMATCH.
- The bundle leaves EvidenceRecords and MaterializationRecords out of `contracts`,
  on which the compilation is replayed: a contract that cites one of them makes
  the replay fail.
- With several waivers of one rule only the last one is looked at when a plan is
  applied: `AppliedIsCompliant` is stated for the waiver in force.
- When two revisions of a Domain Contract are pinned, the operations of the
  earlier one are reported as unimplemented: items always mean the last one.
- The `consumers` of an API contract are all components that consume one of its
  operations, from whichever of several providers (`ir.ts:122`).
- Identifiers are unique in each section of a Domain Contract only: an invariant
  on a type that is named like an operation another component provides is in
  nobody's owner work (`plan.ts:67`). `MCCompiler` has distinct identifiers.
- An alias cycle that only the overrides of a design context close passes
  validation and makes the compilation throw (`design.ts:39`);
  `TokensResolve` says that nothing else does.
- Two Domain Contracts of one bounded context give the same paths twice, which
  `planArtifacts` refuses; bounded contexts that differ in separators only (`a-b`,
  `a.b`) give the same identifiers in the generated code.
- The validation of a set does not see that a second APPLIED Change Request of one
  base undoes the first: `AppliedChangesSurvive` rests on people who call
  `verifyChangeBase` before they apply.
- Two spellings of one path (`a`, `./a`) are two paths for duplicate detection.

## What the models leave out

`executedAt` is not part of the modelled record identity: the CLI cuts it to the
second, so it does not tell two runs apart reliably. Text, layout and digests are
abstracted to equality of contents. Schemas, canonical JSON, SemVer and reference
syntax are character-level formats or a schema library: a document that breaks
its schema is one flag. A bundle is one whose digest matches: altered or
malformed bundles are not modelled, nor are migrations and items of a document
other than components. A change of a Change Request addresses a member or a
position of one array, not deeper pointers. Of the rules of a Domain Contract and
of a System Definition those are modelled on which something later depends;
unique identifiers, type expressions and lookups of integrations, environments
and roles are left out, as are the fields of EvidenceRecords other than what they
are about. The NestJS adapter is modelled by its files and by its contract check,
not by the texts of its templates. The goldens are test data and their generator.

## Plan

1. *Done*: materializer with crashes and overlap, its promise, verifier, probe,
   contract check; organization context, policy, resolver, extension host, system
   definition and IR, requirements, decisions, design tokens, API contracts, NestJS
   artifacts, facade stages; contract set, proof chain and Change Requests; the
   theorems above.
2. Next in the models: the remaining rules of Domain Contracts and System
   Definitions in `SystemIR`, the fields of EvidenceRecords in `ContractSet`,
   `Migrations` (`versioning.ts`), Change Requests as documents of `ProofChain`.
3. Next in the proofs: what the new rules of item 2 exclude. Liveness stays with TLC.
