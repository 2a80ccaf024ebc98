# devscout: a verification of its concurrent core and its answers

devscout indexes a repository with `devscout map` and answers questions about it with `refs`,
`read`, `impact`, `tests`, `find` and `export`; hooks feed the same index to a coding agent. All of
these are separate processes. They share a directory of files, one advisory lock, a few SQLite
stores and a registry, while the user edits, commits and switches branches under them and any of
them may die at any step. This project models those processes step by step, and the pure algorithms
behind an answer as operators; it checks them with TLC and proves the core with TLAPS.

## Inventory

| Component | State it keeps | Operations | Talks to | What makes it correct |
| --- | --- | --- | --- | --- |
| map pipeline (`mapcmd.rs`, `mapcmd/`) | a run's memory only | `map_repo` | every file of the index, Git, the checkout | the graph a run leaves is the one a build from scratch would leave; scoped maps merge |
| freshness publication (`freshness/publish.rs`, `record.rs`) | `map.lock`, `index-state.json`, `index-digests.json` | lock, mark, write digests, publish | map before, queries after | no certificate over a half-written pair |
| freshness validation (`freshness/validate.rs`) | a query's memory only | `begin`, `finish` | record, digests, artifacts, Git | `fresh` is never said of bytes that were not indexed, and is said of an undisturbed index |
| status and relevance (`freshness/status.rs`, `relevance.rs`) | none | one `git status`, path filters | Git | fails closed for a certificate; `is_working_tree_dirty`, which the compiler-facts lane asks, fails open |
| graph and fragment cache (`graph/`) | `graph.json`, fragment cache and index, three sidecars | rebuild or keep | map, queries, export | reuse never mixes bytes or worktrees |
| manifest (`manifest.rs`) | `manifest.json` | read, write, find | map, find, hooks | keys name the bytes the entry was written for |
| enriched lane (`semantic/`) and compiler facts (`graph/compiler_facts/`) | one admitted artifact | run, import, admit, decide the lane | engine process, map | facts of a checkout the decision never saw are not used, and the lane record says which lane was built |
| transport facts (`transport/`) | a sidecar | discover, assemble | map | an edit to a settings file is noticed |
| project and Cargo models (`project.rs`, `rsgraph/crates.rs`) | two sidecars | discover | map | an edit to a configuration file is noticed |
| fact export (`export/`) | none | one bracketed read of six inputs | everything above | one generation or a refusal |
| agent hooks (`hookio.rs`) and stores (`store.rs`) | session and content databases, `refresh-needed` | read hook, bash hook, prune | manifest, Git | a stub stands only for content that was delivered |
| init and registry (`initcmd.rs`, `repo.rs`) | registry, hook settings | init | map | registrations survive, settings are never torn |
| queries (`query/`, `render/`, `cli/`) | none | find, refs, read, impact, tests | graph, manifest, validation | pure functions of one graph |
| resolution (`resolve/`, `tsgraph/`, `rsgraph/`) | none | one function of all fragments | map | a name means what the language says; the order of files and of lines does not matter |
| extraction (`extract/`, `parse.rs`, `preproc.rs`, `markup.rs`, `ngtemplate/`) | none | one function of one file's bytes | map | deterministic |
| walk (`walk.rs`, `walk/`) | none | list sources, ignore set | map | scope and ignore rules agree everywhere |
| telemetry, audit, truth, suggest, offsets, usage | an append-only log; reports | | | measurement, read by nothing above |
| `tools/scout-semantic`, `bench/` | | | | a separate .NET engine; benchmarks |

The hard behaviours: processes that share plain files and SQLite stores with at most one advisory
lock between them, a crash between any two writes, two worktrees over one index, HEAD and file bytes
that move while they are being read, an engine process raced by a reader thread and a deadline, and
a few algorithms whose answers depend on an order or a bound. `PROJECT.json` lists each as a hazard
at the line where it bites, and says of every component whether it is modelled.

## Modules

| Module | Models | State |
| --- | --- | --- |
| `WorkTree` | what Git and the user do to the checkouts; the environment, not code | `tree`, `head`, `commits`, `edits` |
| `IndexStore` | the files of the index and how each is read | `record`, `digests`, `manifest`, `graph`, `units`, `crates`, `transport`, `cache`, `index`, `refresh` |
| `MapRun` | `map_repo`, one action per step that reads the checkout or writes a file | `mpc`, `run`, `lock`, `gens` |
| `Validation` | a query: `begin`, its two reads, `finish` | `qpc`, `ask` |
| `IndexProtocol` | everything above at once, with crashes, a foreign build and the read hook's flag; the properties | `foreign`, `calm` (history) |
| `IndexReaders` | `devscout export` and the read hook's offer, which publish what they read, beside the protocol | `rpc`, `got`, `replaced`, `whole` (history) |
| `CertifiedIndex` | the abstract index: one value, withdrawn before another is put, taken whole or not at all | `index`, `open`, `seen`, `taken` |
| `CompilerFacts` | `compiler-facts run` and `import`, the engine, its reader thread, admission, and the lane decision of a map | `checkout`, `artifact`, `verb`, `engine`, `reader`, `lane`, `seen`, `lapses` (history) |
| `HookStores` | the hooks' SQLite tables; one operator per statement; migrations | `reads`, `bash`, `layout`, `content` |
| `Hooks` | `hook read`, `hook bash` and `devscout clear` over those stores, one action per statement | `step`, `call`, `calls`, `inContext` (history) |
| `InitRegistry` | `devscout init`: root finding, `info/exclude`, the registry, the agent's settings | `excluded`, `scoutDirs`, `registry`, `settings`, `backups`, `run` |
| `Impact` | the impact walk with its brakes, as operators | |
| `CSharpNames` | the C# name ladder, project visibility, base walk | |
| `SemanticOverlay` | what compiler facts do to the ladder's edges and counters, the last pass over the guesses included | |
| `TsExports` | TypeScript exports, barrels, import bindings; a walk is a recursive function of the hops it has left | |
| `RustScopes` | what every Rust `use` binds, by a worklist | |
| `Questions` | one question put to `Impact`, `CSharpNames`, `SemanticOverlay` or `TsExports`, what it may be (`QuestionOK`) and what its answer owes | `question` (never changes) |
| `Answers` | the bounded inputs the algorithms above are asked about | |
| `MCIndexProtocol`, `MCIndexReaders`, `MCProgress`, `MCAgents` | values and compositions for TLC | |
| `IndexProtocolProofs` | proofs: types, the lock, the marker, the query's bracket | |
| `IndexWholeProofs` | proofs: what is on disk under a certificate, what a map leaves, scoped maps, the pair a fresh answer read | |
| `IndexFreshProofs` | proofs: that a fresh answer describes the checkout, and that an undisturbed index gets one | |
| `IndexReadersProofs` | proofs: the export implements `CertifiedIndex`; the hook's offer | |
| `CompilerFactsProofs`, `HooksProofs`, `InitRegistryProofs` | proofs about the components of those names | |
| `QuestionsProofs` | proofs: what the answers of `Questions` owe, for every graph, repository, layer, set of files, option and bound | |

`IndexProtocol` extends `Validation`, `MapRun`, `IndexStore` and `WorkTree`; `IndexReaders` extends
`IndexProtocol`. The other components share no variable with them: `MCProgress` and `MCAgents`
compose several of them as a sum, in which the initial state chooses the component that moves
(`component`) and the others stand still. In `MCAgents` an algorithm takes no step: each input is an
initial state, and the property compares the algorithm with its definition there. A question is a
variable that never changes, so a theorem about it is a theorem about every input.

### State and code of the index protocol

* A file's content is a member of `Contents`. The digest, the reuse key, the fragment and the
  parsed model of a file are all functions of its bytes, so each is represented by the bytes it came
  from; that is what lets the properties compare them. `Unread` is the key 0 of a file that could
  not be read, `None` an absent value, `Absent` an absent file.
* `graph.inputs[f]` is the bytes of `f` that resolution used; `None` where it had no reason to read
  `f`. An artifact identity (`len`, `mtime`, `dev`, `ino`) is a version number that every rename
  increases. The field `by` of the graph and the manifest is history: no action reads it.
* A published record carries owner, generation, HEAD, scope, `dirty_at_map`, the configuration
  digests and the two artifact identities. Generations are run numbers.
* The steps of a run are the values of `mpc`, in the code's order: `lock`, `prior`, `status0`,
  `load`, `plan` (one step per file, in any order, as rayon reads them), `decide`, `mark`,
  `manifest`, `rebuild`, `transport`, `units`, `crates`, `cache`, `index`, `status2`, `digests`,
  `publish`, `finish`. Discovery (project model, lane, Cargo model) is the step from `plan` to
  `decide`. A run that rebuilds nothing goes from `rebuild` to `status2`.
* The steps of a query are `graph`, `manifest`, `certify`, `status`, `hash`, `record`, `stat`,
  `answer`; the last three are the three reads of `end_changed`.
* `Crash` also stands for an I/O error returned by any step: both leave the disk as it is and drop
  the lock.
* Every write is one action because the code writes a temporary file and renames it.

### State and code of the other components

* **Readers.** An export is a query in another role: its `Validation` steps run between its own
  reads, in the order of `load_bracketed` (record, digests, graph, cache, facts, validation,
  identities once more). `whole[q]` is history: every index that was whole on disk since the export
  began. The hook reads manifest and HEAD, raises the flag or asks `offer_permitted`, a read at a time.
* **Compiler facts.** The engine, the thread that reads its stdout, the verb's poll with its
  deadline, and the user's checkout are separate actions. An artifact is a record of exactly what an
  admission or a lane decision looks at. `admit`'s checks keep their order: the first that fails
  names the refusal. The lane decision is one action per read of the checkout. `seen` and `lapses`
  are history: what was checked out while the decision read artifact, status and HEAD, and how a
  dirty tree went by its checks, if one did.
* **Hooks.** A process is at the statement it runs next; every statement is atomic because SQLite
  makes it so, and nothing spans two except the transaction of `add_agent_scope`. A busy store is one
  outcome of a write, after the retries: given up. Output comes after the last commit, as a step of
  its own (`Deliver`, `PrintStub`): a hook killed before it has written, and the tool's text goes out
  whole. A text stands for its SHA-256. `inContext` is history: what reached the model whole.
* **Init.** One action per file read or written, in the order of `cmd_init` and `install_hooks`. A
  directory has its ancestors, nearest first (`Up`), and perhaps a `.git` entry, which for a linked
  worktree leads elsewhere; a climb ends at the first ancestor that bears a mark.
* **Operators.** Inputs are what the code has after parsing: names, edges, fragments, modules, facts.
  Loops over unordered maps are sets, loops over lists are sequences. Caches that are cleared with
  what they depend on (the Rust glob cache) are left out. Recursion in `Impact`, `CSharpNames`,
  `SemanticOverlay` and `TsExports` is a recursive function of a number that the code bounds (hops
  left, types not yet met, loop rounds), so that theorems can be proved about it; `RustScopes` declares
  `RECURSIVE` operators and has none.

### The environment

`Environment` names the disturbances an instance of the index protocol allows. Edits, commits and
switches are possible at every moment except in the cases below, in each of which
`FreshMeansIndexedBytes` is false of the code:

| Case | What the code does | Where |
| --- | --- | --- |
| `restore-in-map` | a file clean at the first status, changed before it is read and put back before the second status is in neither | `mapcmd.rs:604` |
| `head-moves-in-map` | HEAD is read once; leaving it after that read and returning after the second status indexes one commit's files under another commit's name | `mapcmd.rs:377` |
| `settings-in-map` | resolution opens the settings files again after they were read for their digest | `transport/configuration.rs:266` |
| `head-moves-in-query` | `finish` reads HEAD and then the status; a commit in between pairs the old HEAD with a clean new tree | `validate.rs:104` |
| `edit-in-query` | a file changes after it was hashed; `docs/limitations.md` disclaims it | `validate.rs:126` |

No run admits them. TLC gives a trace of each within seconds: take `worktrees.cfg` for the two HEAD
cases or `edits.cfg` for the others, add the case to `Environment`, and keep
`FreshMeansIndexedBytes` as the only property.

A lane decision over compiler facts asks Git twice, for the status and then for HEAD, and two things
can make it apply facts although the tree is dirty. Both are allowed in every run and in the theorem:
they are recorded in `lapses`, and `AppliedLaneWasCurrent` says what is left.

| Lapse | What the code does | Where |
| --- | --- | --- |
| `status-failed` | a status that fails, cannot be parsed or lists a path that is not UTF-8 counts as a clean tree | `freshness/status.rs:114`, a documented choice |
| `moved-dirty` | HEAD moves after the status was read and before HEAD is, and leaves a dirty tree: a soft reset, a commit of a part, a switch that carries edits | between `semantic/freshness.rs:150` and `:155` |

`World` does the same for the hooks: `busy` and `kill` are allowed everywhere, a kill inside a
migration (`kill-in-migration`) only in `migration_cut`, and two processes migrating one store at
once (`rival-migration`) in no run. There the loser of an added column errs and its hook fails open,
but `add_agent_scope` looks for the column before it opens its transaction (`store.rs:200`): a second
rebuild relabels as the main thread's a row that a hook recorded for a sub-agent after the first, and
`StubStandsForDelivered` is false.

`devscout clear` may prune rows while hooks run. A root's whole store it removes only while no hook has
it open (`ClearStore`), though `cli/admin.rs:226` asks for no such thing: on Unix such a hook goes on
with the unlinked file and what it writes is lost with it, on Windows the removal fails. A second file
behind one path is not modelled.

## What the runs show

| Run | Instance | Shows |
| --- | --- | --- |
| `crashes` | one checkout, one file, 3 maps, 2 edits, crash anywhere | `TypeOK`, `NoCertificateMidRun`, `CertifiedIndexIsWhole`, `FinishedMapOwnsGraph`, `CalmIndexIsFresh` |
| `edits` | a source, a settings file, a project file and a Cargo manifest; 2 edits, 2 maps, one query, Git may fail, caps of 2 status entries, 1 path, 1 byte | `FreshMeansIndexedBytes` |
| `worktrees` | two checkouts, two maps, two commits, one edit, the hook's flag | `FreshMeansIndexedBytes`, `FlagFallsOverOwnManifest` |
| `rivals` | two maps without a lock, one foreign write | `FreshReadsCertified` |
| `scopes` | three maps, whole or partial | `ScopedMapMerges`, `FinishedMapOwnsGraph` |
| `readers` | an export and the hook beside two maps in turn that may die, an edit, commits | `ExportIsSnapshot`, `ExportedCacheBuiltGraph`, `OfferIsCertified` |
| `progress` | two maps at once, one query, crashes, weak fairness; one compiler-facts verb beside one lane and two moves of the user | `MapsSerialize`, `FreshPairIsOneRuns`, `MapsEnd`, `QueriesEnd`; `AppliedLaneWasCurrent`, `PublishedIsWhole`, `RunsEnd` |
| `agents` | two hooks, 3 calls, kills, busy and legacy stores; two inits, one user edit, a worktree and a nested repository; every question of `Answers` | see below |

`agents` checks `TypeOK`; of the hooks, `StubStandsForDelivered` and `SpendMatchesDelivery`; of init,
`ScoutDirIsExcluded`, `ReportedRootsStay`, `HooksFindTheRoot` and `SettingsSurvive`; and of the
algorithms:

| Algorithm | Properties | Inputs |
| --- | --- | --- |
| impact | `ImpactIsReach`, `NarrowingIsReported`, `UnmarkedHasCleanPath` | 7,280: up to three links of each kind among four files; injected interfaces, partial types, hubs; brakes at 0, 1 and 2 |
| C# names | `OutOfReachShadowsNothing`; `BasesAnswerForMembers` | 5,760 sites over three files and projects; 4,000 hierarchies of three types, cycles and one type that names itself included |
| overlay | `CountsMatch`, `FollowsTheCompiler` | 4,464: up to two references at one or two sites, two occurrences a site |
| TypeScript | `LookupFollowsBarrels`, `ReferencesRideImports`, `NamespacesAreReexported` | 18,144: arrangements of three barrels, cycles included, under caps of 2 and 3 hops |
| Rust | `ImportsSettle`, `ImportsAreOrderFree` | 3,108 packages of three modules and three imports, in every order |

Four more runs each show one statement of the repository's docs or comments violated; `PROJECT.json`
quotes the statement and explains the trace:

* `tsconfig_edit`: nothing notices an edit to `tsconfig.json` or `package.json` alone. The next map
  keeps the graph and certifies the new bytes.
* `scoped_after_crash`: after an interrupted run a scoped map drops every entry outside its scope.
* `migration_cut`: a hook killed between the two columns of one migration leaves a store that no
  later open repairs.
* `engine_lingers`: an engine that closes its output and does not exit holds the run for ever.

**Refinement.** `ExportIsSnapshot` is the specification of `CertifiedIndex` under a mapping: the
abstract index is the bytes on disk while a certificate covers all of them (`WholeNow`), what a
reader may take is what was whole since it began (`whole`), and what it took is what its export
publishes (`Taken`). Every step of a map, a crash, an edit or the export is a step of the abstract
index or a stutter: a new whole index appears only after the old one was withdrawn by a marker, and a
reader never publishes a mixture. The runs check it and `IndexReadersProofs` proves it. The cache is
outside the certificate, so `ExportedCacheBuiltGraph` says separately that it belongs to the graph.

**Bounds.** `MaxMaps`, `MaxEdits`, `MaxCommits`, `MaxForeign`, `MaxCalls`, `MaxInits`,
`MaxUserEdits`, `MaxVerbs`, `MaxLanes` and `MaxMoves` bound maps, edits, commits, foreign writes, tool
calls, inits, edits of the settings, verbs, lane decisions and moves of the user. Two contents per file
tell changed from unchanged. One map to publish, one to be interrupted and one to inherit the wreck
is the longest chain the code's reuse can express, because a run reads only what its predecessor
left: hence three maps where crashes or scopes matter, two elsewhere. The caps keep their names and
are set just below what two edits can reach (`edits`) or out of reach (elsewhere). Two hooks are
enough for a look-up that races a record, and three calls for a third that reads what both left. The
hooks and inits are told apart by no action, nor are the paths and texts, the checkouts of `worktrees` and the
processes of `rivals`: those runs use symmetry and check no liveness.

**Fairness.** `FairSpec` assumes weak fairness of each started map's next step and of each asked
query's next step. Both are straight-line code in their own process; the only thing either waits for
is the lock, which the operating system releases when its holder returns or dies. Of a compiler-facts
verb, `FairRuns` assumes the steps of its own loop, its reader thread and the clock. `FairEngines`
adds the one thing asked of the engine: once done with its output, it exits. `engine_lingers` shows
why `RunsEnd` needs it. Starting a process, a read that fails, crashing and everything the user does
have no fairness.

**Deadlock** is checked in every run over the index alone. `progress` and `agents`, and the two
violation runs over the same modules, switch it off: their budgets of calls, verbs and moves run out,
and a question takes no step.

**Guards in properties.** Two properties exclude what the code is known to lose, so that they can
say all the rest is kept: `ReportedRootsStay` excludes an init that overlapped another
(`initcmd.rs:326`), `SettingsSurvive` an edit between an init's read and its write
(`initcmd.rs:607`).

## What is proved

Thirty-four theorems, for every value of the constants, from the `ASSUME`s the modules state about them:
finite sets of files, bounds that are numbers, `None` apart from every value it stands beside, a file
system in which a directory's ancestors are directories (`FileSystem`), candidates that have a size.
TLC evaluates each on the runs. What a theorem needs of the world beyond that is a hypothesis in its
statement:

| Hypothesis | Says | Because otherwise |
| --- | --- | --- |
| `Locking` | `File::lock` works on the filesystem | the comment in `acquire_lock` concedes that two maps may then run at once |
| `Undisturbed` | also: the root is Git's and no older build writes beside this one | without Git no record is published; an older build knows no marker |
| `Quiet` | `Undisturbed`, none of the five cases of the environment table, no settings file that only resolution reads | each case is a trace; `tsconfig_edit` is the last |
| `Steady` | `Undisturbed`, no crash, `git status` answers, one checkout | without any one of the four TLC finds manifest entries lost (`scoped_after_crash` is the crash) |
| `~StatusFails`, `RoomForAll` | Git answers, and the caps on status entries, paths and bytes are no smaller than the files there are (a file of the model is a byte long) | a query past a cap says `unknown` and `edits` shows it does |
| `"rival-migration" \notin World` | one process at a time migrates a store | see above |
| `QuestionOK` | a question is one the program can be asked: edges between defs there are, sites in file order, a name read in a file there is, re-exports to files there are | TLC checks that every input of `Answers` is one (`TypeOK` of `agents`) |

Edits, commits, switches, crashes, maps, queries and exports in any number and order are in every one
of them unless the table takes them out.

**The index: types and serialization** (`IndexProtocolProofs`).

* `TypeCorrect`: `Spec => []TypeOK`. The inductive invariant is `TypeInv`: `TypeOK` with
  `ActiveRun` (a run past `idle` has a checkout and a scope, and what it has freshly parsed was
  read from existing bytes) and `ActiveQuery` (the same of a query). `TypeOK` alone is not
  inductive: `run[m].wt` may be `None`, and a step of a run with no checkout would index `tree` by
  it.
* `MapsSerializeHolds`: `Spec => [](Locking => MapsSerialize)`. The strengthening `LockInv` says a
  process is past its lock exactly when it holds it.
* `NoCertificateMidRunHolds`: `Spec => [](Locking => NoCertificateMidRun)`. The only step that
  writes a certificate is `Publish`, whose process holds the lock, so no other run can be between
  its marker and its record; crashes and foreign writes only remove certificates.
* `FreshReadsCertifiedHolds`: `Spec => FreshReadsCertified`, with or without a lock. The invariant
  `BracketInv` has two parts. `RecordBehindDisk`: the versions named by a record, or remembered by a
  query, are never ahead of those on disk. `InBracket(q)`: what a query read was read after its
  snapshot of the record and before its closing reads. Versions only grow, so a version that is
  equal at both ends was equal in between. This is the argument behind the comment at the top of
  `validate.rs`, and it shows that reading the three files one after another is enough.

**What is on disk** (`IndexWholeProofs`). `WholeInv` is `DiskWhole` (under a published record, graph,
manifest, fragment cache, index, sidecars and record are of one piece) with `RunWhole(m)` for every
run, in five parts: the keys it has read are of bytes it has seen, the record it started from still
stands as long as it has marked nothing, what it reuses is what it would have parsed, and what it has
left on disk or written is what a build from its reads would have put there. `DiskWhole` alone is not
inductive: a map that keeps the graph certifies bytes it did not write, so the invariant must carry
why they were right from the run that wrote them to the run that keeps them.

* `CertifiedIndexIsWholeHolds` and `FinishedMapOwnsGraphHolds` follow from it.
* `FlagFallsOverOwnManifestHolds`: from `OwnManifest`, that a run past its manifest finds it its own.
* `ScopedMapMergesHolds`, an action property over maps of any scopes, under `Steady`. `Carried` says
  that between runs the manifest is empty or a record's, and that a run that has loaded it holds all
  of it.

**Answers** (`IndexWholeProofs`, `IndexFreshProofs`).

* `FreshPairIsOneRunsHolds`. A record stays true of the disk only while the artifacts it names are
  there; `AnswersInv` therefore says of the record, and of every record a query remembers
  (`Backed(q)`), that an artifact of that version is that run's.
* `FreshMeansIndexedBytesHolds`, under `Quiet`: the theorem a user of devscout cares about. `FreshInv`
  adds to `AnswersInv` what was true of the checkout: `RunTrue(m)` relates what a run has read of each
  file to the status before and the status after it (a file clean in both has its commit's bytes,
  a dirty one has a digest), `DiskTrue` the same of the graph a record names, and `QueryTrue(q)` a
  query's own status and digests to the record it remembers. TLC checked `FreshInv` as an invariant
  first, on instances with edits, two worktrees and crashes of up to 4.4 million states.
* `CalmIndexIsFreshHolds` is the converse, and asks nothing of locks or of the environment table: a
  query of a checkout that nothing touched since its map took the lock is told `fresh` or
  `index-changed`. `CalmInv` starts from numbering: the number a run is given with the lock is no
  other run's and no record's (`Numbered`), so a certificate under the number `calm` holds was
  published by the run `calm` was set for. Then what that run read is still true of the checkout
  (`RunTells`), what its certificate and digests say is too (`CertTells`, `DigestsTell`), and each of
  the query's comparisons finds nothing changed. A disturbance of the checkout sets `calm` to 0, which
  no record bears. TLC checked `CalmInv` on 4.4 million states.

**Readers** (`IndexReadersProofs`).

* `ExportIsSnapshotHolds`: the specification of `IndexReaders` implements `CertifiedIndex`, under
  `Undisturbed`. Each step of a map, a query, the environment or a reader is mapped to the abstract
  step it is, or to a stutter. A marker is the withdrawal, a record's publication the put, and the
  export's closing comparison the taking.
* `ExportedCacheBuiltGraphHolds` and `OfferIsCertifiedHolds`, from the same `ReadersInv`. The second
  speaks of the files that contribute a fragment to the graph (`GraphSources`), which are those the
  hook offers it for.

**Compiler facts** (`CompilerFactsProofs`).

* `AppliedLaneWasCurrentHolds`: `FactsSpec => []AppliedLaneWasCurrent`. A lane decision reads the
  artifact, the status, HEAD and the imports one after another, while imports replace the artifact
  and the user edits, commits, resets and switches. An applied layer was captured over a clean tree, its
  commit was checked out at some instant of the decision, and the tree was clean at such an instant
  unless one of the two lapses occurred. The inductive invariant adds what each check leaves known
  (`Watched`: what is checked out now has been seen, and past the dirty check it has been seen clean or
  a lapse is recorded; `LayerSeen`: past the HEAD check the same of the artifact's commit) and what a
  layer that got so far is (`LayerLoaded`: captured clean). Three lemmas, one per actor: the verbs move
  nothing a decision compares, the user's moves are seen and lapse where they leave a dirty tree, and
  the decision's own steps keep the invariant.
* `PublishedIsWholeHolds`: `FactsSpec => PublishedIsWhole`. `VerbInv` relates verb, engine and reader
  thread: what the reader holds is what the engine has written and not lost to the cap, and a verb that
  is admitting has reaped both. A run whose HEAD Git could not name expects no commit, and admits
  any. `FirstIs` and `AdmittedFailsNothing` say what a chain of checks that names its first failure
  concludes when none fails.

**Hooks** (`HooksProofs`).

* `StubStandsForDeliveredHolds`: each row of a store stands for a text in its reader's context, or for
  one that a running hook will hand over whatever becomes of it, since a hook that fails lets the
  output through. That survives a kill between the two stores, a busy store, `devscout clear` and a
  migration, which relabels only rows older than agents. `StubInv` adds `HookAt` (which statement a
  hook may be at, and what it knows of the layout) and `OneMigrates`. TLC checked it on 617,504
  states, kills inside migrations included.
* `SpendMatchesDeliveryHolds`: a store never says more was spent on a file than was delivered of it,
  and says exactly that as long as nothing was pruned and no hook failed with a write to do or a stub
  to print. The stub matters: a hook killed between its last commit and its
  output has lost no write, yet the text goes out whole and no row counts it. The account is a sum
  over the hooks, so the lemmas are about sums: changing one summand changes a sum by the
  difference, for any finite set (`IsFiniteSet(Hooks)`), by least counterexample over its
  cardinality. `SpendInv` says for each hook what it still owes the account at the statement it is
  at.
* `HooksTypeOKHolds`: above all, a store that is not yet scoped by agent holds rows of the main thread
  only, which is what lets a migration relabel them all.

**Init** (`InitRegistryProofs`), for every file system and number of inits.

* `ScoutDirIsExcludedHolds`, `ReportedRootsStayHolds`: `RegistryInv` says an init that is past a write
  finds it done, and that a `.scout` exists only where it is excluded.
* `HooksFindTheRootHolds`: the climb of `find_root` and the climb of the hooks stop at marks of
  different kinds; lemmas about the nearest mark (a set of numbers has a least) show they meet.
* `SettingsSurviveHolds`: `SettingsInv` relates the file, what each init has read of it and its backups.
* `InitTypeOKHolds`: `Heading` is what `InitTypeOK` needs: an init about to exclude `.scout` has a root
  whose Git directory was found, as `cmd_init` checks before its first write.

**Questions** (`QuestionsProofs`). The algorithms behind an answer, for every input of theirs. Walks,
ledgers and lookups are recursive functions; that there is one, and that each step keeps an invariant,
is shown by least counterexample (`FirstOf`, `HopByHop`, `LoopRuns`), as the library's induction
theorems take an operator no backend can instantiate.

* `ImpactIsReachHolds`: the walk's answer is what an explicit definition of reach says, hop by hop;
  its round adds exactly the files a link from the last round leads to and no brake holds.
  `NarrowingIsReportedHolds`: run the walk beside one freed of its brakes; as long as nothing is
  reported the two agree, so the first hop at which they differ is one that is reported.
  `UnmarkedHasCleanPathHolds`: a row's mark is that of the first hop that reached it.
* `CountsMatchHolds`: a ledger invariant, counts equal edges, kept by each override, each discovered
  site and the last pass over the guesses. `OneLeftIsOneVouched` says why the lookup's dropping of
  equal neighbours (`layer.rs:627`) is enough to tell one target from several: one is left exactly
  when the occurrences vouch for one.
* `FollowsTheCompilerHolds`: a reference's edges are settled at its own step and no later one takes
  them back; a guess kept at first stays through the last pass.
* `OutOfReachShadowsNothingHolds`: two repositories are compared, the one given and the one without the
  types out of reach (`InReach`). `IndexIs` says what an index is for any fragments: the ids declared
  and, for each, the files that declare it. So the two indexes agree on every id in reach and on what
  directives read (`SameScope`), hence on each namespace level and on the innermost one that answers.
* `BasesAnswerForMembersHolds`: the met set is shared by a whole branch and a base is marked when it is
  listed, before it is walked. `Follows` says what a walk leaves: where it found nothing, every
  walkable type it marked declares nothing and has all its bases marked; what it found lies in every
  set closed under bases. Each call to a listed base has one type more met, so the bound (the number of
  types) is never what ends a walk. The types marked by all branches are then a closed set without a
  declaration, the one `Supers` is least among.
* `LookupFollowsBarrelsHolds`: the visited map of `lookup_export` remembers the depth a pair was met
  at. `Settles` says what a walk that finds nothing leaves: of each mark it adds, every pair one
  barrel on is marked no deeper than one more, unless the cap cut it. A pair the walk is still at is
  settled by the caller that marked it, so cycles do no harm; when the first caller returns, what is
  met within k hops contains all chains of k barrels.
* `ReferencesRideImportsHolds` (a name bound at a round of the statement's loop is carried by every
  later round) and `NamespacesAreReexportedHolds`.

**Only model-checked.** The liveness properties `MapsEnd`, `QueriesEnd` and `RunsEnd`, as the prover
handles neither fairness nor `ENABLED`. `ImportsSettle` and `ImportsAreOrderFree` of `RustScopes`: the
module declares `RECURSIVE` operators, under which the prover has no SMT backend. `TypeOK` of
`MCAgents` joins the types of three components: those of the hooks and of init are proved
(`HooksTypeOKHolds`, `InitTypeOKHolds`); `QuestionOK` is about the inputs TLC enumerates.

## Known divergences without a run

Met while modelling. Some contradict a comment; each is left out of the runs because its property
would be a restatement or because the input is the environment's.

* The five cases of the environment table.
* `semantic/freshness.rs:14`: "it can only under-apply the layer, never emit a stale confirmed edge",
  and `Fresh` is "exactly as it was when the artifact was captured" (`:40`); the two lapses above are
  the exceptions, and the status that fails open is one `freshness/status.rs:106` chooses.
* `publish.rs:142`: where the lock errs, two maps can publish a manifest of one beside the record of
  the other (`FreshPairIsOneRuns` with `Locking = FALSE`); `rivals` checks `FreshReadsCertified`, which
  holds.
* Without Git there is no record to distrust: a run killed between `graph.json` and the fragments
  index can leave a graph that later maps trust once the edited file is put back.
* `store.rs:200`: two first opens of an old store; see `rival-migration` above.
* `semantic/lane.rs:44`: a plain map after `map --no-semantic` keeps the graph whose `stats.lane` says
  `no-semantic`.
* `query/impact.rs`: "Only a file reached EXCLUSIVELY by guesses is flagged", but a file first reached
  by a guess keeps its flag when a later hop reaches it precisely; the bus mark is frozen at the first
  hop in the same way.
* `semantic/layer.rs:627`: `dedup()` drops only neighbours that are equal.
* `resolve/ladder.rs:107`: narrowing by reachability asks only about a type's first file, where
  `reach.rs` counts any declaring file.
* `resolve/ladder.rs:391`: the lookup among the site's enclosing types (step 0b) comes before the
  levels and asks nothing about reach, so a nested type of the same id in a project out of reach can
  answer; `OutOfReachShadowsNothing` is about namespaces and directives, as the comment in `reach.rs` is.
* `resolve/members.rs:410`: "the starting type is out of bounds however a cyclic hierarchy leads back
  to it", but a type whose base name resolves to itself is walked as its own direct base, and a member
  it declares is then found on it. `BasesAnswerForMembers` speaks of the other types.
* `tsgraph/bindings.rs:286`: `import * as X` binds an `export =` definition reached through a star
  barrel on the statement's own edge, which the comment above excludes. `bindings.rs:107`: the visited
  set of the namespace walk holds files only, so some reachable namespaces are missed;
  `NamespacesAreReexported` says only that what is found is re-exported.
* `rsgraph/scope.rs`: a glob whose own first segment is known only through another glob of the same
  module stays unresolved. A block's `use a::*` oscillates for its eight rounds, and ends unbound, when
  module `a` holds an item-position macro and imports its parent's names (`use super::*`): the glob
  then brings `a` itself into the block through a module that cannot be listed. `ImportsSettle`
  therefore speaks of the worklist over module-level imports, as the comment at `bind.rs:205` does. For
  packages that rustc rejects, with one name defined twice, the worklist may run to its budget;
  `Compiles` in `Answers` keeps to the others.

## Not modelled, and why

* What resolution makes of fragments, as far as the index protocol goes: there the graph is a function
  of the bytes it was given. The algorithms are modelled apart from it. Of them, left out: C#
  receivers, extension methods, overloads and heuristic tiers; dotted names and type-argument counts;
  TypeScript specifiers and dynamic imports (`bindings.rs:320`); the Rust module tree, `impl` items and
  references.
* Extraction, the preprocessor and markup parsers: functions of one file's bytes, and their output is
  an input here. Rendering, telemetry, audit and truth scoring: no state another part reads.
* The .NET engine under `tools/`: a separate program; `CompilerFacts` lets it produce anything.
* Agent-written purposes, and manifest entries of older builds. `carries_best_source` is the set
  `WeakContents`: bytes whose entry is never reusable.
* Project usings in the transport sidecar: their only input is the `.csproj`, already in `units`; but
  `transport::discover` reads that file a second time, and that reading is not modelled.
* Artifact identities that collide, paths `git status` cannot see, and edits made while a query
  judges: disclaimed in `docs/limitations.md`.
* Pathspec syntax, porcelain parsing, the ignore query: a status is the set of relevant paths whose
  bytes differ from the HEAD tree.
* `publish` stats graph and manifest and then renames the record: one action here. A foreign write
  between the stat and the rename leaves a record that names a file that is gone, which every reader
  refuses; the model's order of the two is the same for a reader.
* In the index protocol the lane record a run owes is chosen freely; `CompilerFacts` says how a lane
  decides it.

## Plan

1. Proofs: the types of compiler facts; `RustScopes`' worklist restated as a recursive
   function of its budget, and theorems about it.
2. More algorithms: the preprocessor's condition stack, the Rust module tree, TypeScript module
   resolution, C# receivers, the transport catalogue.
