# TLA+ verification of polint

polint is a linter whose rules are Rust programs of the repository being linted.
A run compiles these rules into a *rule host*, analyses the repository (Go and
TypeScript, with the help of two sidecar programs) into a semantic database, and
runs the rules over it. Most of the code is sequential and works on data; what is
hard to test is around it: files shared by several polint processes, external
programs, and tables shared by worker threads. These are modelled first.

All source paths below are relative to `src/crates/polint/src/`.

## Inventory

| component | state | operations | what is hard | what makes it correct |
|---|---|---|---|---|
| rule-host store (`cache/rules_store.rs`, `cli/mod.rs` 4400-4903) | per checkout: rule sources, lockfile, target directory with the binary, its stamp, the lease and cargo's own lock; per user: entries and blobs | plan, check the stamp, restore, build, record, publish, execute, fall back to `cargo run` | several processes and checkouts, edits during a build, crashes, failing I/O, damaged files | a run executes the rules it was asked to run; what is recorded was compiled; no lease is kept |
| stable-key interner (`internal_core/stable_key.rs`, used by `analysis_neutral/cfg/lower.rs` and other parallel stages) | the table of texts and its index behind an RwLock; per task an overlay over a prefix of it | intern, overlay, absorb, remap, resolve | the gap between the read and the write lock; the parent grows under an overlay; tasks end in any order | an id means one text for ever; results do not depend on the schedule |
| bounded subprocess runner (`subprocess/runner.rs`) | child and its process group, two reader threads and their pipes, the cancel flag, deadlines | poll, kill, cancel, reap, drain, join | three threads, processes that fork and do not die, clocks | all output or an error; nothing of the tree left; bounded time |
| embedded sidecar cache (`subprocess/embedded_cache.rs`, `go/semantic/process.rs` 337-717) | per user: source directories, a built binary and its receipt, a lock file | verify, stage, rename, fall back; look up, lock, build, publish | several processes, crashes between publishing two files, damage | what is handed out is whole; nothing published is changed; everyone is answered |
| rule execution (`core/rule.rs` 309-610, `cache/rule_timings.rs`) | an atomic counter, one result slot per rule, a thread-local count of observed queries, the times of the last pass | take the next rule, run it, catch a panic, fill the slot, merge, record times | workers, panics, a thread-local that assumes one rule at a time per thread and all of its work there | each rule once, and the result of a sequential pass |
| analysis kernel (`analysis_kernel/mod.rs`, `provider.rs`, `outcome.rs`) | capabilities, provider states, outcomes | run providers in order, degrade | partial failure | a fact is offered only when what it rests on succeeded |
| incremental layers (`analysis_kernel/incremental/`, used by `symbol_graph/mod.rs`) | manifests and blobs on disk | read with validation, write the blob then the manifest, evict, invalidate | processes that evict what others write; crashes; damage; stale inputs | a hit equals a recomputation |
| semantic store (`analysis_kernel/store/`) | a database that only test builds link | | | |
| analysis cache (`cache/mod.rs`) | files with keys | load, validate, save, clean, prune | stale or partial files | as for layers |
| points-to and aliases (`analysis_neutral/points_to`, `aliases`) | constraints, sets, copy edges, slots, a queue, budgets | derive, propagate, give up, answer | edges that appear during propagation, cycles, limits reached half way | the least solution, or a marked part of it that is not answered from |
| other solvers and the demand engine (`analysis_neutral/solver`, `ifds`, `demand`) | worklists, facts, budgets | step, widen, give up | cycles, budgets | a fixpoint, or a marked approximation of it |
| program analyses, frontends, sidecar programs, SDK, macros, git, configuration, baseline, ignores, evaluation and benchmarks | data | sequential functions | | |

Interactions: the CLI obtains a rule host from the store and executes it; the rule
host's kernel runs frontends, which obtain a sidecar from the sidecar cache and run
it, as everything external, through the subprocess runner; all stages intern into
one stable-key interner; providers keep their results in the layer cache; the rules
are run over the database in one parallel pass.

`PROJECT.json` lists every component with what is and is not modelled, the hazards
with their lines, and for each definition the lines it translates.

## Modules

| module | of |
|---|---|
| `RuleHostStore`, `RuleHostStoreMC`, `RuleHostStoreProofs` | the rule-host store |
| `InternTable` | the abstract specification: a table with one atomic intern |
| `StableKeyInterner`, `StableKeyInternerMC`, `StableKeyInternerProofs` | the interner, shown to implement `InternTable` |
| `SubprocessRunner`, `SubprocessRunnerProofs` | the subprocess runner |
| `WriteOnce` | the abstract specification: shelves that are filled once, and callers that are answered from them |
| `SidecarCache`, `SidecarCacheMC`, `SidecarCacheProofs` | the embedded sidecar cache and the Go sidecar's binary cache, shown to implement `WriteOnce` as long as nothing is damaged |
| `LayerCache`, `LayerCacheMC`, `LayerCacheProofs` | the layer cache as the symbol graph uses it |
| `AtomicPass` | the abstract specification: each rule runs once, at one moment, and the pass returns all the rows' diagnostics |
| `RulePass`, `RulePassMC`, `RulePassProofs` | the passes over the rules, shown to implement `AtomicPass` |
| `PointsTo`, `PointsToMC`, `PointsToProofs` | the points-to solver and the alias answers |
| `FiniteOrders` | a lemma on finite strict orders that two of the proof modules use |

Each component module declares its constants with their assumptions, its state, one
action per operation and its properties. Definitions whose comment begins with
"Mutant of" are faulty variants of the definition they precede: each property is
violated when its mutant is put in the place of the original, so none holds by the
shape of the model alone. The MC modules hold symmetry sets and what only a run
needs: for the interner the sequential interner as a fold, with which an `ASSUME`
compares `NumberedInOrder`, for the rule pass its suites, for points-to its
programs and their least solutions.

### RuleHostStore

`src` and `lock` are the rule sources and the lockfile of each checkout, `bin` and
`stamp` what its target directory holds, `lease` the `TargetLock` on it and `cargo`
cargo's own lock, `entry` and `blob` the shared store. A binary is what it was
compiled from and where (`[src, lock, at]`); its hash is the binary itself, and the
fingerprint of a tree is its sources and its lockfile, so a hash or a fingerprint is
equal exactly when its inputs are. `Garbage` is content that is neither.

A process follows `run_local_rule_host_kind`: `Start` and `Plan`
(`local_rule_host_plan`: wait for the lease, fingerprint the tree), `CheckStamp`,
`ChooseStore`, `ReadEntry`/`CopyBlob`/`RemoveBlob`/`DiscardEntry`/`Persist`/
`StampRestored` (`restore`, one action per effect on the disk), `BuildStarts`/
`BuildEnds`/`BuildFails` (cargo reads its inputs at one moment and writes the binary
at another), `Bracket`/`HashBinary`/`StampBuilt`/`PublishBlob`/`PublishEntry`
(`record_built_rule_host` and `record`), `HostSucceeds`/`HostFails`, and
`CargoRunStarts`/`CargoRunEnds` (the `cargo run` fallback, which holds no lease).
`Crash` ends a process anywhere and frees its locks, while its cargo may go on.

`Interference` says what others do to a checkout: `edit` a source (to a content it
never had), `revert` one to an earlier content, `relock` (another program rewrites
the lockfile during a build). The `cargo run` fallback, `inspect` and the rules' unit
tests need no such permission: they take no lease and run beside leased runs in every
configuration, held up by cargo's own lock alone. Two history variables remember where
that was felt: a session is `crossed` once someone without its lease changed the binary
or the lockfile under it (since its own build, if it has built), and what a crossed
session records is `dubious`. `Faults` are failing I/O, damage and crashes. `Shareable` are the
sources whose build is the same from every checkout
(`inputs_are_the_same_from_every_checkout`).

### StableKeyInterner

`keys` and `ids` are the two halves of the shared state. A thread in `intern` looks
up under the read lock (`Lookup`) and inserts under the write lock after looking once
more (`Insert`); `want` is what it carries from one to the other. A task takes an
overlay (`base` is the length of the parent then), interns into it, and ends; when
all have ended (`Joined`) the main thread absorbs the overlays in the order of the
input, asking the shared table for each text in turn (`Asks`). `Apply` is the remap.
`got` and `handed` record which ids were answered, for the properties.

### SubprocessRunner

Time is counted in poll intervals (10 ms) and each clock is a countdown; output in
units of which a pipe holds `Capacity`. The runner's steps are those of
`run_bounded_with_stdout` and its helpers; a reader's are those of `read_all`, with
the look at the flag, the second look at the clock and the read as separate steps.
The child may fork a descendant within its process group (`kin`) and one outside it
(`runaway`); each may write into the pipes, end or live on. Any
thread may be kept off the processor for any number of intervals between any two of its
steps: time passes (`Tick`) whatever the threads do. The history variable `stalled` has
the readers to which that happened between seeing the cancellation and reading the clock
again, and `late` does not count the intervals in which the runner's own thread was kept
off. `Hazards` are `reuse` (the child's process id is given to someone else once free)
and `error`. The Unix code is modelled.

### SidecarCache

One shared directory and one fallback directory per process, each with its source
files, binary, receipt and lock. A process verifies, stages and renames the sources,
then looks the binary up without the lock (`Lookup`, `Compare`: receipt first, binary
second), takes the lock, looks again, builds, and publishes binary and receipt by
hard links. To verify is to read the files and then to walk the directory (`Walk`,
`Rewalk`), which fails on an entry that was listed and is gone when it is inspected. The
staging files of binaries and receipts are such entries: `Removes` puts every process
that is walking the directory then among those that may have been `tripped` by it. A
tripped process falls back at its first look and is refused at its second.

A build is named after the process that made it: two builds of one source
need not be equal byte by byte. `Faults` are crashes, damage and failures of I/O or
of `go build`.

### LayerCache

`disk` is the version of the sources, `manifest` and `blob` the two directories, and a
process follows `derive_requested_symbols_with_cache_stats`: `Start` takes the snapshot
and computes the key, `Look`/`List`/`Scan` are a miss with its scan for stale
manifests, `ReadManifest`/`ReadBlob`/`Validate` a read, `EvictManifest`/`EvictBlob`
the removals a failed read ends in (each of a file by name, whatever it holds by
then), `Derive`/`WriteBlob`/`WriteManifest` the recomputation. A digest is what it is
taken of. The payload records which sources the database and which the Go sidecar
saw: the first are those of the snapshot, the second those on the disk when the
sidecar runs. `Edits` says when the sources may change: `between` runs' reliance on
their snapshot, or `during` it. `Faults` are crashes, failing reads and writes, metadata
that cannot be had (`StatFails`: a miss for a manifest, while a blob is evicted with its
manifest as if it were missing), a damaged file or a manifest under another's name, a
pruned file and a sidecar that cannot load the sources.

`invalidation_allows_manifest_reuse` compares two keys part by part and spares a
manifest whose differing parts it depends on as rule code or rule options only. No
edge of a symbol graph has that shape, so for it the answer is whether the keys are
equal, which is what the model says.

### RulePass

Each thread of the pool has a stack of frames: a worker loop of `run_in_order` or a
rule that is running. A rule that waits for parallel work of its own (`suite.waits`)
leaves its thread free to start another job of the pool on top of it, as rayon does,
and that work itself may run on any free thread (`MayQuery`), where its queries are
counted in that thread's counter. `Take` is `run_one` up to the rule's code, `Observe` a query of it, `Return` the rest of
`run_one`; `Merge` leaves the scope and merges the rows; `Again` begins the next pass
with the times the last one recorded, with older ones when nothing was written, or with
none when they could not be read. A time of 0 is a time, and sorts last; `None` is none,
and sorts first.
`mode` is one of the three ways a pass starts its rules. A suite says what each rule
is: its id (two may share one), whether it is off, fails or panics, and what it
observes.

### PointsTo

The solver is sequential; what the model leaves open is the order of constraints,
variables and objects, which the code takes from ids and keys. `constraints` are those
`constraints.rs` collects from values and access paths (`Collected`) but for those it
drops because their stable key equals another's (`Derived`; the text of a key is not
modelled, so which are dropped is a part of the program, any set of them in the
assumptions), `edges` are
`copy_edges`, `sets`, `slots`, `queue`, `steps` and `reasons` are the solver's own, and
`agenda` is what is left of the loop it is in (`phase`). Loads and stores through a
pointer, a field or an element are one form: an object's slot flows to or from a
variable (`Flow`). Variables are tagged by origin, so the variable of a slot is the pair
of object and slot. `Answer` is one turn of `derive_alias_answers`, with its limit on
the number of pairs. `Rank` is an operand's position after the stable sort, so operands
with equal identities keep the order they came in; duplicates that the adjacent-only
removal leaves would be answered twice with the same answer, and are not modelled.

## Runs

| run | shows | bounds |
|---|---|---|
| `edit` | `ExecutesNamedInputs`, `ExecutesOwnBuild`, `EntriesTruthful`, `StampsTruthful` | 2 processes, 2 checkouts, 2 sources, 3 starts, leased or not, 1 edit or damage, every fault |
| `store` | `EntriesRestorable`, `EveryRunEnds` | 2 processes, 2 checkouts, 2 sources, 2 starts, 1 edit; `edit`, `revert`, `relock` and crashes, no damage and no failed copy |
| `race` | `IdsIndexTheirText`, `OverlaysResolve`, `RemapKeepsText`, `SameAsSequential`, and `InternIsAtomic`: `InternTable!Spec` is implemented | 2 tasks, the stage's thread and another one, 3 keys of which one is there before, 2 interns each |
| `bounded` | `CompleteOutput`, `TreeKilled`, `ReturnsInTime`, `EveryThreadEnds` | one stream, pipe of 2 units, 2 units of output, timeout and grace of 2 intervals; errors, reused process ids, threads kept off the processor anywhere |
| `sidecar_crash` | `RefusedForCause`, and `FilledOnce`: `WriteOnce!Spec` is implemented | 3 processes, 2 files, crashes |
| `sidecar_damage` | `PublishedForGood`, `EveryoneAnswered` | 2 processes, 1 file, crashes, failures and damage at any moment |
| `layers` | `HitsTruthful`, `EntriesWhole`, `EventuallyWarm` | 2 processes that run for ever, 2 versions of the sources, one plan, any number of crashes, 2 of the other faults, each once |
| `rules` | `RunsOnce`, `SameAsSequential`, `CountsConserved`, `LongestFirst`, `PassEnds`, and `RulesRunAtomically`: `AtomicPass!Spec` is implemented | 3 rules of which 2 share an id, each with any fate except that the second does not fail, the first two waiting or none, 2 threads, durations 0 and 1, 2 passes, sequential or parallel |
| `points_to` | `CompleteWithinBudget`, `NothingInvented`, `PropagatedOnce`, `AnswersJustified`, `Ends` | 100 programs (20 of them with a constraint dropped) of 2 places, 2 paths of at most 2 projections and 2 objects, a generous budget and one that is short of steps, objects or slots, at most 8 of 10 pairs |

Two processes on a checkout, with a third start in `edit`, suffice for what the
store's properties speak of: one run leaves a stamp or an entry, a second one uses it
while a third replaces it. Two checkouts are needed for an entry to travel. One edit
is enough because an edit goes to a content that is new; the run that expects a revert
to do harm has two. With three processes in the sidecar cache one wins, one loses
while the winner publishes and one comes late. In the subprocess runner a pipe that
can fill up and both descendants are enough to reach each branch of the loops; each
clock passes through "some left" and "none left". Two streams differ only in the order
in which their readers are joined; the theorems cover any number of them. The symmetry sets permute processes,
checkouts, lockfiles or files, and only in runs of safety properties.

Two processes suffice for the layer cache: one evicts or overwrites what the other has
just checked. A second plan would be one more version, since a key is all that tells
layers apart. Two threads and three rules give a rule on top of a waiting one, a loop
on top of a rule, and a rule left for the other thread. The programs of `points_to`
have cycles through variables and through slots, an object stored in its own slot,
slots that are reached through other slots, and each kind of constraint; the sets of
every program are compared with the least solution computed by rounds.

The runs `edit`, `store`, `rules` and `points_to` do not check for deadlock, since a
system that has ended, with no start or pass left, stops; the other modules never stop
(time goes on, or runs go on) or end in an explicit stuttering step `Done`.

Three more runs expect a violation: each states what a comment of the repository says
and what the code does not do.

| run | property | what happens |
|---|---|---|
| `overlap` | `ExecutesVerified` | a run holds the lease and has verified the binary; a `cargo run` without the lease (the fallback, `inspect`, the unit tests) compiles edited sources in the same target directory; the run executes what that left. `cli/mod.rs` 4397 says that the bytes are verified before anything runs, and 4470 that the lease serializes the directory through verification and execution |
| `revert` | `EntriesTruthful` | a source is edited, read by cargo, and put back before the bracket is read again: the wrong build is published under the restored sources |
| `stale_layer` | `HitsTruthful` | the sources are edited after the snapshot and before the Go sidecar reads them: the layer is stored under the key of the snapshot and taken from the cache once the sources are put back |

The last two properties hold, and are proved, without the interference in question. With
it, what is left is proved too: with `revert` the lockfile that is recorded is still the
one that was compiled (`RevertSparesLockfiles`), and with edits `during` runs the
database's part of a hit is still that of its key (`EditsSpareTheDatabase`). What is left
with unleased cargo runs is `ExecutesNamedInputs` and `ExecutesOwnBuild`: only a session
that was crossed itself, or that uses what a crossed one recorded, may execute something
else.

Weaker observations have no run of their own; the models have the interference or the
hazard, and the properties or the assumptions of the theorems name it.

- With `relock`, `EntriesTruthful` fails as it does with `revert`: the bracket leaves
  lockfiles out because cargo writes them, so one that another program replaces during
  the build is recorded as compiled. The sources are still the right ones
  (`RelockSparesSources`).
- A cargo run without the lease that overlaps the end of a leased build may also make
  that build record a binary or a lockfile which is not its own. The store, the stamps
  and the executions are claimed, and proved, for all but such `dubious` records.
- `restore` removes the blob and the entry whenever it could not copy the blob, also
  when the blob is sound (`CopyBlob` with the fault `io`), which costs a rebuild. For
  that reason `EntriesRestorable` is not claimed when copies fail; nor of an entry
  whose binary was replaced between being hashed and being copied.
- A reader off the processor for a poll interval (10 ms) between its two clock readings
  returns without its last read, and the run succeeds with a part of the output
  (`runner.rs` 235-238). `CompleteOutput` excepts exactly the streams to which that
  happened (`stalled`).
- With `reuse`, `terminate_child_process_tree` may name a process group by the id of a
  child that was reaped and whose id has been given out again. It can happen only when
  the poll itself reaped the child, not on a timeout or an error
  (`OnlyAReapedIdIsReused`).
- A crash between the hard links of binary and receipt leaves an entry that every
  later process refuses, and a staging file that vanishes while a process walks the
  directory it has just published, or lost the race for, makes that process fail although
  the directory is sound. `RefusedForCause` says that nothing else makes a process
  refuse, `OnlyTheWalkFails` that without faults only the second does.
- A blob whose metadata cannot be had is evicted although it is sound, and the manifest
  another run writes meanwhile may then lack its blob: `EntriesWhole` speaks of the time
  before such a failure (and before damage or pruning). `HitsTruthful` and
  `EventuallyWarm` hold after it too.
- The comments at `core/rule.rs` 458 and 553 and `policy_queries.rs` 33 say that the
  thread-local counter belongs to the running rule. It does not for a rule that waits for
  parallel work of its own: rules that run on its thread meanwhile reset the counter, and
  its own work is counted on whatever thread was free, possibly in the row of another
  rule that waits. What holds is that rules which do not wait have exactly their own
  counts (`CountsOwn`, and a part of `RulesRunAtomically`), and that nothing is counted
  twice (`CountsConserved`); the count of a rule that waits is left out of the rows
  compared with `AtomicPass`. No rule of the repository starts such work.
- `EventuallyWarm` needs runs that come one at a time in the end. While runs on other
  sources overlap for ever, each may evict what the other wrote.

## Fairness

`store`: each process takes its steps (weak fairness of `Progress`): polint is
scheduled, cargo and the rule host end, and a lease or lock that stays free is got.
`PlanFails`, edits and crashes are never forced. `bounded`: the runner's thread and the
reader are scheduled, however late, and time passes; no process has to end or to close a pipe. `sidecar_damage`: each process
that began is scheduled, `go build` (itself run with a timeout) ends and a free lock is got.
`layers`: a process whose run has started takes its steps; no run has to start, and no
edit or fault to happen. `rules`: the threads of the pool and the caller are scheduled and
rules return. `points_to`: the one thread takes its steps.

## Theorems

Proved with TLAPS for all values of the constants that meet the modules' assumptions.
A hypothesis on the environment is named where a theorem has one; the others hold
under every interference, fault and hazard of their model.

### RuleHostStoreProofs

- `TypeCorrect`.
- Under `Disciplined` (`Interference` is at most `edit`): `TruthfulStore`
  (`EntriesTruthful`), `TruthfulStamps` (`StampsTruthful`) and `TruthfulExecution`
  (`ExecutesNamedInputs`).
- Without any hypothesis: `OwnBuildExecuted` (`ExecutesOwnBuild`). Under `NoRevert`,
  `RelockSparesSources`: entries, stamps and executed binaries name the sources they were
  compiled from; under `NoRelock`, `RevertSparesLockfiles`: the lockfile.
- Under `OnlyCrashes`: `RestorableEntries` (`EntriesRestorable`). Its invariant `Stocked`
  says that an entry is written after its blob and that only a process which found the
  blob unusable removes it, which none does but for what a crossed session published.
- `RunsAdvance`: each step of a run lowers its rank, at most 21 times.
  `WaitingGoesForward`: whoever waits for a lock waits for a run under way with fewer
  locks ahead of it, and hence `NeverStuck`: while a run is under way, one can go on.

None of them assumes that cargo runs keep away from leased runs: the exceptions are in
the properties, by way of `crossed` and `dubious`. The first three groups share one
inductive invariant, `Truthful`, which adds to the properties what a process relies on
between its steps: what it restores answers for its fingerprint (`Restoring`), what its
cargo read is what the bracket will find or the bracket will not match (`Building`), and
what it is about to record is what it found in the target directory (`Recording`), each
while it is not crossed. That the others leave alone what it relies on, or cross it, is
the lemma `OthersStep`, from the lease and from cargo's lock (`LeaseInv`, `CargoInv`);
without it no part is preserved by the steps of another process. What a fingerprint has
to match is weakened in the invariant itself, to sources or lockfile, by which
interference there is, so that one induction serves all of them.

### StableKeyInternerProofs

- `InternerTypeCorrect`; `SharedInternerSound` (`IdsIndexTheirText`, `AnswersStand`),
  `OverlayIdsResolve` (`OverlaysResolve`), `OverlayRoundTrip` (`RemapKeepsText`);
  `InternAtomic` (`InternIsAtomic`, the refinement of `InternTable`). The inductive
  invariant `IInv` says that `keys` and `ids` are inverse to one another, that an overlay
  holds no text the parent had when it was taken, and which ids the absorbing thread has
  collected so far.
- `SequentialNumbering` (`SameAsSequential`), for any number of tasks. Its invariant
  `OrderInv` says that the overlays are absorbed only when all tasks have ended, that an
  overlay's own keys stand in the order in which its task first asked for them, and
  that the shared table is, up to the task being absorbed, in the order of all tasks'
  requests. That `NumberedInOrder` is what a sequential interner computes is a fact
  about a fold, which TLC evaluates (`OrderIsSequential`).

### SubprocessRunnerProofs

- `RunnerTypeCorrect`; `WholeTreeKilled` (`TreeKilled`), from the fact that nothing forks
  once the child was signalled; `NoOutputLost` (`CompleteOutput`). Its invariant `DrainInv`
  is made of the conservation of output between pipe and reader, the order of kill,
  cancel and join, and that a reader which observed the cancellation and ends has found
  the pipe empty of the child's output since, or has stalled.
- `ReturnsWithinGrace` (`ReturnsInTime`); `InTimeInv` relates where the runner is to what
  is left of the deadline and of the grace.
- `OnlyAReapedIdIsReused`, from `PidInv`, which ties what the last poll found to whether
  the child's id is still its own. `RunnerNeverStuck`: until it returns, the runner has
  a step open, or sleeps for an interval. `CancelledReadersStop`: a reader that saw the
  cancellation an interval ago never waits again and has three steps left.

### SidecarCacheProofs

- `SidecarTypeCorrect`; `NothingWithdrawn` (`PublishedForGood`).
- Under `Undamaged`: `SidecarsStaySound` (whoever got a sidecar has complete sources and
  a matching pair, still) and `CacheIsWriteOnce` (`FilledOnce`, the refinement of
  `WriteOnce`). Without that hypothesis `FallbacksStaySound` says the first of the
  fallback directories, which only their own process writes to; one invariant serves
  both, stated for the directories that are `Intact`.
- Under `OnlyKilled`: `RefusalsExplained` (`RefusedForCause`); under `Faultless`:
  `OnlyTheWalkFails`: whoever fails was tripped. The invariants say that a directory is absent or complete, that a
  receipt is only ever that of the binary beside it, that a process past the lock is
  alone there, and that a binary without a receipt belongs to a process that is about
  to write it or was killed then.
- `LockHoldersMove`: whoever waits for the lock waits for a process that is past it, and
  whoever stages files has one to write. `AnswersComeNearer`: each step of a process
  stages one more file or lowers the number of steps it has left; it falls back once at
  most, because nobody but itself makes its fallback directory (`ProgressInv`).

### LayerCacheProofs

- `LayerTypes`; `WholeEntries` (`EntriesWhole`), whose invariant `WholeInv` says that no
  process has a reason to remove a blob before something else damaged or pruned the
  files or their metadata could not be had.
- `TruthfulHits` (`HitsTruthful`) if `Edits` has no `during`, and `EditsSpareTheDatabase`
  for any `Edits`. `TruthInv` says that a manifest, under whatever name it lies, has a
  payload that `Fits` the key in it: the one truth, or one derived of the key's database
  and of some version's sidecar; and that without `during` the sources are those of a
  run's key while it relies on them.
- `WarmRunsHit`: once the layer of a key is stored and nobody is about to evict, runs on
  that key hit and leave it so, however many overlap, until one looks for another layer
  or a fault strikes. `LayerRunsAdvance`: each step of a run scans one manifest more or
  lowers its rank.

### RulePassProofs

- `PassTypes`, `EachRunsOnce` (`RunsOnce`), `CountsOwn` (`ObservedOwn`: the row of a rule that
  does not wait has exactly the count of its own queries), `SequentialResult`
  (`SameAsSequential`) and `StartedLongestFirst` (`LongestFirst`), for any number of rules,
  threads and passes and any suites. The inductive invariant `PassInv` adds to `RunsOnce`
  that the counter of a thread is what a rule that does not wait has observed while it has
  a frame there, and that a row is what its rule's fate says. The first holds because a
  rule that does not wait is innermost on its thread, which takes up no other work.
- `PassIsAtomic` (`RulesRunAtomically`, the refinement of `AtomicPass`): a rule's moment is
  its return, and every other step of the pool is a stutter. Rows are compared without
  the counts of rules that wait.
- `PassNeverStuck`, if there is a thread and a duration: until the pass returns, every
  busy thread has a step to take, and someone has one. `LoopInv` says that a worker loop
  is there, or still to be started, as long as rules are left to take; that the longest
  of them can be taken is `FirstOfAll` in `FiniteOrders`.

### PointsToProofs

- `SolverTypes`, `CompleteSolution` (`CompleteWithinBudget`), `NothingBeyondLeast`
  (`NothingInvented`), `JustifiedAnswers` (`AnswersJustified`) and `EachObjectOnce`
  (`PropagatedOnce`), for any program, budget and order. `SolverInv` says of each edge
  that its target has what its source has but for what is still in the queue or the
  agenda (`DeliveredInv`), of each constraint read that it is in the sets or the edges
  (`ReadInv`), of each load and store that its flow is an edge for every object of its
  base but for the same exceptions (`ProjectedInv`), and that edges and sets stay within
  any solution (`SoundInv`).
- `OrderDoesNotMatter`, if `Reference` is contained in every solution (`Least`): within the
  budget the sets are `Reference`, so no answer depends on the order of visits.
- `SolverWorkBounded`: at most variables times objects entries are popped, and every
  other step takes one element off a loop or leaves it. `SolverNeverStuck`: until it
  stops, the solver has a step to take.

### Only model-checked

The liveness properties (`EveryRunEnds`, `EveryThreadEnds`,
`EveryoneAnswered`, `EventuallyWarm`, `PassEnds`, `Ends`): neither fairness nor `ENABLED` is
within the prover's reach. For most of them the safety half of the argument is proved, a rank
that every step lowers or a step that is always open, as listed above; that an open step
is taken is what fairness says. The open steps are stated by their guards (`Blocked`,
`RunnerOpen`, `CanWork`, `CanMerge`, `CanGoOn`), not by `ENABLED`. What is not proved is that
these guards are all there is to a step, that the sequential numbering of the
interner is what a fold computes, and `CountsConserved`, which compares two sums.

## Not modelled

The Windows variants of the runner and the sidecar cache; the parsing of manifests
and the list of files in a fingerprint; exhaustion of 32-bit ids; read views of the
interner; ownership checks of cache files (a file that fails one is content that does
not match); removal of whole cache directories; layers other than the symbol graph's
with their dependency index and quarantine; the semantic store, which only test builds
link (`analysis_kernel/store/mod.rs` 7-11); the demand engine, a memo table of one run;
the text of stable keys in the solver; and the components that `PROJECT.json` lists as
not modelled: nearly all of what is left are sequential functions from data to data
(frontends, lowering, program analyses, reporting), of which a model would be a
transcript.

## Plan

1. The invalidation plan of `analysis_kernel/incremental` for all kinds of layers,
   against a reference definition.
2. The worklists of `analysis_neutral/solver` and `ifds`, and the closure of summaries
   over the components of the call graph, in the manner of `PointsTo`.
3. The scaffold's roll-back, baseline and ignores.
