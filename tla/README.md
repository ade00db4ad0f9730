# Verification of @nxtedition/re2

TLA+ models, TLC runs and TLAPS proofs for the native addon `@nxtedition/re2`:
RE2 and RE2Set for Node.js, with asynchronous compilation shared between the
environments (main thread and Workers) of a process.

Paths below are relative to the repository: `native/` is the C++ addon, `src/` the
TypeScript wrapper.

## The system

| Part | Code | State it keeps | Operations | Interacts with |
|---|---|---|---|---|
| Compiled-set registry | `native/set-cache.cc` | one per process, under one mutex: `entries` (LRU list), `in_flight`, `key_bytes`, counters; per compilation `set`, `error`, `done`, `owner_queued` | `FindCachedSet`, `AcquireSetCompilation`, `MarkSetCompilationQueued`, `CancelSetCompilation`, `RunSetCompilation`, `WaitForSetCompilation`, `ReleaseSetCompilation` | called by every environment's event loop and by pool threads; waiters block on a condition variable |
| Asynchronous compilation | `native/set-binding.cc` (`SetCompileAsync`, `SetCompileExecute`, `SetCompileComplete`), `src/re2-set.ts` | one `SetCompileWork` per call | call, execute on the libuv pool, complete on the loop | registry, libuv, Node-API promises |
| Batch planning | `native/batch-plan.h`, `native/batch-binding.cc` | none | `MakeBatchPlan`, `MaxBatchParallelism` | used by `ParallelFor` and the benchmark bindings |
| Parallel batches | `native/parallel-for.h`, `native/openmp-runtime.h` | submission mutex, per call `stopped`, `error`, the dynamic schedule | `ParallelFor`, `ObserveBatchParallelism` | OpenMP team; called from event loops and pool threads |
| Batch matching | `native/regex-binding.cc`, `native/set-binding.cc`, `native/async-batch.*` | one `RegexMatchWork`/`SetMatchWork` per call, borrowed or copied inputs | `testMany`, `testManyAsync` | ParallelFor, libuv, Node-API references |
| Input marshalling | `native/napi-utils.*`, `native/text-batch.h` | none | byte ranges, patterns, snapshots, batch size, context tags | every binding; getters of the program run while arrays are read |
| JavaScript API | `src/*.ts` | native handles | normalisation of arguments | bindings; getters of the program |
| Build and release scripts | `build.sh`, `scripts/`, `release.sh` | files of `prebuilds/`, git state | staged replacement with rollback; version, publish, push | Docker, npm, git |
| RE2, Abseil | submodules | - | an oracle: accepts or refuses patterns, matches | - |

Hard behaviours: two separately locked lookups with an environment in between; event
loops and pool threads that block inside the registry; a first-in first-out pool in
which a blocked joiner can stand in front of the work it waits for; queueing that fails
and work that is cancelled after others joined; Workers torn down while they own a
compilation; eviction against two limits; the OpenMP team's stop flag and error; batch
arithmetic at the limits of `size_t`; doubles that are negative, fractional, infinite or
NaN; getters that detach a buffer while the inputs are read; scripts interrupted between
two commands, and cleanups and publications that fail half way.

What makes each part correct: the registry compiles a key at most once at a time, hands
out only the set of the key asked for, stays within both limits and forgets every
compilation its owner finished or abandoned; a compile call always settles, whatever
failed and whoever was torn down; a batch visits every input exactly once, in chunks
that cover it, and raises exactly when an input raised; borrowed inputs stay referenced
until the pool is done with them; what is matched or compiled are the bytes the caller's
views have when the call returns; a build leaves the old artifact or the new one; a
version is published, tagged and pushed consistently.

## Modules

| Module | Models | Builds on |
|---|---|---|
| `SetCache` | the registry: one operator per critical section of `native/set-cache.cc` | - |
| `SetCompile` | the calls, event loops, pool threads and failures that run those sections (`native/set-binding.cc`) | `SetCache` |
| `CompileService` | what `RE2Set.compileAsync` promises its callers | refined by `SetCompile` |
| `MCSetCompile` | model values and key sizes for TLC | `SetCompile` |
| `SequenceFacts` | lemmas on sequences, and on functions defined by recursion and folds | - |
| `SetCompileProofs` | types, deadlock freedom, registry and cache, single flight, right sets, teardown, and the refinement of `CompileService` | `SetCompile`, `SequenceFacts` |
| `BatchPlan` | `native/batch-plan.h`, and the bounds of a chunk of `ParallelFor` | - |
| `BatchPlanInputs` | `MakeBatchPlan` over all its inputs | `BatchPlan` |
| `NumberArguments` | the numbers JavaScript passes: byte ranges, `batchSize`, the diagnostics' arguments | `BatchPlan` |
| `ArgumentInputs`, `MCArgumentInputs` | `NumberArguments` over all its inputs, and their instances for TLC | `BatchPlanInputs`, `NumberArguments` |
| `PatternKey` | `SetCompileCacheKey` and its decoding, `CompileEncodedSet` | - |
| `NativeCalls` | one call of any binding, from arguments to what is matched or compiled, with the program's getters | `NumberArguments`, `PatternKey` |
| `MCNativeCalls` | views, strings and contents for TLC | `NativeCalls` |
| `NativeCallsProofs` | the key and its decoding, sums, snapshots, and every property of `NativeCalls` | `NativeCalls`, `ArgumentFacts`, `SequenceFacts` |
| `ForEach` | what `ParallelFor` promises its callers | - |
| `ParallelFor` | `native/parallel-for.h` and `native/openmp-runtime.h`: calls, their teams' threads, the submission lock | `BatchPlan`, refines `ForEach` |
| `MCParallelFor` | requests for TLC | `ParallelFor` |
| `AsyncBatch` | `testManySync` and `testManyAsync` of RE2 and RE2Set with their inputs' memory (`native/async-batch.*`, the batch functions of both bindings) | actions of `ForEach` |
| `MCAsyncBatch` | model values for TLC | `AsyncBatch` |
| `AsyncBatchProofs` | types, results, and the memory and references of a batch's inputs | `AsyncBatch`, `SequenceFacts` |
| `ArgumentFacts` | lemmas on division, plans, chunks and byte ranges | `NumberArguments` |
| `ArgumentProofs` | plans, byte ranges and batch sizes, for all arguments | `ArgumentInputs`, `ArgumentFacts` |
| `ParallelForProofs` | types, one team, and the refinement of `ForEach` | `ParallelFor`, `ArgumentFacts` |
| `Prebuild` | `build.sh` and `scripts/build-darwin-prebuild.sh` with the cleanup of their exit traps | - |
| `Release` | `release.sh` and `scripts/verify-prebuilds.mjs`, running those scripts | `Prebuild` |
| `ReleaseProofs` | every safety property of `Prebuild` and `Release` | `Release` |

### SetCache, SetCompile and CompileService

A compilation is a `SetCompilation` object of the code; it, and the set it yields, is
named by the call that created it. `outcome` stands for its fields `set`, `error`,
`unexpected_failure` and `done`, which are written together under the mutex. `entries`,
`in_flight`, `key_bytes` and the counters are those of `SetCompileCache`. A key is a
member of a small set with a size in bytes: two pattern lists have the same key exactly
when they are equal, which is what the length-prefixed encoding of `SetCompileCacheKey` is
for, and what `KeysHoldPatterns` of `NativeCallsProofs` proves of `PatternKey`.

`SetCompile` adds what a `SetCompileWork` knows (`env`, `ticket` for `pending`, `held` for
the set handed over), where it is (`stage`), where each JavaScript thread is (`pc`, `call`),
the pool's queue and each loop's completions. Each critical section is one step, and
everything a thread does between two of them is part of one of the two:

| Action | Code |
|---|---|
| `SetCompileAsync` | the call up to and including `FindCachedSet`, early failures included |
| `AcquireSetCompilation` | creation of the async work, second lookup, join or create |
| `BlockLoop`, `WaitOwnerQueued` | the condition wait at the end of `AcquireSetCompilation`: going to sleep, and past it |
| `QueueWork`, `MarkQueued` | `napi_queue_async_work`, its failure, `MarkSetCompilationQueued` |
| `StartWork`, `RunSetCompilation`, `BlockThread`, `WaitForSetCompilation`, `FinishWork` | a pool thread takes work, executes it as an owner or, with a condition wait, as a joined call, posts it |
| `SetCompileComplete` | the completion on the loop, with its three outcomes |
| `CancelWork`, `TerminateEnv` | `uv_cancel` and the end of an environment, external |

`ready`, the condition variable of a compilation, is the set of calls `asleep` on it: `BlockLoop` and
`BlockThread` are a wait whose test, made under the mutex, is false, `NotifyAll` wakes them all, and each
tests again (`WaitOwnerQueued`, `WaitForSetCompilation`) or sleeps again. The code notifies just after
it has released the mutex; in the model that is one step with the critical section. Nothing is lost
by this: until it is notified a waiter does what one does that is woken but not scheduled yet, and
a call that takes the mutex in between finds its condition true and never sleeps. Spurious wakeups, which
only let a call test and sleep again, are left out. The pool and the loops are
modelled as libuv provides them: one queue served in order by `PoolSize` threads,
completions in order per loop. The constant `Faults` selects which failures a run
explores.

`CompileService` has none of this: calls, the patterns each asked for, which calls compiled a
set, and the answer of each. It may give a call any set compiled from equal patterns,
refuse it if RE2 refuses the patterns, fail it if failures are explored, and drop it if
environments are torn down; it never answers twice, and never compiles for a call that is
answered. `SetCompile!Service` maps the stages and outcomes of `SetCompile` to it, and
`ImplementsService` says every behaviour of the cache, registry, pool and loops is one of it.

### NumberArguments and ArgumentInputs

A finite double is a number of halves: the code compares doubles with bounds and truncates
them, so one value between two integers stands for all. `ClampedIndex`, `GetText`,
`GetBatchSize` and `GetSizeArgument` are those of `native/napi-utils.cc` and
`native/batch-binding.cc`; `Test` is the wrapper of `src/re2.ts` and `src/re2-set.ts`, which fills in omitted
numbers; `RequestedBatchSize` chains `src/binary.ts` and the binding. The reference definition
of a range, in `RangeIsDocumented`, selects bytes by the two comparisons the documentation states and
never clamps. `SafeAssumption` is what lets a safe integer be a `size_t`: 64-bit platforms.

One thing the runs pin down and the documentation leaves open: with `byteLength` omitted, the
rest of the view is measured from the offset before it is truncated, so `test(buffer, 1.5)`
does not match on the last byte, and `test(buffer, NaN)` matches on none
(`OmittedLengthIsTheRest`).

### PatternKey and NativeCalls

`PatternKey` encodes lengths in `WordBytes` digits of base `ByteBase`, least significant first, as
the code writes a `uint64_t`. `NativeCalls` is one JavaScript thread making one call at a
time. A value is a view (a store, a first byte, elements of a width), a string or something
else; a view that no longer fits its store is empty, which is how the engine reports
buffers that were detached or shrunk. The library (`Normalize`, `Normalized`, `Options`) reads the
caller's array once into an array of its own and passes that; a *direct* call gives the
binding the program's array. Either way the binding collects every element first
(`CollectInput`) and takes the byte views afterwards (`ReadText`); patterns are copied as they are
collected (`CollectPattern`). `Write` is the program in a getter, enabled exactly where the code
reads an element or an option. `set_init` stands for `set_compile_async` too, which shares
`GetPatterns`; what becomes of the key and the call is `SetCompile`.

### BatchPlan, ParallelFor and ForEach

`BatchPlan` is `MakeBatchPlan` line by line, with the product of threads and batches per
thread reduced modulo `SizeMax + 1`; the machine (`available`, `thread_limit`) and the
build options are constants. `ParallelFor` is a set of concurrent calls, each made once.
A call's `pc` follows the calling thread; `phase`, `chunk` and `cursor` follow the threads of
its team through the loop: `FetchChunk` is the dynamic schedule, `CheckStopped` the relaxed
load of `stopped`, `VisitInput` one application of the function (`Apply`), `CatchError` the
exchange of the flag, `RecordError` the write of the error. `OpenTeam` and `CloseTeam` are the
submission lock with the start and the join of the parallel region; OpenMP may deliver
fewer threads than asked. `aware` is the memory model: a thread that has not yet set or
seen the flag may load a stale value, one that has may not. `RunAlone` and `Unwind` are the
sequential path. `Observers` are calls of `ObserveBatchParallelism`.

`ForEach` knows only the inputs of each call, how often each was visited and which raised.

### AsyncBatch

`AsyncBatch` is one environment: a program, a collector, and batches in the pool. The
program's part of the state is `argument`, the array it passes, `known`, the buffers it
keeps elsewhere, and `bytes`, the contents of each buffer; `Store` writes or detaches a buffer,
`Replace`, `Shorten` and `Forget` drop references, `Collect` frees what nothing reaches. A call has
its `mode`, the private array `inputs` made by `normalizeInputs`, the `snapshot` or the
`reference` of `struct AsyncBatch`, its `stage`, the `verdicts` (`matches` and `errors` in one: the
bytes an input was matched on stand for its matches) and its `outcome`. `submitted` and
`disturbed` are history: the contents at the call, and the unsafe calls whose buffers the
program touched before they were settled.

| Action | Code |
|---|---|
| `RegexTestManyAsync`, `SetTestManyAsync` | the asynchronous calls: `GetAsyncBatch`, creating and queueing the work, every early failure with `ReleaseAsyncBatch` |
| `RegexTestMany`, `SetTestMany` | the synchronous calls, from `GetTexts` to the loop and from the loop to the result or the exception |
| `StartWork`, `MatchRegexBatch`, `MatchSetBatch`, `RegexTestManyExecute`, `SetTestManyExecute` | execution on a pool thread |
| `RegexTestManyComplete`, `SetTestManyComplete` | the completions, in the order of their tests |
| `CancelWork`, `TerminateEnv`, the program, the collector | external |

The loop over the inputs is not `ParallelFor` again but its specification: `StartLoop`, `Match`
and `LoopEnds` are built from the actions `Start`, `Visit`, `Return` and `Throw` of `ForEach`, which
`ParallelForProofs` shows `ParallelFor` to implement. A `SetCalls` member is a call on an RE2Set,
which may report an error for an input. `Stuck` holds the calls whose reference cannot be
deleted. The two bindings differ in nothing else, and share `TestManyAsync`,
`TestMany`, `Execute` and `TestManyComplete`.

### Prebuild and Release

Both build scripts are one machine: `build.sh` on the platform `linux`, `build-darwin-prebuild.sh`
on `darwin`, with the conditions in which they differ (who undoes an installation, the
test before the commit, the order of the cleanup). `files` are the target, the staging directory and
the backup of each platform; `shell` the variables the cleanup tests: `stage` and `root` are
`STAGE_DIR` or `OUT_DIR`, and `BACKUP_ROOT`, being set; `undo` is `HAD_TARGET=0` or `INSTALLED=1`; `preserve`
and `unclean` are `preserve_backup` and `cleanup_status`. A step is one command with the
assignment after it. `Command` lets each succeed, fail without effect, or fail with its
effect done, as the doubles of `mv` and `docker` in `test/build.test.js` do; the commands of the cleanup fail too, and
`rm -rf` may stop half way (`Remains`: fewer files, or directories without any). `Signal` is SIGINT or SIGTERM, which exits through the trap once;
`Kill` is SIGKILL or power loss. Contents are named as the running script sees them: the files it
finds are its `prior`. A directory in which there is no file is `empty`.

`Release` runs both scripts in order, checks the manifest, and commits, tags, publishes and pushes.
`litter` says that runs that were stopped, or whose cleanup failed, left files in staging or backup
directories. `verify-prebuilds.mjs` lists files, so it refuses `litter` and passes directories without a file, such
as the one a script leaves that is killed just after `mktemp`; npm does not pack those. Scripts may be run by hand between releases, others push,
and the maintainer tidies up. Every command of a release may fail with or without its
effect. `LateFailures` are the platforms whose restoring `mv` may rename and still fail: the run `Release`
leaves out `darwin`, and `PrebuildRollback` shows why (see Findings). `TagsAndVersionsAgree` is about the order of
the last commands and about stopping at the first that fails. It does not say that a published version is at origin: a push that
fails leaves its tag in the maintainer's repository alone, which the order of `release.sh` accepts.

### Seeded faults

Some definitions are preceded by a "seeded fault": the same operator with a mistake a
change to the code could make, such as `NoWait`, `CallerDone` or `FloorWorkCount`. Nothing
uses them; they document which mistake each property catches, and each makes TLC report
the property when it replaces the operator below it.

## Runs

| Run (`.cfg`) | Properties | What it asks |
|---|---|---|
| `SetCompileCore` | `SingleFlight`, `KeyBytesExact`, `TeardownIsIsolated`, `CompiledIsCached` | with four calls racing through two separately locked lookups, environments being torn down and one set evicting two, is a key ever compiled twice at once or while cached, is the byte counter exact, does a new set survive its own admission, does a teardown reach another environment's calls |
| `SetCompileFaults` | `TypeOK`, `RegistryOwned`, `RightSet`, `BlockedLoopsWaitForRunningLoops`, `NoLostWakeup`, `ImplementsService` | does any combination of the seven failures leak a registry entry, hand out another call's set, have blocked event loops wait for each other, leave a call asleep whose condition has come true, or break what `CompileService` promises |
| `SetCompilePool` | `WaiterBehindOwner`, `EveryCallSettles` | with one pool thread, failing queueing and compilation, cancelled work, and environments torn down while they own a compilation, can blocked pool threads wait for work behind them, and is every call settled, those that joined included |
| `SetCompileRetry` | `FailureIsNotReused` | expected to fail, see Findings |
| `ArgumentInputs` | `PlanCovers`, `ThreadsEarnTheirKeep`, `AutomaticChunks`, `RangeIsDocumented`, `OmittedLengthIsTheRest`, `BatchSizeIsDocumented` | is `MakeBatchPlan` right on every input of a four-bit `size_t`, and does every number JavaScript may pass become the documented range or batch size |
| `NativeCalls` | `CallTypeOK`, `TextsAreInputs`, `SnapshotIsInputs`, `KeyHoldsPatterns`, `LimitsAreExact` | can a getter make a call match bytes outside a store, or other bytes than its inputs have when it returns; are snapshots, keys and limits exact |
| `ParallelForSafety` | `TypeOK`, `ImplementsForEach` | does `ParallelFor` implement `ForEach` for any schedule and any inputs that throw |
| `ParallelForLock` | `OneTeam`, `StaysOnCaller`, `EveryBatchEnds` | do concurrent batches and observations oversubscribe the machine, and does each release the lock and return when its inputs throw |
| `AsyncBatchData` | `TypeOK`, `ResolvesToSubmitted` | does a batch resolve to the matches of what it was given, in order, and never past an error |
| `AsyncBatchFaults` | `BorrowedStaysIntact`, `NothingRetained`, `EveryBatchSettles` | with every failure and two calls on one buffer, can the collector free a borrowed buffer before it was read, does anything keep an inputs array alive, is every batch settled |
| `Release` | `TypeOK`, `PriorSurvives`, `FailureRestores`, `SuccessInstalls`, `PublishesWhatItBuilt`, `TagsAndVersionsAgree` | can failing commands, signals and crashes lose the prior prebuild, leave rubbish behind a clean exit, or have a version published that was not built, tagged or pushed in order |
| `PrebuildRollback` | `PriorSurvives` | expected to fail, see Findings |

Bounds. Three or four compile calls in two environments are enough for an owner, a call
that joins it, one that races both lookups and one that arrives afterwards; with one pool
thread every wait of a pool thread is for something in the queue, so a wrong order cannot
be hidden by a second thread; there one key is enough, since calls wait only for calls of their key, and event loops that wait for each other over two keys are what `SetCompileFaults` would find; keys of 3, 2 and 1 bytes under limits of 2 entries and
4 bytes make either limit the binding one and make one admission evict two entries. A
four-bit `size_t` with 3 batches per thread and 6 threads reaches the overflow test of
the product, which a 64-bit one never does on a real machine; three threads over four
inputs in chunks of one and two have a thread fail while another is in a chunk and a third
has not looked at the flag. Two buffers and two contents let a
program swap, lose and overwrite the inputs of a batch; two inputs are read in either order,
with a write in between; a second call, on the other API, can share a buffer with the first
or block the JavaScript thread while it runs. Numbers go in halves from -3/2 to past the largest
safe integer, 13, below the four-bit `SizeMax`. Arrays of up to three elements pass limits of
two inputs and three pattern bytes; stores of 0, 1 and 3 bytes make a view of two bytes or
of one 16-bit element fit, not fit, or lie at an offset; words of two binary digits hold
every length a pattern may have; `SizeMax` of 3 makes the total of a batch overflow. Two versions
let a failed release be followed by another; build
scripts need no bound, their state is finite. The theorems below do not depend on these bounds.

Symmetry is used only in runs of safety properties: over calls and environments, whose
names nothing distinguishes, and over buffers and contents of `AsyncBatch`.

Fairness. `FairSpec` of `SetCompile` assumes that a JavaScript thread executing a native
call or with a completion due goes on (`WF` per environment: its loop runs), that the pool
starts queued work when a thread is free (`WF` of `StartWork`), and that each running work
goes on (`WF` per call). No call, failure, cancellation or teardown is ever obliged to
happen. `Poll` lets an idle loop do nothing, so a stuck pool is not reported as a deadlock
before `EveryCallSettles` is. `FairSpec` of `ParallelFor` assumes the same of threads; weak
fairness of `OpenTeam` is enough for the mutex since each call is made once, so a waiting
call is overtaken finitely often. `FairSpec` of `AsyncBatch` assumes that pool
threads run, that a synchronous call goes on, and that the program returns to its loop.

Deadlock is checked in every run: the states in which the modelled program is done
stutter explicitly (`Quiescent`, `Finished`), and the program or the maintainer of `NativeCalls`
and `Release` can always start again. `ArgumentInputs` has one state per input, which stutters.
Neither of these three has a specification with fairness: a call returns when its code
does, and scripts may be killed.

## Theorems

All hold for every value of the constants that satisfies the named assumptions
(`CallsAssumption` ... `PlanAssumption`, `RequestsAssumption`, `ValuesAssumption`, `LateFailuresAssumption`,
`VersionsAssumption`), which TLC evaluates in the runs. Of the arguments they assume only their
shapes: `InputsAssumption` that counts and sizes are those of a `size_t` and numbers are doubles,
`ArgumentsAssumption` that a view has a store, an offset, a length and a width, and
`KeyLimitAssumption` that a size up to `kMaxPatternBytes` fits in a `uint64_t`.

| Theorem | Property |
|---|---|
| `SetCompileProofs!TypeCorrect` | `TypeOK` |
| `SetCompileProofs!PoolNeverDeadlocks` | `WaiterBehindOwner` |
| `SetCompileProofs!LoopsNeverDeadlock` | `BlockedLoopsWaitForRunningLoops` |
| `SetCompileProofs!NoWakeupIsLost` | `NoLostWakeup` |
| `SetCompileProofs!RegistryNeverLeaks` | `RegistryOwned` |
| `SetCompileProofs!SingleFlightHolds` | `SingleFlight` |
| `SetCompileProofs!PromisesResolveWithTheirSet` | `RightSet` |
| `SetCompileProofs!CacheIsAccounted` | `KeyBytesExact` |
| `SetCompileProofs!CompiledSetsAreCached` | `CompiledIsCached`, assuming `~Fault("admit")` |
| `SetCompileProofs!TeardownReachesNoOther` | `TeardownIsIsolated`, assuming `OnlyTeardown` |
| `SetCompileProofs!CompileKeepsItsPromise` | `ImplementsService` |
| `ArgumentProofs!ChunksCover` | `PlanCovers` |
| `ArgumentProofs!ThreadsArePaidFor` | `ThreadsEarnTheirKeep` |
| `ArgumentProofs!ChunksAreAsMany` | `AutomaticChunks` |
| `ArgumentProofs!RangesAreDocumented` | `RangeIsDocumented` |
| `ArgumentProofs!OmittedLengthsAreTheRest` | `OmittedLengthIsTheRest` |
| `ArgumentProofs!BatchSizesAreDocumented` | `BatchSizeIsDocumented` |
| `NativeCallsProofs!CallsAreTyped` | `CallTypeOK` |
| `NativeCallsProofs!TextsAreTheInputs` | `TextsAreInputs` |
| `NativeCallsProofs!SnapshotsAreTheInputs` | `SnapshotIsInputs` |
| `NativeCallsProofs!KeysHoldPatterns` | `KeyHoldsPatterns` |
| `NativeCallsProofs!LimitsHold` | `LimitsAreExact` |
| `ParallelForProofs!TypeCorrect` | `TypeOK` |
| `ParallelForProofs!OneTeamAtATime` | `OneTeam` |
| `ParallelForProofs!StaysOnItsCaller` | `StaysOnCaller` |
| `ParallelForProofs!KeepsItsPromise` | `ImplementsForEach` |
| `AsyncBatchProofs!TypeCorrect` | `TypeOK` |
| `AsyncBatchProofs!BorrowersAreSafe` | `BorrowedStaysIntact` |
| `AsyncBatchProofs!NothingIsRetained` | `NothingRetained` |
| `AsyncBatchProofs!ResolvesRight` | `ResolvesToSubmitted` |
| `ReleaseProofs!TypeCorrect` | `TypeOK` |
| `ReleaseProofs!PriorAlwaysSurvives` | `PriorSurvives`, assuming `LateFailures \subseteq {"linux"}` |
| `ReleaseProofs!FailuresRestore` | `FailureRestores` |
| `ReleaseProofs!SuccessesInstall` | `SuccessInstalls` |
| `ReleaseProofs!AlwaysPublishesWhatItBuilt` | `PublishesWhatItBuilt` |
| `ReleaseProofs!TagsAgree` | `TagsAndVersionsAgree` |

**Compilation.** `TypeInv` adds to `TypeOK` that every call that was made has a key and an
environment. `ControlInv` says where calls, tickets and work can be relative to each
other: the queue holds exactly the queued work, a thread's `pc` fixes the stage and the
ticket of its call, only owners appear in the registry, and an owner's work is as far as
its compilation. `WaiterBehindOwner` is not inductive alone: it needs that a call queues
its work only after the owner has (`ThreadState`) and that queued work is in the queue
(`QueueHoldsQueued`). `SetsInv` adds the keys of the registry, and that the sets in the cache
and in calls were compiled from the key they are filed under; `SingleFlight` and `RightSet`
follow. `NoLostWakeup` is inductive with `ControlInv`: a call goes to sleep only while its condition is false,
each section that makes one true wakes the sleepers, and no other step moves a call that
sleeps (`BlockFrame`, `StillWaits`). `TeardownInv` needs `CompletedAtHome`: work returns to the loop of its environment.
The refinement of `CompileService` needs `AnswersInv`: what failed, failed by a fault of the instance or
by patterns RE2 refuses, and a call that has executed knows its outcome. Settling a promise is
`Ask` or `AnswerLater` (`SettleAnswers`), a compilation that succeeds is `Compile`, the rest stutters (`Unseen`).

`KeyBytesExact` is a sum over the cached entries. `AdmitSet` appends the new entry, then drops the
shortest prefix that brings the cache within its limits: the bytes left are those of the suffix left. The
new entry alone is within them, since the limits on patterns keep a key below the cache's
(`KeyBytesAssumption`), so that it is never part of that prefix and `CompiledIsCached` follows.

**Data.** The library's induction theorems take an operator, which the provers cannot instantiate, and
neither a recursive function nor a fold unfolds without a proof that it exists. `SequenceFacts` gives both a
first-order form. `SetInduction` is induction for a set of numbers, from the minimum of what it leaves out;
`RecursionExists` says that a function defined by descending to a smaller rank exists; `SequenceInduction` is
induction by `Append`. A fold is then the last value of a run along the sequence (`FoldedFacts`), and each
fold of the model is shown to be one (`TotalIsFolded`, `KeyIsFolded`, `SnapshotIsFolded`, ...) before it is used.

**Arguments.** Plans come first. `ArgumentFacts` proves from the definition of division that ceiling division
covers, that the product of threads and batches per thread is taken only when it fits,
and from these that chunks partition the inputs (`PlanChunks`). `AutomaticChunks` follows by bounding the
rounding twice. A range is `ClampedIndex` taken twice: the first index at or past the offset is what it
yields, fractions, NaN and infinities case by case, and no range leaves its view (`RangeFacts`).

**Calls.** The inductive invariant of `NativeCallsProofs` says what a call may hold at each point
(`ControlInv`); what has been read of an array (`FetchedInv`); that the views taken are those of the elements read,
as the stores are now (`TextsInv`); that a snapshot has their bytes (`SnapshotInv`); and that patterns fit and, if
they come from the library's array, are its patterns as they are now (`PatternsInv`). `TextsInv` is what makes
`TextsAreInputs` hold: `NoTextsWhileJsRuns` says that no code of the program runs once a view has been taken.
`SnapshotHolds` follows the snapshot text by text: offsets never pass the bytes appended, so that a text once
there is not disturbed by the next (`TextKept`, `TextAppended`). `KeyDecoded` splits a key around one pattern
(`KeyAround`), finds its size and bytes at its offset (`PatternRead`, and `DecodedEncoded` for
the size), and follows the decoding from the end of the key back to its start. Patterns are below the
limit, hence their sizes fit in a word.

**Batches.** The invariant of
`ParallelForProofs` says, per call: the lock and the team go together (`ControlOk`);
threads hold different chunks, all handed out, and stay in them (`ChunksOk`); what is
ahead of a thread or not handed out is unvisited and, while nothing has raised,
everything else is visited (`VisitsOk`); a set flag comes from an input that raised and leads to
an error (`ErrorsOk`). The refinement follows step by step: `VisitInput` and `RunAlone` are
`ForEach!Visit`, `CloseTeam` is `Return` or `Throw`, the schedule and the flag stutter.

**Inputs of batches.** `CallInv` has five parts per call. `CallState`: a call that is not settled holds its
inputs as its mode says, so that an unsafe call in the pool has its reference, and only unsafe
calls are disturbed. `LoopState`: the loop runs exactly while the call matches, over all its inputs, and
returns only when all were visited. `Unchanged`: until it has matched, a call reads what it was passed, from its
copy or, undisturbed, from the buffers; the collector frees none of them, since every borrower has
a reference or blocks the JavaScript thread. `VerdictsRight`: what has been visited without raising has the
verdict of the submitted contents, or an error. `OutcomeRight`: only a loop that returned, without
an error, resolves. Matching one input is then right by `TextFacts`.

**Scripts and releases.** `TypeOK` needs two facts to be inductive: a candidate is installed only
after validation (`Checked`), and a version is published only once tagged, pushed only once
published (`Released`), which is also `TagsAndVersionsAgree`. `ScriptInv` is the invariant of a
running script. `Tracked`: the shell knows every directory it made. Before the commit the prior prebuild is
either `Intact`, in its place with nothing left to undo, or `Kept`, in the backup with a root the shell knows, and the command
about to run fixes which (`FoundPrior`); the one escape is `Exposed`, a late failure of
the restoring `mv` on `darwin`, which the assumption of `PriorAlwaysSurvives` excludes and the other
theorems do not need excluded, since such a script fails with an unclean status. After the
commit nothing touches the target (`Committed`). `Cleaned` says how far a cleanup without
failures has come, and gives `FailureRestores` and `SuccessInstalls` at its end. `Built` carries
the latter across the two scripts to the publication; that no other file is there is what the manifest check adds.

**Only model-checked.** `EveryCallSettles`, `EveryBatchEnds` and `EveryBatchSettles` are liveness properties, which
the prover does not reach. Every safety property a passing run checks has a theorem. That `FailureIsNotReused`
and the `PriorSurvives` of a late failure do not hold is shown by TLC's counterexamples.

## Findings

**A retry may be handed the failure it retries.** `README.md` says "Failed compilations are not cached", and `test/cache.test.js:27` names the
behaviour "deduplicates concurrent failures but retries after settlement". A failed
compilation stays in `in_flight`, done, until its owner's completion runs on the owner's
loop (`native/set-cache.cc:241`, `native/set-binding.cc:107`). An environment that had joined
may be rejected before that, retry, and be handed the same failed compilation. The run
`SetCompileRetry` shows it. The answer is still right, for patterns RE2 refuses; after a
transient failure (`unexpected_failure`) the retry is rejected without an attempt.

**A failed restoration on darwin may remove what it restored.** `README.md` says that both
platform builds "restore the prior artifact if generation, validation, or installation
fails". When the `mv` of `scripts/build-darwin-prebuild.sh:31` moves the backup into place and reports a
failure all the same, which `test/build.test.js` tries on the other moves (`backup-fail-after`, `candidate-fail-after`) but
on this one only before it takes effect (`restore-fail`), `INSTALLED` is not reset, and lines 51 to 53 remove the prior prebuild as an uncommitted candidate, while the
message says it was preserved. `build.sh` tests `HAD_TARGET` instead and is safe. The
run `PrebuildRollback` shows it; `PriorAlwaysSurvives` proves it is the only way.

## What is not modelled

- Failures of `std::mutex` and of allocation inside a critical section.
- The addon never cancels work itself; `CancelWork` is the host's doing.
- Reasons for an early failure of a call (bad patterns, allocation, Node-API) are one
  failure, "setup".
- Strings are their UTF-8; a pattern is bytes, and RE2 decides which lists it refuses.
- The message of an exception; which Node-API call failed.
- `verify-prebuilds.mjs` checks names and kinds of files; the manifest is modelled as which
  directories hold files, and which of them, not as file names. Login, branch and platform checks of
  `release.sh` only stop it before it changes anything. What Docker and `prebuildify` build is an
  oracle: the one file expected, or not.
- In `AsyncBatch`, matching one input is one step: a buffer written while it is matched, which
  the contract of `unsafe` forbids, is read before or after the write. Buffers shared with
  another Worker are not written while a synchronous call borrows them, by the same contract.
  Getters on the inputs array run before the native call and are in `NativeCalls`.
- RE2 and Abseil are an oracle. `src/index.ts` and `src/binding.ts` export and load.

## Plan

Every component of the code but the vendored engines is modelled, and every safety property that holds
is proved. What is left is refinement.

1. `SetCacheLRU`: the registry's cache refines a bounded least-recently-used map.
2. An abstract batch promise that `AsyncBatch` implements for calls that are safe or undisturbed.
