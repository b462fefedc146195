# TLA+ models of zephyr-packages

zephyr-packages is the client side of the Zephyr Cloud platform: bundler
plugins, a CLI and device runtimes that turn the output of a build into a
*snapshot* on an edge platform, and keep running applications up to date with
it. This directory holds specifications of the parts of that code where order,
concurrency and failure decide what users see, the TLC configurations that
check them, and proofs that TLAPS checks.

Paths below are relative to `src/libs/`.

## 1. The system

### Components, their state and their operations

| Component | State it keeps | Operations | Module |
|---|---|---|---|
| Build session (`zephyr-agent/src/zephyr-engine/build-session.ts`) | contributions, completed participants, barrier, status, the promise of `publish()` | `contribute`, `completeParticipant`, `completePostprocess`, `fail`, `abort`, `seal`, `publish` | `BuildSession` |
| Application context (`application-context.ts`) | the current session, its generation, the last generation | `beginBuild`, `abortCurrent` | `ApplicationContext` |
| Context registry (`application-context.ts:130`) | contexts and pending initializations by alias | `getOrCreate`, `getOrCreateAsync`, `associate`, `dispose`, `clear` | not modelled |
| Partial asset store (`zephyr-agent/src/lib/node-persist/partial-assets-map.ts`) | one file: contributions by scope and key, claims, revision counter | `save`, `claim`, `commit`, `rollback`, `remove`, pruning | `PartialAssets` |
| Zephyr engine (`zephyr-engine/index.ts`) and upload strategies | fields of the build being made: build id, snapshot id, hash list, worker version, base href | `start_new_build`, `upload_assets`, `build_finished`, `build_failed` | `ZephyrEngine` |
| XPack build coordinator (`zephyr-xpack-internal/src/xpack-extract/xpack-build-coordinator.ts`) | outputs per compiler, dirty marks, compiling marks, batch, recovery set, deferred invalidation | hooks `invalid`, `thisCompilation`, `failed`, and the upload of a compilation | `XPackCoordinator` |
| Authentication (`zephyr-agent/src/lib/auth/login.ts`, `node-persist/session-lock.ts`, `node-persist/token.ts`) | stored token, session lock, session key file | `checkAuth`, `getSessionKey`, `saveToken`, `removeToken`, answer 401 | `Authentication` |
| Locked files (`node-persist/storage-lock.ts`, `atomic-file.ts`) | a lock directory, a file and its temporary | `withStorageLock`, `writeFileAtomic` | as atomic steps in `Authentication` and `PartialAssets` |
| TAP lifecycle (`zephyr-tap-runtime/src/tap-lifecycle.ts`) | a queue and an epoch per scope, the last acknowledged pause | `pause`, `resume`, listeners, platform calls, deadline, abort | `TapLifecycle` |
| Watch publisher (`zephyr-cli/src/lib/sequential-publisher.ts`, `commands/watch.ts`) | active publication, follow-up flag, debounce timer | `request`, `waitForIdle`, change events, signals | `WatchPublisher` |
| Native bundle cache (`zephyr-native-cache/src/`) | index, chain of manifest writes, manifest and files on disk, pending updates | `loadBundle`, `checkForUpdates`, `clearCache`, recovery, eviction, restart | `NativeCache` |
| Configuration cache (`zephyr-agent/src/lib/edge-requests/get-application-configuration.ts`) | cache and requests in flight by identity, a record on disk | `getApplicationConfiguration`, `invalidateApplicationConfig` | `AppConfiguration` |
| HTTP client (`zephyr-agent/src/lib/http/`) | attempt, timer and deadline of each request | `fetchWithRetries` | `FetchRetries` |
| Vite adapter (`vite-plugin-zephyr/src/lib/vite-plugin-zephyr.ts`) | the build's generation, its claims, what its environments saved | `writeBundle`, `buildApp`, the finalizer | `ViteAdapter` |
| Other bundler adapters (`rollup-`, `rolldown-`, `parcel-`, `webpack-`, `rspack-`, ... plugins) | one engine or one session | hooks of the bundler | drivers in `ZephyrEngine` and `XPackCoordinator` |
| Scaffolding, code modification, doctor, build context, transformers, logging | none that outlives a call | text and files | not modelled |

### Interactions

- An adapter obtains an `ApplicationContext` from the registry, begins a build
  and contributes to its `BuildSession`; the session calls back `prepare`,
  `upload`, `finish` on its publisher and `onFailure` on its owner. The context
  reads the status and the rollback error of the session it holds.
- The upload of a session ends in `ZephyrEngine.upload_assets`. The engine
  shares fields with the asynchronous functions it starts; they write into
  whatever build is current when their answer comes.
- Compilers of one MultiCompiler share one `XPackBuildCoordinator`, which uses
  an application context. Compilers in separate processes share the *partial
  asset store* instead, a file under an inter-process lock; the Vite finalizers
  claim from it, publish, and commit or roll back.
- Processes on one machine share the stored token, the session lock and the
  session key; they wait for each other through the platform's login events.
- Everything that uploads asks the configuration cache for the edge and its
  credentials; the cache asks the platform through the HTTP client, under the
  token that a login stores and a 401 removes.
- On the device, the native cache is shared by the loads of the federation
  runtime, the polling update check and the application, which may clear it.
- On the device, the TAP coordinator drives platform calls, listeners and an
  abort signal supplied by a host it does not trust to answer.

### What is hard

Interleavings at every `await` of one JavaScript thread; several processes on
one file; answers that come after their caller gave up; failures between two
of several uploads; crashes while a lock or a claim is held; barriers that wait
for participants that never complete; counters that restart when a store is
removed; absolute deadlines wider than a timer. `PROJECT.json` lists each
hazard with its line.

### What makes each component correct

- *Build session*: one publication at most, holding exactly what was accepted,
  without two contents for one path; one rollback for a failure; an answer for
  every `publish()`.
- *Application context*: one build that can still publish, uploads in the order
  of generations, no build on top of a failed rollback.
- *Partial asset store*: no contribution lost, none published twice unless its
  claim was given up for dead.
- *Vite adapter*: a snapshot of the environments of its own run, a producer's
  output in one snapshot, no claim left behind by a build.
- *Engine*: one identity per build, no statistics for half a version, no hash
  list of one build in the next, every hook ends.
- *XPack coordinator*: a publication has nothing older than a reported change,
  nothing of a failed batch; every edit is published in the end.
- *Authentication*: one login at a time, its waiters authorised, a request that
  names its token costs, when rejected, no other token, every login ends.
- *Configuration cache and HTTP client*: an answer of the caller's own
  principal, fresh enough, from one request at a time, in bounded time.
- *Watch publisher*: no change that was noticed stays unpublished.
- *Native bundle cache*: a wrong content has a task that deletes it, the manifest
  persisted last is the index, the version a restart would look for is kept
  until another one is persisted, nobody waits for a write that is not queued.
- *TAP lifecycle*: transitions of a scope in epoch order and one at a time,
  results that agree with what the platform stored, every failure reported
  once, always an end.

## 2. Modules

| Module | Kind | Extends or uses |
|---|---|---|
| `Publication` | abstract promise of a build session | |
| `BuildSession` | detailed session; `KeepsItsPromise` is its refinement of `Publication` | `INSTANCE Publication` |
| `BuildOrder` | abstract promise of the successive builds of one application | |
| `ApplicationContext` | composition: one `Publication` per generation; `KeepsBuildOrder` is its refinement of `BuildOrder` | `INSTANCE BuildOrder` |
| `PartialAssets` | store and its finalizers | |
| `PartialAssetsProofs` | invariants | `PartialAssets`, `TLAPS` |
| `ViteAdapter` | what the environments of a Vite build do with the store | |
| `ZephyrEngine` | engine, strategies, late answers, adapter hooks | |
| `BuildProofs` | invariants, refinement | `BuildSession`, `ZephyrEngine`, `TLAPS` |
| `ApplicationProofs` | invariants, action properties, refinement | `ApplicationContext`, `ViteAdapter`, `TLAPS` |
| `XPackCoordinator` | coordinator with compilers, files and edits around it; `KeepsBuildOrder` is its refinement of `BuildOrder` | `INSTANCE BuildOrder` |
| `XPackCoordinatorProofs` | invariants, an action property, refinement | `XPackCoordinator`, `TLAPS` |
| `Authentication` | login by several processes | |
| `FetchRetries` | attempts, pauses, timeouts and deadline of a request | |
| `AppConfiguration` | composition: the configuration cache on top of `FetchRetries` | `FetchRetries` |
| `AppConfigurationProofs` | invariants, an action property | `AppConfiguration`, `TLAPS` |
| `TapLifecycle` | coordinator with hosts, platform, listeners and clock | |
| `TapLifecycleProofs` | invariants | `TapLifecycle`, `TLAPS` |
| `WatchPublisher` | watch command, its publisher, and the build it watches | |
| `CommandProofs` | invariants, an action property | `WatchPublisher`, `Authentication`, `TLAPS` |
| `NativeCache` | loads, update check, clearing, disk and native module | |
| `NativeCacheProofs` | invariants, action properties | `NativeCache`, `TLAPS` |
| `MC*` | instances for TLC: constants that a `.cfg` cannot write, restrictions of an instance | |

Where the proofs of two components stand in one module, the second names its
specification for itself: `EngineInit` to `EngineSpec`, `LoginInit` to
`LoginSpec`, `ViteInit` to `ViteSpec`. The two share no variable.

### How state and actions correspond to the code

JavaScript runs a synchronous function to its end, so such a function is one
action. An `async` function is cut at each `await` at which another call can
come in between, and each piece is one action. A call that throws before it
assigns anything leaves the state alone and is no action. Data is reduced to
what the properties tell apart: an asset is a path and a hash, a compiler's
output is the revision of the sources it read, a build is its number.
Definitions named `Bug_X` are `X` with a plausible slip; they belong to no
specification and show that a property would notice the slip.

- **BuildSession.** `Contribute`, `CompleteParticipant`, `CompletePostprocess`,
  `Fail`, `Abort`, `Seal` and `Publish` are the methods of the class.
  `runPublish` is `BarrierPasses` or `BarrierRejects`, then `PrepareResolves`,
  `UploadResolves`, `FinishResolves`, or `CallbackRejects` at any of them.
  `MergedAssets` and `Collision` are the merge of `createPublication`.
- **ApplicationContext.** `Begin` covers `beginBuild` with its three outcomes
  (first build, replacement, replacement refused after the old one was
  aborted), `AbortCurrent` the method of that name; everything else is what a
  session of any generation may still do by `Publication`.
- **BuildOrder.** What both the context and the coordinator have to say of their
  builds: `BeginBuild`, `CloseBuild`, `CommitBuild`, `LoseBuild`, with `latest` the
  generation and `phase` what has become of it.
- **PartialAssets.** Each store operation is a read-modify-write of one file
  under a lock and one action, its pruning included. The order in which a
  finalizer calls them, and its catch clause, are those of `vite-plugin-zephyr.ts`. Two ages (claims
  abandoned after 30 minutes, groups after 24 hours) are sets that grow at will,
  which over-approximates every clock.
- **ZephyrEngine.** A hook is the sequence of awaits of an adapter's
  `writeBundle`; promises are named by the number of their allocation. The
  build id request, the hash list request and the two uploads answer at any time,
  also when nobody waits for them any more.
- **ViteAdapter.** One build of a process is `RunStarts`, then `WriteBundle` and
  `EnvironmentBuilt` per environment, `BuildApp`, and the finalizer: `Claim`,
  `Refuse` or `Publish`, `Commit`, and `Rollback` on every way out of the `try`.
  Each may fail where the code awaits. A scope is a process's own, by generation,
  or the one that producers fill (`Produce`). It uses the store as `PartialAssets`
  describes it, without its removal and its clocks.
- **XPackCoordinator.** Hooks of compilers, their uploads and the coordinator's
  reactions. Compilers, watchers and the developer are external and written
  from how `ze-setup-ze-deploy.ts` uses them. `mode` is rigid: sources are
  edited at any moment ("busy"), or only when everything is still, with failures
  ("quiet") or without ("calm"). `dropped` is history: the compilers whose mark
  or output went with a batch that `beginParticipant` aborted, until they
  contribute again.
- **Authentication.** A process walks through `checkAuth` at the grain of its
  critical sections; crashes, staleness of locks and timeouts are actions.
- **FetchRetries.** `HttpSend`, `HttpEnds`, `HttpFails`, `HttpTimesOut` and
  `HttpRetries` are the loop of `fetchWithRetries`; `Delay` is `waitForRetry` with
  `Retry-After` and the cap by the deadline. The clock counts units of the
  first pause and stands still while a timer is due.
- **AppConfiguration.** `Call` to `Finish` is one call of
  `getApplicationConfiguration`, cut at its awaits: `GetToken`, `Hit` / `Misses`,
  `Join` or `Start`, `ReadDisk`, the request of `FetchRetries`, `Save`, `Settle`
  (the `.then` that fills the cache), `Finish` (the `.finally` that ends the
  flight). `Login` is another process, `Invalidate` the method of that name.
- **TapLifecycle.** One record per request; each platform or listener call is
  begun by the coordinator, and answers, fails, stays silent, or loses its race
  and answers later. Time is a bounded counter.
- **NativeCache.** A load of each bundle and the update check are tasks with a
  place; `Hits`, `Misses`, `FindsNone`, `Drops`, the steps of a download, `Mismatches`,
  `Saves` and `Purges` are the steps they share. A download is cut where the native
  module cuts it: it removes the file that is there (`Replaces`), on Android copies
  part by part what it could not rename (`Copies`), and has put the new file in place
  (`Downloads`); `DownloadFails` is a failure before any of these or between them,
  and leaves what they left. `WriteStarts` and `WriteEnds` are the chain of
  `saveDiskManifest`; `ClearDeletes` to `ClearEnds` the loop of
  `invalidateAllCaches`; `Recover`, `Evict` and `Ready` the initialisation. `Crash`
  may tear a write and leave a download, or a part of it. A hash stands for the content that has
  it. `Platform` chooses what the native module does when a write or a
  replacement fails, and is read off the Kotlin and Objective-C sources.
- **WatchPublisher.** `Request` and `RunEnds` are `request()` and the `finally`
  of `run()`; `Read`, `PublishSucceeds` and `PublishFails` are the publish
  callback, one step per file; `SchedulePublication`, `TimerFires`, `Stop` and
  `Exit` are the watcher's callback, its timer, the signal handlers and the ways
  the process dies. The debounce is a timer that may fire as soon as it is set.

## 3. What the runs check

| Run | Shows |
|---|---|
| `build_session` (`MCBuildSession.cfg`) | Two required compilers, an optional one and a postprocessor contribute colliding asset maps, complete, fail, abort, seal and publish in every order: one consistent upload at most, one rollback per failure, an answer for every publish(), and the abstract promise of Publication. Properties: `UploadIsWhole`, `UploadIsConsistent`, `RollbackOncePerFailure`, `AnswerMatchesState`, `KeepsItsPromise`, `PublishIsAnswered`. |
| `application_context` (`MCApplicationContext.cfg`) | Four generations begin in every legal order while adapters drive any session they hold, superseded ones too: uploads start in generation order, one build is alive at a time, and a failed rollback stops the context. Properties: `OnlyLatestAlive`, `UploadsInOrder`, `NoUnsafeSupersession`. |
| `partial_assets` (`MCPartialAssets.cfg`) | Two finalizers with overlapping batches claim, publish, commit, roll back, crash and lose the lock while compilers save newer contributions, claims and groups go stale and the store is removed: no contribution is lost, or published twice without a forfeited claim. Properties: `NothingLost`, `PublishedTwiceOnlyIfForfeited`. |
| `engine_generations` (`MCZephyrEngine.cfg`) | Two builds on one engine, successive or as parallel outputs of one bundle, each of which may fail anywhere while answers of the platform come late: successive builds never share an identity, stats follow a whole version only, every hook ends and leaves the engine free. Properties: `OneIdentityPerBuild`, `StatsOnlyForWholeVersion`, `HashListIsCurrent`, `EveryBuildEnds`. |
| `xpack_watch` (`MCXPackCoordinator.cfg`) | Three compilers sharing two files, edited at any moment or only when everything is still, with or without failures: no failed output reaches a publication, what failed is published anew, a quiet edit is published stale only for a compiler whose batch was aborted, and without failures each is published. Properties: `NoFailedOutput`, `QuietPublicationIsFresh`, `RecoveryIsOwn`, `EditsArePublished`. |
| `xpack_superseded_batch` (`XPackCarried.cfg`, a counterexample) | A second change supersedes a batch whose other compiler is still to contribute: its dirty mark is dropped and its old output is carried into the publication. Properties: `CarriedIsFresh`. |
| `auth_login` (`MCAuthentication.cfg`) | Three processes log in at once while any of them may be killed, or while an expired token is stored and requests are rejected: one process owns the login, its waiters get its token, a rejection of a request that named its token removes only that token, and everyone ends. Properties: `OneLogin`, `WaitersGetTheToken`, `NamedRejectionIsExact`, `EveryLoginEnds`. |
| `tap_transitions` (`MCTapLifecycle.cfg`) | Two plain transitions of one mount, or one that is forced or deferred, whose calls answer, fail, hang or answer after the deadline or an abort: one after the other in the order of epochs, results agree with what the platform stored, resumes fall back on the last acknowledged pause, every failure is reported once, and every transition ends though nobody outside has to answer. Properties: `InEpochOrder`, `AnswerMatchesPlatform`, `ReferenceOfLastPause`, `ReportedOnce`, `EveryTransitionEnds`. |
| `watch_command` (`MCWatchPublisher.cfg`) | Builds rewrite three files of a watched directory at any moment, also between two reads of one publication and while another is asked for, publications fail, and signals stop the command: once everything has settled, the newest snapshot is the output, and without failures every noticed change is published. Properties: `SettledIsCurrent`, `ChangesArePublished`. |
| `native_cache` (`MCNativeCache.cfg`) | A load, an update check and a clearing of the cache overlap on the files and the manifest of one bundle with two announced versions, while downloads deliver any content or fail half-way, manifest writes fail, and the process ends anywhere: a wrong content always has a task that goes on to delete it unless a copy failed or the process ended, the version a restart would find is kept, and nobody waits for a write that is not queued. Properties: `LastWriteIsCurrent`, `EveryWaiterIsQueued`, `WrongFilesAreOwned`, `KnownGoodIsKept`. |
| `vite_adapter` (`MCViteAdapter.cfg`) | A process builds a client, with or without a server, three times, or fails anywhere on the way, while a second one competes with it for the output of a third: a snapshot holds its own environments and nothing of a failed publication, a producer's output is published once, and no claim outlives its build. Properties: `SnapshotIsOfItsRun`, `ExternalPublishedOnce`, `ClaimsEndWithBuild`. |
| `app_configuration` (`MCAppConfiguration.cfg`) | Two callers ask for a configuration that may be cached, on disk or to be loaded, while another process logs in, the cache is invalidated, and requests fail, are refused, time out and are retried: each gets a fresh configuration of its own principal in time, from one request at a time. Properties: `AnswerIsOwn`, `FlightIsShared`, `EndsInTime`. |

### Counterexamples

One run states what a comment of the code says and ends in a counterexample;
`PROJECT.json` ("findings") quotes the lines.

- `xpack_superseded_batch`: a second change supersedes a batch that was still
  waiting for another compiler; `openInvalidationBatch` drops that compiler's
  dirty mark and its old output is carried over. `beginParticipant` keeps the
  marks in the same situation. It takes edits that come while compilers work.

Observed while modelling, without a run of their own. The properties that come
near them say what they except.

*XPack coordinator.*

- A compilation that belongs to a failed batch aborts whatever batch is open when
  it starts (`xpack-build-coordinator.ts:382`), and `rememberFailedBuild` is not
  called for that one. A compiler it had the output of, or was waiting for, is
  later published stale, although the comment at `:357` says every affected
  child is marked. It takes three compilers and three edits, and was met in the
  attempt to prove `QuietPublicationIsFresh` for any number of them: the instance
  of two compilers knew nothing of it. The property now excepts exactly those
  compilers (`dropped`), and the instance has three.
- With edits at any moment, a compilation that began before a change was reported
  clears the mark of that change when it contributes (`:466`); the next
  compilation publishes it. `QuietPublicationIsFresh` is about edits that wait.

*Engine, sessions, Vite.*

- `commonUploadStrategy` starts the uploads of the assets and of the snapshot
  together. If the assets fail, the build ends while the snapshot's request is
  still answered, and the answer writes its `worker_version` into the engine,
  which may be at the next build by then (`ze-upload-snapshot.ts:58`).
- The Vite adapter takes a new generation when its finalizer claims. What a run
  saved before it failed stays in the generation of the next run, and
  completes it where an environment of that one emitted nothing; the package's
  README says each *current* environment must have contributed (`README.md:63`).
  `SnapshotIsOfItsRun` excepts runs that were cut short (`cut`).

*Processes on one machine.*

- `checkAuth` removes whatever token is stored, not the expired one it has read,
  and may remove the token of a login that has just completed (`login.ts:65`).
- A 401 removes the token the request named in `credentialToken`, and any token
  that is stored if it named none (`token.ts:101`). `http-request.ts:22` says that
  authenticated callers should always name it; `uploadFile` (`upload-file.ts:17`),
  `doUploadSnapshotRequest` (`upload-snapshot.ts:122`), `uploadEnvs`
  (`upload-envs.ts:25`) and `getApplicationHashList`
  (`get-application-hash-list.ts:27`) do not, and neither does the request for the
  login page (`login.ts:266`), which carries no token. A delayed answer to one of
  these can remove a token that a login has stored since. `RequestRejected` and
  `UrlFails` have both kinds; `NamedRejectionIsExact` is about the one that names it.
- A waiter can read the session key of an earlier login between the taking of
  the lock and the writing of the key (`session-lock.ts:35`), and a process that
  looks for a token just before another login completes logs in once more
  (`login.ts:78`).
- A configuration request that is in flight when the cache is invalidated stores
  its answer afterwards (`get-application-configuration.ts:150`), and the record
  on disk is not invalidated. `AnswerIsOwn` bounds the age of such an answer.
- A `run()` of the watch publisher that is rejected does not make the follow-up
  it was asked for (`sequential-publisher.ts:29`); the change waits for the next
  event. A change between the baseline and the registration of the watcher
  (`watch.ts:93`, `:113`) is seen only with the next change.

*On the device.*

- `doLoadBundle` returns `loadBundleWithVerification` without awaiting it
  (`BundleCacheLayer.ts:128`), so its `catch`, which promises "falling back to
  network", does not see what goes wrong in it; the load is rejected.
- `[data writeToFile:atomically:]` reports a failure by its result, which the iOS
  module ignores (`MFECacheModule.mm:46`): a version that was not persisted counts
  as persisted, and the file a restart would look for is deleted.
- A native download removes the file it replaces before the new one is in its place
  (`MFECacheModule.kt:193`, `MFECacheModule.mm:222`). If that fails, the old file is
  gone; and on Android a `copyTo` that fails half-way (`MFECacheModule.kt:195`)
  rejects and leaves the part it has written, which no task deletes.
  `WrongFilesAreOwned` excepts exactly that step and the end of the process.
- A content of the wrong hash that one of these leaves behind is found by the
  next load of that hash and evaluated: the file is named by the expected hash and
  not hashed again. The same holds for a wrong content that another task's
  download puts there between the verification and the evaluation.
- Two tasks that save the two versions of one bundle at once each delete the
  file of the other. `KnownGoodIsKept` excepts that case.
- A load that began before an update was found takes the bundle off
  `pendingUpdates` again when it ends.
- A TAP platform call that was given up goes on beside the next transition of
  its scope (`tap-lifecycle.ts:621`), and a deadline further away than a timer can
  count fires at once (`tap-lifecycle.ts:739`).

### Bounds, and why they are enough

| Module | Instance | Why it is enough |
|---|---|---|
| `BuildSession` | two required participants, an optional one, one postprocessor, one key, three asset maps | A barrier needs two participants to be completed in two orders and one that does not count. The maps collide by path, by hash, and not at all. |
| `ApplicationContext` | `MaxGeneration = 3`, generations may be skipped | Supersession relates three builds at most: an abandoned one, one in flight, one that begins. |
| `PartialAssets` | two scopes, one key, two finalizers with overlapping batches, `MaxRevision = 3`, `MaxEpoch = 1` | One revision under claim, one that replaces it and one of another scope are enough for every mix-up of revisions; one removal restarts the counter. |
| `ViteAdapter` | two finalizers, one with three runs, one with a single one; one or two environments, one producer, `MaxRevision = 2` | A run that fails, one after it, and one that must not see either; a competitor for one output and its successor. |
| `ZephyrEngine` | `Builds = {1, 2}`, successive or parallel | A late answer concerns the build it comes from and the one it finds. |
| `XPackCoordinator` | three compilers, two files that two of them read, `MaxEdits = 3`; a single edit where edits come at any moment | Of a batch that is aborted one compiler has contributed, one has failed before and one is concerned by neither edit. The counterexample's instance has two compilers and two edits at any moment. |
| `Authentication` | three processes; crashes, or an expired token and answers 401, to requests that name their token or none | An owner, a waiter, and a third process that interferes with both. |
| `AppConfiguration`, `FetchRetries` | two callers of one application, `MaxRetries = 2`, `Deadline = 4`, pauses of 1 and 2 or the 5 a server asks for, `TTL = 2`, credentials that live 1 or 9, `MaxClock = 6`, one login | A joining caller and the one it joins. The pauses and the server's wish exceed the deadline, a record turns stale by each of its two ages, and two requests in a row fit the clock. |
| `TapLifecycle` | two plain transitions, or one that is forced or deferred; one listener of each kind, `MaxTime = 1`, `EpochGap = 1` | The queue relates a transition to the one before it; deferral, force and the deadline concern one at a time. |
| `WatchPublisher` | two assets and a sidecar, `MaxWrites = 4` | A write before, within and after a publication, and one more for the follow-up. |
| `NativeCache` | one bundle, two hashes and a stray content (hashes symmetric), Android, `MaxWrites = 1`: a task starts while one write is queued at most | The hazards are between tasks on one bundle: a load, the update check and a clearing, of one version and the next. Writes of a second bundle would only be more of the chain. |

`MaxRevision`, `MaxEpoch`, `MaxEdits`, `MaxTime`, `EpochGap`, `MaxRequests`,
`MaxWrites`, `MaxRuns` and `MaxClock` stand in guards only to keep the state space
finite. `MaxTimer` is the longest delay a timer honours; the instances stay below
it. `MaxRetries`, `Deadline` and `TTL` are constants of the code, made small.

`NativeCache` is checked for deadlock. `CHECK_DEADLOCK FALSE` is in every other
configuration: a session that was answered, a finalizer that ended or a command
that was stopped has nothing left to do, and the bounds stop the environment.
That nobody waits for ever is said by the liveness properties instead.

### Fairness

| Module | Assumed | Why the code justifies it |
|---|---|---|
| `BuildSession` | `RuntimeFairness`: the next piece of `runPublish` runs; `BundlerFairness`: required participants and postprocessors complete | The event loop runs what is due, uploads end by their deadline. A bundler ends each compilation, and failing is allowed instead. |
| `ZephyrEngine` | each hook goes on; some outstanding request is answered | Every request has a deadline (`fetch-with-retries.ts`), so it is answered or fails. |
| `XPackCoordinator` | watchers report, compilers begin and end, uploads end | Properties of webpack and of the HTTP client. No fairness for edits or failures. |
| `Authentication` | each process goes on; the lock of a dead process turns stale | `login.ts` bounds the listening by a timeout and `session-lock.ts` refreshes and expires locks. Nobody has to log in. |
| `TapLifecycle` | time passes, due timers and continuations run | Neither the platform, nor listeners, nor the host have to answer. |
| `WatchPublisher` | events are delivered, timers fire, publications end | Node's watcher and timers; the deadline of an upload. Nobody has to write or to stop. |

All of it is weak fairness. `ApplicationContext`, `PartialAssets`, `ViteAdapter`,
`AppConfiguration` and `NativeCache` state safety only and assume none; that a call
of the configuration ends in time is a bound on the clock (`EndsInTime`).

## 4. What is proved

The theorems hold for every value of the constants that meets the named
assumption of the module (`SessionAssumption`, `GenerationAssumption`,
`PartialAssetsAssumption`, `EngineAssumption`, `CoordinatorAssumption`,
`ViteAssumption`, `AuthenticationAssumption`, `FetchAssumption`,
`ConfigurationAssumption`, `TapAssumption`, `WatchAssumption`,
`NativeCacheAssumption`): types of the constants, and that the values standing for
nothing are not among the others. The bounds are arbitrary numbers in the
proofs. For each component there is an inductive invariant (`Inv`; `EngineInv`,
`LoginInv` and `ViteInv` where it is the second of its proof module), a lemma per
action or group of actions that keeps it, `Invariance`, and then the theorems.
Every one of them was an invariant of a TLC run first. Every invariant and action
property of a run is the statement of a theorem.

- **BuildSession.** That an upload is whole or consistent is not inductive: it
  depends on what was frozen when. `PublisherInv` ties the place of `runPublish`
  to the status and to what was uploaded, `ErrorInv` makes a terminal error the
  same as a dead session with one notified failure, and `SealInv` says that the
  frozen publication is the accepted contributions, frozen behind the barrier and
  without collision. From them: `TypeCorrect`, `WholeUploads`,
  `ConsistentUploads`, `OnePublication`, `OneRollback`, `TruthfulAnswer`,
  `NoForgottenBarrier`, `StickyRollback`; and `Refinement`, that a session
  implements `Publication` (initial states map to initial states, every step to
  a step of it or a stutter).
- **ApplicationContext.** `OneLiveBuild` is nearly inductive; the order of uploads
  needs `HistoryInv`, that what was uploaded was begun no later than the latest
  generation and that a generation that was not begun has no history. Theorems
  `TypeCorrect`, `OneLiveBuild`, `OrderedUploads`, `SafeSupersession`.
  Since `Refinement` says that every session behaves as `Publication` allows,
  they carry over to contexts that hold real sessions. `OrderedBuilds` is the
  refinement of `BuildOrder`: what a superseded session still does is a stutter.
- **ZephyrEngine.** `EngineInv` rests on the identity and the hash list being
  requested and discarded together (`buildId = hashList`), and on `TurnInv`: when
  hooks run one after the other, the running one has read what the engine still
  holds, and no finished build holds the engine's identity. `StatsInv` puts both
  uploads before the statistics. Theorems `EngineTypeCorrect`, `OwnIdentity`,
  `WholeVersion`, `CurrentHashList`; and `OwedAnswers`, that a hook awaits only
  what was asked for, or has its answer.
- **PartialAssets.** `EntryInv` says that no revision is given out twice, `ClaimInv`
  and `PlaceInv` that a claim is a part of what its owner has read and lies where
  it was claimed, `SnapshotInv` that what an owner has read is still claimed by
  it, gone from the store, or forfeited. Two live claims are therefore disjoint
  (`Disjoint`), from which `PublishedOnce`; `NewerWritesSurvive` is `NothingLost`.
- **ViteAdapter.** `ClaimInv` says that a run past its claim has one claim, that
  the others are left over, and that no two overlap; `OutputInv` that what lies in
  the scope of a generation was emitted by this run or since one that was cut
  short; `FailureInv`, `SnapshotInv` and `ExternalInv` follow a claim through publication,
  commit and rollback, each of which may fail: what was published and not
  committed is claimed by its publisher only. Theorems `ViteTypeCorrect`,
  `OwnEnvironments`, `PublishedOnce`, `ClaimsReleased`.
- **XPackCoordinator.** `BuildInv` says that an output in an open batch is of this
  generation, that the batch still waits for whoever recovers, and that what is
  uploaded has an output of every compiler; `BaselineInv` that what is carried
  over was published. Theorems `TypeCorrect`, `OnlyGoodOutput` and the action
  property `RecoveredOutput`. `QuietUploadsAreFresh` goes by rounds: while edits
  wait for stillness, a compiler compiles at most once between two of them
  (`RoundInv`), so what is contributed to an open batch is as new as the last edit
  (`JoinedInv`). `BehindInv` says that whoever was told of a change that is not
  published recovers, or is awaited by, or has contributed to, the open batch;
  `UntouchedInv` that it recovers if the last edit does not concern it.
  `CalmGoesOn` is the safety part of `EditsArePublished`, in mode "calm": an open
  batch waits only for compilers with something to compile, and for one at least,
  and when all is still everything is published. Its `CalmInv` says that nothing is
  rejected and who compiles does so for the open build (`SmoothInv`), that
  everyone has published before the first edit (`FirstInv`), that the open batch
  awaits or has heard everyone whom the last edit concerns (`AwaitedInv`), and that
  what is uploaded is current (`CurrentInv`).
  `OrderedBuilds` is the refinement of `BuildOrder`; it rests on `UploadInv`, in every
  mode: a compiler that awaits an upload is the only one, and its upload is the
  one under way, so that what ends is never the upload of a batch begun since.
- **Authentication.** `LockInv` says who is where with which lock, and that a token
  about to be removed after an answer 401 to a request that named its token is
  that one;
  `WaitInv` that who asks for a login page owns the session or waits for its
  owner; `TokenInv`, where no token is lost, that a waiter's owner has ended or
  still holds the session. Theorems `LoginTypeCorrect`, `SoleLogin`,
  `TokenReachesWaiters`, the action property `ExactNamedRejection`; and
  `NoLockLeftBehind`, that a lock belongs to a process on its way to release it or
  to one that was killed, and that no two wait for each other's.
- **AppConfiguration.** `StoredInv` says that what is stored under an identity is of
  that identity, `ResultInv` the same of what callers hold, `JoinInv` that who
  joined awaits a request of its own identity, `HttpInv` that a timer never lies
  beyond the deadline, `TimeInv` that a deadline begins no later than the call.
  Theorems `TypeCorrect`, `OneFlight`, `InTime`, and the action property `OwnAnswer`.
- **TapLifecycle.** `LocalInv` relates where a transition stands to its status and
  to whether the platform has stored it, late answers included; `WrittenInv`
  relates that to the platform's record; `QueueInv` says that the tails and
  previous transitions form a queue per scope in the order of epochs. Theorems
  `EpochOrder`, `HonestAnswer`, `LastPause`. `ToldInv` counts, for each transition,
  the failures there are, the calls of error listeners made and those still owed;
  from it `ErrorsReportedOnce`. `Typed` is the part of `TypeOK` those proofs need;
  `TypeCorrect` and `NobodyHoldsUp` follow with `SettledInv`, which says that an
  abort or the deadline ends every wait, for the platform and for listeners of
  each kind.
- **NativeCache.** `EveryWaiterIsQueued` is inductive with `ShapeInv` (who is under
  way has a bundle and a hash) and `DownInv` (nothing is under way before the
  cache is up): `WaitersAreQueued`. `LastWriteIsCurrent` needs `CurrentInv`, which
  follows the clearing of the cache until it has waited for the chain:
  `LastWrite`. `WrongFilesHaveOwners` is an action property; on iOS it rests on
  `PlacedInv`, that a wrong file which lies where a task means to put its own was put
  there by another, which deletes it: there a download leaves such a file and counts
  it as its own. `ReplacedFileGoes`
  assumes Android, whose module reports a failed write, and rests on `SaverInv`:
  for every write in the chain, who awaits it or a later writer accounts for the
  version it will persist.
- **WatchPublisher.** `RunInv` ties the promise to the run, `RequestInv` says that
  what was read is as new as the latest request unless a follow-up is due, and
  `EventInv` that a noticed change was asked for or is about to be. Theorems
  `TypeCorrect`, `NoRequestDropped`, `SettledOutput`.

### What is only model-checked

- Liveness (`PublishIsAnswered`, `EveryBuildEnds`, `EditsArePublished`,
  `EveryLoginEnds`, `EveryTransitionEnds`, `ChangesArePublished`): the provers at
  hand have no rule for fairness or `ENABLED`. Where a safety property is what
  progress rests on, that one is proved: `NoForgottenBarrier`, `OwedAnswers`,
  `CalmGoesOn`, `NoLockLeftBehind`, `NobodyHoldsUp`, `NoRequestDropped`.
- What a recursive definition computes for every input cannot be proved with
  the provers at hand (their induction theorems take an operator as a
  parameter). The modules declare no recursive operator; merges and prunings
  are sets and functions.

`KeepsBuildOrder` is the other way round: proved of both modules, and not among the
properties of a run.

## 5. Not modelled

Each component left out is in `PROJECT.json` with its reason. In short:
transformers, module graphs, environment rewriting, build context, scaffolding
and the doctor are sequential text or file work whose result is a layout;
framework adapters and the Metro plugin make one pass through the engine, whose
protocol is modelled. The context registry is exported, and only its own tests
call it.

Inside modelled components the following is left out:
contents and names of assets, wording of errors, validation of options, tokens
that need no login, registration of listeners, the base href protocol of the
coordinator, files the native module can not delete, status listeners of the
native cache, watch mode and Vite 5 in the Vite adapter, and the background writes
that a run of Vite may still have under way when it has ended.

External to the source, and written from how it is used: bundlers, file watchers
and the developer (`XPackCoordinator`, `WatchPublisher`), the platform
(`ZephyrEngine`, `Authentication`), hosts and listeners (`TapLifecycle`).

## 6. Plan

What is left, in this order:

1. `LockedStore`: `withStorageLock` and `writeFileAtomic` step by step, shown to
   implement the atomic critical section that `Authentication` and
   `PartialAssets` assume.
2. The asset upload of the engine (`forEachLimit`, the cache of known hashes) as a
   refinement of the engine's single upload step.
3. Proofs: that `ViteAdapter` uses the store as `PartialAssets` allows, as a
   refinement.
4. `XPackCoordinator`: `registerParticipantBaseHref` and the closure over dependent
   configurations, and freshness when edits come at any moment.

To keep the set of runs readable, the questions of one component are asked by
one run where an instance can serve them all: `setting`, `mode` and `parallel`
are rigid variables for that purpose.
