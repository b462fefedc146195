----------------------------- MODULE ZephyrEngine -----------------------------
(***************************************************************************)
(* The build generations of one ZephyrEngine (zephyr-engine/index.ts): a   *)
(* mutable object whose fields belong to the generation being built, used  *)
(* by adapter hooks that run start_new_build, upload_assets and            *)
(* build_finished in turn, and build_failed when one of them throws.       *)
(*                                                                         *)
(* The network answers when it likes.  An answer that nobody awaits any    *)
(* more still runs its continuation, on the engine of a later generation.  *)
(*                                                                         *)
(* build_id, snapshotId, logger and hash_list are promises assigned        *)
(* together; the promise is named by the number of its allocation, 0 is    *)
(* null.  A build that a field belongs to is named by its number.          *)
(* Bug_X is X with a plausible slip, and no part of the model.             *)
(***************************************************************************)
EXTENDS Integers

CONSTANTS Builds,    \* the successive invocations of the output hook
          Overlap    \* whether a bundler may run two output hooks at once: the
                     \* cases to consider

ASSUME EngineAssumption ==
  /\ Builds \subseteq Nat \ {0}
  /\ Overlap \subseteq BOOLEAN

VARIABLES buildId,            \* build_id, snapshotId and logger
          hashList,           \* hash_list
          resolvedHashList,   \* whose list resolved_hash_list is
          buildStartTime,     \* is build_start_time set?
          versionUrl,         \* the build whose version_url is stored
          workerVersion,      \* the build whose upload set worker_version
          strategy,           \* the upload strategy of the platform
          parallel,           \* does this bundler run two output hooks at once?
          allocated,          \* how many identities were requested
          granted, refused,   \* the identities the platform answered
          listed, unlisted,   \* the hash lists that loaded, that failed to
          pc,                 \* where each hook stands
          own,                \* the promise each hook awaits
          snapshotOf,         \* the identity in the snapshot of each build
          snapshot, assets,   \* the two uploads of each build
          stats               \* whose worker version the build stats carried

engine  == <<buildId, hashList, resolvedHashList, buildStartTime, versionUrl, workerVersion>>
setting == <<strategy, parallel>>
answers == <<granted, refused, listed, unlisted>>
sent    == <<snapshotOf, snapshot, assets, stats>>
engineVars == <<engine, setting, allocated, answers, pc, own, sent>>

-----------------------------------------------------------------------------
NoStats == -1

GoTo(b, label) == pc' = [pc EXCEPT ![b] = label]

(* hasActiveBuild. *)
HasActiveBuild == buildStartTime \/ buildId # 0

(* resetBuildState(): all that build_finished and build_failed assign. *)
Reset ==
  /\ buildId' = 0 /\ hashList' = 0 /\ resolvedHashList' = 0
  /\ buildStartTime' = FALSE /\ versionUrl' = 0 /\ workerVersion' = 0

(* The hooks of one plugin instance run one after the other, except where  *)
(* the bundler writes several outputs in parallel.                         *)
MayRun(b) ==
  /\ pc[b] = "idle"
  /\ parallel \/ \A c \in Builds : pc[c] \in {"idle", "done"}

(* The requests of start_new_build for a new identity. *)
Allocate(b) ==
  LET n == allocated + 1 IN
  /\ allocated' = n
  /\ buildId' = n
  /\ hashList' = n
  /\ own' = [own EXCEPT ![b] = n]
  /\ GoTo(b, "starting")

-----------------------------------------------------------------------------
(* create() has returned: it allocated generation zero and awaited its id. *)
(* That generation is still there, or an earlier build used and ended it.  *)
EngineInit ==
  /\ \/ buildId = 1 /\ hashList = 1 /\ buildStartTime = TRUE
     \/ buildId = 0 /\ hashList = 0 /\ buildStartTime = FALSE
  /\ resolvedHashList = 0 /\ versionUrl = 0 /\ workerVersion = 0
  /\ strategy \in {"common", "aws"}
  /\ parallel \in Overlap
  /\ allocated = 1
  /\ granted = {1} /\ refused = {} /\ listed = {} /\ unlisted = {}
  /\ pc = [b \in Builds |-> "idle"]
  /\ own = [b \in Builds |-> 0]
  /\ snapshotOf = [b \in Builds |-> 0]
  /\ snapshot = [b \in Builds |-> "idle"]
  /\ assets = [b \in Builds |-> "idle"]
  /\ stats = [b \in Builds |-> NoStats]

(* start_new_build(): it joins an identity that is there, or requests one. *)
StartNewBuild(b) ==
  /\ MayRun(b)
  /\ buildStartTime' = TRUE
  /\ \/ /\ buildId # 0
        /\ own' = [own EXCEPT ![b] = buildId]
        /\ GoTo(b, "joining")
        /\ UNCHANGED <<buildId, hashList, allocated>>
     \/ /\ buildId = 0
        /\ Allocate(b)
  /\ UNCHANGED <<resolvedHashList, versionUrl, workerVersion, setting, answers, sent>>

(* The awaited build_id is there; the condition reads snapshotId only now. *)
Joins(b) ==
  /\ pc[b] = "joining"
  /\ own[b] \in granted
  /\ \/ /\ buildId = 0
        /\ Allocate(b)
     \/ /\ buildId # 0
        /\ own' = [own EXCEPT ![b] = buildId]
        /\ GoTo(b, "joined")
        /\ UNCHANGED <<buildId, hashList, allocated>>
  /\ UNCHANGED <<resolvedHashList, buildStartTime, versionUrl, workerVersion,
                 setting, answers, sent>>

(* start_new_build() returns. *)
Started(b) ==
  /\ pc[b] \in {"starting", "joined"}
  /\ own[b] \in granted
  /\ GoTo(b, "started")
  /\ UNCHANGED <<engine, setting, allocated, answers, own, sent>>

(* start_new_build() throws; only the call that requested the identity     *)
(* resets the engine, and only if it still has that identity.              *)
StartFails(b) ==
  /\ pc[b] \in {"starting", "joining", "joined"}
  /\ own[b] \in refused
  /\ IF pc[b] = "starting" /\ buildId = own[b] THEN Reset ELSE UNCHANGED engine
  /\ GoTo(b, "failing")
  /\ UNCHANGED <<setting, allocated, answers, own, sent>>

Bug_HashListArrives(n) ==
  /\ n \in 1 .. allocated \ (listed \union unlisted)
  /\ listed' = listed \union {n}
  /\ resolvedHashList' = n
  /\ UNCHANGED <<buildId, hashList, buildStartTime, versionUrl, workerVersion,
                 setting, allocated, granted, refused, unlisted, pc, own, sent>>

(* The hash list loads: kept unless the engine has moved on.               *)
HashListArrives(n) ==
  /\ n \in 1 .. allocated \ (listed \union unlisted)
  /\ listed' = listed \union {n}
  /\ resolvedHashList' = IF hashList = n THEN n ELSE resolvedHashList
  /\ UNCHANGED <<buildId, hashList, buildStartTime, versionUrl, workerVersion,
                 setting, allocated, granted, refused, unlisted, pc, own, sent>>

(* The other answers of the platform to the requests of start_new_build.   *)
PlatformAnswers(n) ==
  /\ n \in 1 .. allocated
  /\ \/ /\ n \notin listed \union unlisted
        /\ unlisted' = unlisted \union {n}
        /\ UNCHANGED <<granted, refused>>
     \/ /\ n \notin granted \union refused
        /\ \/ granted' = granted \union {n} /\ UNCHANGED refused
           \/ refused' = refused \union {n} /\ UNCHANGED granted
        /\ UNCHANGED unlisted
  /\ UNCHANGED <<engine, setting, allocated, listed, pc, own, sent>>

-----------------------------------------------------------------------------
(* upload_assets() accepts its input and awaits build_id. *)
BeginUpload(b) ==
  /\ pc[b] = "started"
  /\ buildId # 0
  /\ own' = [own EXCEPT ![b] = buildId]
  /\ GoTo(b, "identified")
  /\ UNCHANGED <<engine, setting, allocated, answers, sent>>

(* It awaits the hash list if that is not there; createSnapshot() awaits   *)
(* the build_id the engine has then.                                       *)
ChooseHashList(b) ==
  /\ pc[b] = "identified"
  /\ own[b] \in granted
  /\ \/ /\ resolvedHashList = 0 /\ hashList # 0
        /\ own' = [own EXCEPT ![b] = hashList]
        /\ GoTo(b, "listing")
     \/ /\ resolvedHashList # 0 \/ hashList = 0
        /\ own' = [own EXCEPT ![b] = buildId]
        /\ GoTo(b, "naming")
  /\ UNCHANGED <<engine, setting, allocated, answers, sent>>

Bug_HashListAwaited(b) ==
  /\ pc[b] = "listing"
  /\ own[b] \in listed
  /\ resolvedHashList' = own[b]
  /\ own' = [own EXCEPT ![b] = buildId]
  /\ GoTo(b, "naming")
  /\ UNCHANGED <<buildId, hashList, buildStartTime, versionUrl, workerVersion,
                 setting, allocated, answers, sent>>

(* The awaited hash list loaded and is kept, or failed and is done without. *)
HashListAwaited(b) ==
  /\ pc[b] = "listing"
  /\ \/ own[b] \in listed /\ resolvedHashList' = own[b]
     \/ own[b] \in unlisted /\ UNCHANGED resolvedHashList
  /\ own' = [own EXCEPT ![b] = buildId]
  /\ GoTo(b, "naming")
  /\ UNCHANGED <<buildId, hashList, buildStartTime, versionUrl, workerVersion,
                 setting, allocated, answers, sent>>

(* createSnapshot() returns and the strategy begins: both uploads at once, *)
(* or the assets first.                                                    *)
CreateSnapshot(b) ==
  /\ pc[b] = "naming"
  /\ own[b] \in granted
  /\ snapshotOf' = [snapshotOf EXCEPT ![b] = own[b]]
  /\ assets' = [assets EXCEPT ![b] = "pending"]
  /\ snapshot' = [snapshot EXCEPT ![b] = IF strategy = "common" THEN "pending" ELSE @]
  /\ GoTo(b, "sending")
  /\ UNCHANGED <<engine, setting, allocated, answers, own, stats>>

(* uploadAssets() ends; the AWS strategy goes on to the snapshot.          *)
AssetsAnswer(b) ==
  /\ assets[b] = "pending"
  /\ \E answer \in {"ok", "failed"} :
       /\ assets' = [assets EXCEPT ![b] = answer]
       /\ snapshot' = [snapshot EXCEPT ![b] =
                         IF strategy = "aws" /\ answer = "ok" THEN "pending" ELSE @]
  /\ UNCHANGED <<engine, setting, allocated, answers, pc, own, snapshotOf, stats>>

(* zeUploadSnapshot() ends: it stores the worker version of the response,  *)
(* if it has one, and throws if that has no version url.                   *)
SnapshotAnswers(b) ==
  /\ snapshot[b] = "pending"
  /\ \E answer \in {"ok", "failed"} : snapshot' = [snapshot EXCEPT ![b] = answer]
  /\ workerVersion' \in {workerVersion, b}
  /\ UNCHANGED <<buildId, hashList, resolvedHashList, buildStartTime, versionUrl,
                 setting, allocated, answers, pc, own, snapshotOf, assets, stats>>

Bug_SendStats(b) ==
  /\ pc[b] = "sending"
  /\ snapshot[b] = "ok"
  /\ stats' = [stats EXCEPT ![b] = workerVersion]
  /\ GoTo(b, "counting")
  /\ UNCHANGED <<engine, setting, allocated, answers, own, snapshotOf, snapshot, assets>>

(* Both uploads succeeded: uploadBuildStatsAndEnableEnvs().                *)
SendStats(b) ==
  /\ pc[b] = "sending"
  /\ snapshot[b] = "ok" /\ assets[b] = "ok"
  /\ stats' = [stats EXCEPT ![b] = workerVersion]
  /\ GoTo(b, "counting")
  /\ UNCHANGED <<engine, setting, allocated, answers, own, snapshotOf, snapshot, assets>>

(* The strategy returns the version url; the deploy result is being saved. *)
StoreVersion(b) ==
  /\ pc[b] = "counting"
  /\ versionUrl' = b
  /\ GoTo(b, "storing")
  /\ UNCHANGED <<buildId, hashList, resolvedHashList, buildStartTime, workerVersion,
                 setting, allocated, answers, own, sent>>

(* What makes upload_assets() throw, besides its input. *)
UploadBroke(b) ==
  \/ pc[b] = "identified" /\ own[b] \in refused
  \/ pc[b] = "naming" /\ (own[b] = 0 \/ own[b] \in refused)
  \/ pc[b] = "sending" /\ "failed" \in {snapshot[b], assets[b]}
  \/ pc[b] \in {"counting", "storing"}

(* upload_assets() refuses its input or fails later: it discards the build *)
(* and rethrows.                                                           *)
UploadFails(b) ==
  /\ pc[b] = "started" \/ UploadBroke(b)
  /\ Reset
  /\ GoTo(b, "failing")
  /\ UNCHANGED <<setting, allocated, answers, own, sent>>

(* The finally of the hook: a build that did not reach build_finished().   *)
CleanUp(b) ==
  /\ pc[b] = "failing"
  /\ IF HasActiveBuild THEN Reset ELSE UNCHANGED engine
  /\ GoTo(b, "done")
  /\ UNCHANGED <<setting, allocated, answers, own, sent>>

Bug_BuildFinished(b) ==
  /\ pc[b] = "storing"
  /\ buildStartTime' = FALSE /\ versionUrl' = 0 /\ workerVersion' = 0
  /\ GoTo(b, "done")
  /\ UNCHANGED <<buildId, hashList, resolvedHashList, setting, allocated, answers, own, sent>>

(* upload_assets() returned; build_finished() reports the url and resets.  *)
BuildFinished(b) ==
  /\ pc[b] = "storing"
  /\ Reset
  /\ GoTo(b, "done")
  /\ UNCHANGED <<setting, allocated, answers, own, sent>>

(* The bundler fails before it has output: build_failed() from buildEnd.   *)
BundlerFails(b) ==
  /\ MayRun(b)
  /\ IF HasActiveBuild THEN Reset ELSE UNCHANGED engine
  /\ GoTo(b, "done")
  /\ UNCHANGED <<setting, allocated, answers, own, sent>>

Hook(b) ==
  \/ Joins(b) \/ Started(b) \/ StartFails(b)
  \/ BeginUpload(b) \/ ChooseHashList(b) \/ HashListAwaited(b)
  \/ CreateSnapshot(b) \/ AssetsAnswer(b) \/ SnapshotAnswers(b)
  \/ SendStats(b) \/ StoreVersion(b) \/ UploadFails(b)
  \/ BuildFinished(b) \/ CleanUp(b)

Platform(n) == HashListArrives(n) \/ PlatformAnswers(n)

EngineNext ==
  \/ \E b \in Builds : StartNewBuild(b) \/ BundlerFails(b) \/ Hook(b)
  \/ \E n \in 1 .. allocated : Platform(n)

EngineSpec == EngineInit /\ [][EngineNext]_engineVars

(* Every request is answered or times out, and awaited code then runs.     *)
NetworkFairness ==
  /\ \A b \in Builds : WF_engineVars(Hook(b))
  /\ WF_engineVars(\E n \in 1 .. allocated : Platform(n))

EngineFairSpec == EngineSpec /\ NetworkFairness

-----------------------------------------------------------------------------
(* Properties.                                                             *)

EngineTypeOK ==
  /\ {buildId, hashList, resolvedHashList} \subseteq 0 .. allocated
  /\ buildStartTime \in BOOLEAN
  /\ {versionUrl, workerVersion} \subseteq Builds \union {0}
  /\ strategy \in {"common", "aws"}
  /\ parallel \in Overlap
  /\ allocated \in Nat
  /\ granted \union refused \union listed \union unlisted \subseteq 1 .. allocated
  /\ pc \in [Builds -> {"idle", "joining", "joined", "starting", "started", "identified",
                        "listing", "naming", "sending", "counting", "storing", "failing",
                        "done"}]
  /\ own \in [Builds -> 0 .. allocated]
  /\ snapshotOf \in [Builds -> 0 .. allocated]
  /\ snapshot \in [Builds -> {"idle", "pending", "ok", "failed"}]
  /\ assets \in [Builds -> {"idle", "pending", "ok", "failed"}]
  /\ stats \in [Builds -> Builds \union {0, NoStats}]

(* Builds whose hooks run one after the other never publish under the same *)
(* build id: every way to end a build, a failing one too, releases its     *)
(* identity before the next hook can join it.                              *)
OneIdentityPerBuild ==
  ~ parallel =>
  \A b, c \in Builds : b # c /\ snapshotOf[b] # 0 => snapshotOf[b] # snapshotOf[c]

(* The dashboard hears of a version only when its snapshot and all its     *)
(* assets are on the edge, whichever of the two uploads ends first.        *)
StatsOnlyForWholeVersion ==
  \A b \in Builds : stats[b] # NoStats => snapshot[b] = "ok" /\ assets[b] = "ok"

(* A hash list that loads late is not taken for the list of a newer build. *)
HashListIsCurrent ==
  ~ parallel /\ resolvedHashList # 0 => resolvedHashList = hashList

(* A hook that started its build comes to an end, whatever the platform    *)
(* answers: no await is left pending by a failure elsewhere.               *)
EveryBuildEnds ==
  \A b \in Builds : pc[b] # "idle" ~> pc[b] = "done"

=============================================================================
