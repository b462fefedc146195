----------------------------- MODULE NativeCache -----------------------------
(***************************************************************************)
(* zephyr-native-cache: the bundle cache of a React Native application.    *)
(*                                                                         *)
(* JavaScript (BundleCacheLayer, CacheManager) runs one handler at a time  *)
(* and is interrupted wherever it awaits the native module; a load of each *)
(* bundle, one update check and one clearing of the cache may be under way *)
(* together.  An action is what a handler does up to its next native call, *)
(* or the native call itself.                                              *)
(*                                                                         *)
(* A bundle is the canonical key of its URL, and a hash is the SHA-256 of  *)
(* a content, so that hashes are contents.  A file is named by bundle and  *)
(* expected hash (getBundleDestPath), whatever content lies in it.  Times, *)
(* sizes and ages are left out: eviction may take any entry.  So are files *)
(* that can not be deleted: a deletion succeeds.                           *)
(* Bug_X is X with a plausible slip, and no part of the model.             *)
(***************************************************************************)
EXTENDS Integers, Sequences

CONSTANTS
  Bundles,      \* the keys of bundle URLs
  Hashes,       \* the hashes manifests announce
  Stray,        \* a content of a hash no manifest announces
  None,         \* no hash, no file
  Poll,         \* the task of checkForUpdates
  Platform,     \* whose native module runs: "android" or "ios"
  Nobody,       \* stands for a manifest write that no task awaits
  MaxWrites     \* bound of the model: manifest writes queued when a load starts

ASSUME NativeCacheAssumption ==
  /\ None \notin Hashes \union {Stray}
  /\ Stray \notin Hashes
  /\ Poll \notin Bundles
  /\ Nobody \notin Bundles \union {Poll}
  /\ Platform \in {"android", "ios"}
  /\ MaxWrites \in Nat

VARIABLES
  phase,        \* of the cache manager: down, recovered, evicting or up
  expected,     \* bundleHashMap
  index,        \* urlIndex: the hash of each bundle's active entry
  disk,         \* the files: the content under each bundle and hash
  manifest,     \* cache-manifest.json; torn or deleted, it names nothing
  writes,       \* the chain of manifestWrite: who awaits each pending write
  snapshot,     \* what the first pending write is writing, or None
  task,         \* the load of each bundle, and the update check
  updated,      \* the update check downloaded something
  clear,        \* invalidateAllCaches
  pending,      \* status.pendingUpdates
  answer        \* how the last load of each bundle ended

vars == <<phase, expected, index, disk, manifest, writes, snapshot, task,
          updated, clear, pending, answer>>

Contents == Hashes \union {Stray}
Tasks == Bundles \union {Poll}
Empty == [b \in Bundles |-> None]
IdleTask == [pc |-> "idle", bundle |-> None, hash |-> None, seen |-> None, sha |-> None]
NextTurn == [IdleTask EXCEPT !.pc = "asking"]
IdleClear == [pc |-> "idle", todo |-> {}, bundle |-> None, behind |-> 0]

-----------------------------------------------------------------------------
(* Steps of a task.                                                        *)

At(t, pc) == phase = "up" /\ task[t].pc = pc

Goto(t, pc) == task' = [task EXCEPT ![t].pc = pc]

(* The same, once neither the entry nor the content found matters. *)
Proceed(t, pc) == task' = [task EXCEPT ![t].pc = pc, ![t].seen = None, ![t].sha = None]

Put(b, h, content) == disk' = [disk EXCEPT ![b][h] = content]

(* getCachedBundle up to fileExists; without an entry, straight to the     *)
(* download.                                                               *)
Lookup(t, b, h) ==
  task' = [task EXCEPT ![t] =
             [pc |-> IF index[b] = None THEN "fetching" ELSE "looking",
              bundle |-> b, hash |-> h, seen |-> index[b], sha |-> None]]

(* The load answers its caller; the update check goes on to the next bundle. *)
Leave(t, result) ==
  /\ task' = [task EXCEPT ![t] = IF t = Poll THEN NextTurn ELSE IdleTask]
  /\ IF t = Poll THEN UNCHANGED answer ELSE answer' = [answer EXCEPT ![t] = result]

-----------------------------------------------------------------------------
Init ==
  /\ phase = "down"
  /\ expected = Empty
  /\ index = Empty
  /\ disk = [b \in Bundles |-> [h \in Hashes |-> None]]
  /\ manifest = Empty
  /\ writes = <<>>
  /\ snapshot = None
  /\ task = [t \in Tasks |-> IdleTask]
  /\ updated = FALSE
  /\ clear = IdleClear
  /\ pending = {}
  /\ answer = [b \in Bundles |-> "none"]

(* initialize: the entries of the manifest whose file exists; the content  *)
(* of the file is not looked at.                                           *)
Recover ==
  /\ phase = "down"
  /\ phase' = "recovered"
  /\ index' = [b \in Bundles |->
                 IF manifest[b] # None /\ disk[b][manifest[b]] # None
                 THEN manifest[b] ELSE None]
  /\ UNCHANGED <<expected, disk, manifest, writes, snapshot, task, updated, clear,
                 pending, answer>>

(* evictLRU deletes one stale bundle. *)
Evict(b) ==
  /\ phase \in {"recovered", "evicting"}
  /\ index[b] # None
  /\ phase' = "evicting"
  /\ Put(b, index[b], None)
  /\ index' = [index EXCEPT ![b] = None]
  /\ UNCHANGED <<expected, manifest, writes, snapshot, task, updated, clear,
                 pending, answer>>

(* The cache manager is ready; an eviction was persisted, or was not. *)
Ready ==
  /\ phase \in {"recovered", "evicting"}
  /\ phase' = "up"
  /\ \/ UNCHANGED manifest
     \/ phase = "evicting" /\ manifest' = index
     \/ phase = "evicting" /\ Platform = "android" /\ manifest' = Empty
  /\ UNCHANGED <<expected, index, disk, writes, snapshot, task, updated, clear,
                 pending, answer>>

(* resolveHook registers the hash of a manifest the application resolved. *)
Register(b, h) ==
  /\ expected[b] # h
  /\ expected' = [expected EXCEPT ![b] = h]
  /\ UNCHANGED <<phase, index, disk, manifest, writes, snapshot, task, updated,
                 clear, pending, answer>>

-----------------------------------------------------------------------------
(* loadBundle.                                                             *)

LoadStarts(b) ==
  /\ At(b, "idle")
  /\ Len(writes) < MaxWrites
  /\ expected[b] # None
  /\ Lookup(b, b, expected[b])
  /\ answer' = [answer EXCEPT ![b] = "waiting"]
  /\ UNCHANGED <<phase, expected, index, disk, manifest, writes, snapshot,
                 updated, clear, pending>>

(* No hash is known: skipped, and the caller falls back. *)
LoadSkips(b) ==
  /\ At(b, "idle")
  /\ expected[b] = None
  /\ answer' = [answer EXCEPT ![b] = "skipped"]
  /\ UNCHANGED <<phase, expected, index, disk, manifest, writes, snapshot, task,
                 updated, clear, pending>>

(* evalFromFile and recordBundleLoad.  A missing file rejects the load:    *)
(* doLoadBundle returns loadBundleWithVerification without awaiting it, so *)
(* its catch does not apply.                                               *)
LoadReads(b) ==
  /\ At(b, "reading")
  /\ LET t == task[b]
         content == disk[b][t.hash]
     IN IF content = None
        THEN Leave(b, "rejected") /\ UNCHANGED pending
        ELSE /\ pending' = pending \ {b}
             /\ Leave(b, IF content = t.hash THEN "loaded" ELSE "strayed")
  /\ UNCHANGED <<phase, expected, index, disk, manifest, writes, snapshot, updated,
                 clear>>

-----------------------------------------------------------------------------
(* checkForUpdates.                                                        *)

PollStarts ==
  /\ At(Poll, "idle")
  /\ Goto(Poll, "asking")
  /\ updated' = FALSE
  /\ UNCHANGED <<phase, expected, index, disk, manifest, writes, snapshot, clear,
                 pending, answer>>

(* The next bundle of a fetched manifest. *)
PollTurns(b, h) ==
  /\ At(Poll, "asking")
  /\ Len(writes) < MaxWrites
  /\ expected' = [expected EXCEPT ![b] = h]
  /\ Lookup(Poll, b, h)
  /\ UNCHANGED <<phase, index, disk, manifest, writes, snapshot, updated, clear,
                 pending, answer>>

(* No further bundle, or no manifest to be had, and nothing to apply. *)
PollEnds ==
  /\ At(Poll, "asking")
  /\ task' = [task EXCEPT ![Poll] = IdleTask]
  /\ UNCHANGED <<phase, expected, index, disk, manifest, writes, snapshot, updated,
                 clear, pending, answer>>

-----------------------------------------------------------------------------
(* What the two have in common: getCachedBundle, the download, its         *)
(* verification and saveBundleToCache.                                     *)

(* fileExists finds the file.  An entry of the expected hash is touched    *)
(* and read by a load, and leaves nothing to do to the update check.       *)
Hits(t) ==
  /\ At(t, "looking")
  /\ disk[task[t].bundle][task[t].seen] # None
  /\ task[t].seen = task[t].hash
  /\ IF t = Poll
     THEN Leave(t, "none") /\ UNCHANGED writes
     ELSE /\ Proceed(t, "reading")
          /\ writes' = Append(writes, Nobody)
          /\ UNCHANGED answer
  /\ UNCHANGED <<phase, expected, index, disk, manifest, snapshot, updated, clear,
                 pending>>

(* An entry of another hash is passed over. *)
Misses(t) ==
  /\ At(t, "looking")
  /\ disk[task[t].bundle][task[t].seen] # None
  /\ task[t].seen # task[t].hash
  /\ Proceed(t, "fetching")
  /\ UNCHANGED <<phase, expected, index, disk, manifest, writes, snapshot, updated,
                 clear, pending, answer>>

(* fileExists finds no file; the handler goes on in a later step. *)
FindsNone(t) ==
  /\ At(t, "looking")
  /\ disk[task[t].bundle][task[t].seen] = None
  /\ Goto(t, "gone")
  /\ UNCHANGED <<phase, expected, index, disk, manifest, writes, snapshot, updated,
                 clear, pending, answer>>

(* The file is gone: the entry is dropped, whichever it is by now. *)
Drops(t) ==
  /\ At(t, "gone")
  /\ index' = [index EXCEPT ![task[t].bundle] = None]
  /\ writes' = Append(writes, t)
  /\ Proceed(t, "dropping")
  /\ UNCHANGED <<phase, expected, disk, manifest, snapshot, updated, clear,
                 pending, answer>>

(* The native downloadFile has received and hashed everything; it deletes  *)
(* the file that is there ...                                              *)
Replaces(t) ==
  /\ At(t, "fetching")
  /\ Put(task[t].bundle, task[t].hash, None)
  /\ Goto(t, "placing")
  /\ UNCHANGED <<phase, expected, index, manifest, writes, snapshot, updated, clear,
                 pending, answer>>

(* ... on Android, where the new one can not be renamed, it is copied, and *)
(* so far a part of it is there ...                                        *)
Copies(t) ==
  /\ At(t, "placing")
  /\ Platform = "android"
  /\ Put(task[t].bundle, task[t].hash, Stray)
  /\ UNCHANGED <<phase, expected, index, manifest, writes, snapshot, task, updated,
                 clear, pending, answer>>

(* ... and the new one is in its place.  On iOS a file that another        *)
(* download has put there meanwhile stays and counts as the downloaded one.*)
Downloads(t) ==
  /\ At(t, "placing")
  /\ \E content \in Contents :
       /\ IF Platform = "ios" /\ disk[task[t].bundle][task[t].hash] # None
          THEN UNCHANGED disk
          ELSE Put(task[t].bundle, task[t].hash, content)
       /\ task' = [task EXCEPT ![t].pc = "fetched", ![t].sha = content]
  /\ UNCHANGED <<phase, expected, index, manifest, writes, snapshot, updated, clear,
                 pending, answer>>

(* The request fails, and the file that was there stays; or the new one    *)
(* can not be put in its place: the old one is gone, and on Android a part *)
(* of the new one stays, if any of it was copied.                          *)
DownloadFails(t) ==
  /\ \/ At(t, "fetching") /\ UNCHANGED disk
     \/ At(t, "placing") /\ Platform = "android" /\ UNCHANGED disk
     \/ At(t, "placing") /\ Platform = "android" /\ Put(task[t].bundle, task[t].hash, None)
     \/ At(t, "placing") /\ disk[task[t].bundle][task[t].hash] = None /\ UNCHANGED disk
  /\ Leave(t, "rejected")
  /\ UNCHANGED <<phase, expected, index, manifest, writes, snapshot, updated, clear,
                 pending>>

Bug_Mismatches(t) ==
  /\ At(t, "fetched")
  /\ task[t].sha # task[t].hash
  /\ Leave(t, "skipped")
  /\ UNCHANGED <<phase, expected, index, disk, manifest, writes, snapshot, updated,
                 clear, pending>>

(* A content of another hash is deleted and the load answers "skipped". *)
Mismatches(t) ==
  /\ At(t, "fetched")
  /\ task[t].sha # task[t].hash
  /\ Put(task[t].bundle, task[t].hash, None)
  /\ Leave(t, "skipped")
  /\ UNCHANGED <<phase, expected, index, manifest, writes, snapshot, updated,
                 clear, pending>>

Saves(t) ==
  /\ At(t, "fetched")
  /\ LET b == task[t].bundle
         h == task[t].hash
     IN /\ task[t].sha = h
        /\ index' = [index EXCEPT ![b] = h]
        /\ task' = [task EXCEPT ![t].pc = "saving", ![t].seen = index[b], ![t].sha = None]
  /\ writes' = Append(writes, t)
  /\ UNCHANGED <<phase, expected, disk, manifest, snapshot, updated, clear,
                 pending, answer>>

(* Once saved, a load reads the file, and the update check counts it. *)
Saved(t) == IF t = Poll THEN "counting" ELSE "reading"

(* The persisted entry replaced one of another hash, whose file goes. *)
Purges(t) ==
  /\ At(t, "purging")
  /\ Put(task[t].bundle, task[t].seen, None)
  /\ Proceed(t, Saved(t))
  /\ UNCHANGED <<phase, expected, index, manifest, writes, snapshot, updated, clear,
                 pending, answer>>

PollCounts ==
  /\ At(Poll, "counting")
  /\ pending' = pending \union {task[Poll].bundle}
  /\ updated' = TRUE
  /\ Leave(Poll, "none")
  /\ UNCHANGED <<phase, expected, index, disk, manifest, writes, snapshot, clear>>

-----------------------------------------------------------------------------
(* saveDiskManifest.                                                       *)

Bug_WriteStarts ==
  /\ writes # <<>>
  /\ snapshot = None
  /\ snapshot' = [b \in Bundles |->
                    IF Head(writes) = b /\ task[b].pc = "saving" THEN task[b].hash
                    ELSE manifest[b]]
  /\ UNCHANGED <<phase, expected, index, disk, manifest, writes, task, updated,
                 clear, pending, answer>>

(* The writer takes the index as it is when its turn comes. *)
WriteStarts ==
  /\ writes # <<>>
  /\ snapshot = None
  /\ snapshot' = index
  /\ UNCHANGED <<phase, expected, index, disk, manifest, writes, task, updated,
                 clear, pending, answer>>

Bug_After(t, persisted) ==
  CASE task[t].pc = "dropping" -> "fetching"
    [] task[t].pc = "saving" -> IF task[t].seen \notin {None, task[t].hash}
                                THEN "purging" ELSE Saved(t)

(* Where the task goes that awaited the write. *)
After(t, persisted) ==
  CASE task[t].pc = "dropping" -> "fetching"
    [] task[t].pc = "saving" -> IF persisted /\ task[t].seen \notin {None, task[t].hash}
                                THEN "purging" ELSE Saved(t)

(* What a write that ended, well or not, leaves as the manifest: Android's *)
(* writeText truncates first and reports failures; iOS writes atomically   *)
(* and reports none.                                                       *)
Written(persisted) ==
  IF Platform = "android"
  THEN IF persisted THEN {snapshot} ELSE {manifest, Empty}
  ELSE IF persisted THEN {snapshot, manifest} ELSE {}

Bug_WriteEnds(persisted) ==
  /\ snapshot # None
  /\ manifest' \in Written(persisted)
  /\ snapshot' = None
  /\ writes' = Tail(writes)
  /\ IF Head(writes) = Nobody \/ ~ persisted THEN UNCHANGED task
     ELSE Goto(Head(writes), After(Head(writes), persisted))
  /\ clear' = [clear EXCEPT !.behind = IF @ > 0 THEN @ - 1 ELSE 0]
  /\ UNCHANGED <<phase, expected, index, disk, updated, pending, answer>>

(* The native writeFile ends, and the task that awaited it goes on. *)
WriteEnds(persisted) ==
  /\ snapshot # None
  /\ manifest' \in Written(persisted)
  /\ snapshot' = None
  /\ writes' = Tail(writes)
  /\ IF Head(writes) = Nobody THEN UNCHANGED task
     ELSE Goto(Head(writes), After(Head(writes), persisted))
  /\ clear' = [clear EXCEPT !.behind = IF @ > 0 THEN @ - 1 ELSE 0]
  /\ UNCHANGED <<phase, expected, index, disk, updated, pending, answer>>

-----------------------------------------------------------------------------
(* clearCache.                                                             *)

ClearStarts ==
  /\ phase = "up"
  /\ clear.pc = "idle"
  /\ clear' = [IdleClear EXCEPT !.pc = "clearing", !.todo = {b \in Bundles : index[b] # None}]
  /\ UNCHANGED <<phase, expected, index, disk, manifest, writes, snapshot, task,
                 updated, pending, answer>>

(* removeAll deletes the file of the entry a remote has now, if any. *)
ClearDeletes(b) ==
  /\ clear.pc = "clearing"
  /\ b \in clear.todo
  /\ IF index[b] = None
     THEN clear' = [clear EXCEPT !.todo = @ \ {b}] /\ UNCHANGED disk
     ELSE /\ Put(b, index[b], None)
          /\ clear' = [clear EXCEPT !.pc = "forgetting", !.bundle = b]
  /\ UNCHANGED <<phase, expected, index, manifest, writes, snapshot, task, updated,
                 pending, answer>>

(* It then forgets the entry, be it a newer one. *)
ClearForgets ==
  /\ clear.pc = "forgetting"
  /\ index' = [index EXCEPT ![clear.bundle] = None]
  /\ clear' = [clear EXCEPT !.pc = "clearing", !.todo = @ \ {clear.bundle}, !.bundle = None]
  /\ UNCHANGED <<phase, expected, disk, manifest, writes, snapshot, task, updated,
                 pending, answer>>

(* It waits for the writes queued by now. *)
ClearWaits ==
  /\ clear.pc = "clearing"
  /\ clear.todo = {}
  /\ clear' = [clear EXCEPT !.pc = "waiting", !.behind = Len(writes)]
  /\ UNCHANGED <<phase, expected, index, disk, manifest, writes, snapshot, task,
                 updated, pending, answer>>

ClearEnds ==
  /\ clear.pc = "waiting"
  /\ clear.behind = 0
  /\ manifest' = Empty
  /\ clear' = IdleClear
  /\ UNCHANGED <<phase, expected, index, disk, writes, snapshot, task, updated,
                 pending, answer>>

-----------------------------------------------------------------------------
(* The process ends, by a crash or by NativeMFECache.restart(): memory is  *)
(* lost, a download under way has replaced its file with all or a part of  *)
(* the new one, has deleted it or left it, and a write may be torn.        *)
Restart ==
  /\ phase' = "down"
  /\ expected' = Empty /\ index' = Empty
  /\ writes' = <<>> /\ snapshot' = None
  /\ task' = [t \in Tasks |-> IdleTask]
  /\ updated' = FALSE /\ clear' = IdleClear /\ pending' = {}
  /\ answer' = [b \in Bundles |-> "none"]
  /\ disk' \in [Bundles -> [Hashes -> Contents \union {None}]]
  /\ \A b \in Bundles, h \in Hashes :
       disk'[b][h] # disk[b][h] =>
         \E t \in Tasks : /\ At(t, "fetching") \/ At(t, "placing")
                         /\ task[t].bundle = b
                         /\ task[t].hash = h
  /\ manifest' \in {manifest} \union
        (IF snapshot = None THEN {}
         ELSE IF Platform = "android" THEN {snapshot, Empty} ELSE {snapshot})

Crash == phase # "down" /\ Restart

(* The end of checkForUpdates with policy downloadAndApply. *)
PollApplies == At(Poll, "asking") /\ updated /\ Restart

Task(t) ==
  \/ Hits(t) \/ Misses(t) \/ FindsNone(t) \/ Drops(t)
  \/ Replaces(t) \/ Copies(t) \/ Downloads(t) \/ DownloadFails(t) \/ Mismatches(t)
  \/ Saves(t) \/ Purges(t)

Writer == WriteStarts \/ \E persisted \in BOOLEAN : WriteEnds(persisted)

Clear == (\E b \in Bundles : ClearDeletes(b)) \/ ClearForgets \/ ClearWaits \/ ClearEnds

Next ==
  \/ Recover \/ Ready
  \/ \E b \in Bundles :
       \/ Evict(b) \/ LoadStarts(b) \/ LoadSkips(b) \/ LoadReads(b)
       \/ \E h \in Hashes : Register(b, h) \/ PollTurns(b, h)
  \/ PollStarts \/ PollCounts \/ PollEnds \/ PollApplies
  \/ \E t \in Tasks : Task(t)
  \/ Writer
  \/ ClearStarts \/ Clear
  \/ Crash

Spec == Init /\ [][Next]_vars

-----------------------------------------------------------------------------
(* Properties.                                                             *)

TaskRecord ==
  [pc : {"idle", "looking", "gone", "dropping", "fetching", "placing", "fetched", "saving",
         "purging", "reading", "asking", "counting"},
   bundle : Bundles \union {None},
   hash : Hashes \union {None},
   seen : Hashes \union {None},
   sha : Contents \union {None}]

ClearRecord ==
  [pc : {"idle", "clearing", "forgetting", "waiting"},
   todo : SUBSET Bundles,
   bundle : Bundles \union {None},
   behind : Nat]

Index == [Bundles -> Hashes \union {None}]

TypeOK ==
  /\ phase \in {"down", "recovered", "evicting", "up"}
  /\ expected \in Index
  /\ index \in Index
  /\ disk \in [Bundles -> [Hashes -> Contents \union {None}]]
  /\ manifest \in Index
  /\ writes \in Seq(Tasks \union {Nobody})
  /\ snapshot \in Index \union {None}
  /\ task \in [Tasks -> TaskRecord]
  /\ updated \in BOOLEAN
  /\ clear \in ClearRecord
  /\ pending \subseteq Bundles
  /\ answer \in [Bundles -> {"none", "waiting", "loaded", "strayed", "skipped", "rejected"}]

(* The files that hold something else than their name says. *)
WrongFiles ==
  {f \in Bundles \X Hashes : disk[f[1]][f[2]] \notin {None, f[2]}}

(* The files some task is putting in place, or is about to delete because  *)
(* it received a content of another hash.                                  *)
Owned ==
  {f \in Bundles \X Hashes :
     \E t \in Tasks : /\ task[t].bundle = f[1]
                      /\ task[t].hash = f[2]
                      /\ \/ task[t].pc = "placing"
                         \/ task[t].pc = "fetched" /\ task[t].sha # f[2]}

(* In this step the download of file f by task t fails half-way. *)
FailsHalfway(t, f) ==
  /\ Platform = "android"
  /\ task[t].pc = "placing" /\ task[t].bundle = f[1] /\ task[t].hash = f[2]
  /\ task'[t].pc \notin {"placing", "fetched"}

(* Whatever downloads overlap on one file, a wrong content is on disk only *)
(* while a task is putting the file in place or goes on to delete it;      *)
(* nothing but a copy that failed half-way and the end of the process      *)
(* leaves one behind.                                                      *)
WrongFilesAreOwned ==
  [][phase' # "down" =>
       \A f \in (WrongFiles' \ Owned') \ (WrongFiles \ Owned) :
         \E t \in Tasks : FailsHalfway(t, f)]_vars

(* A task goes on to delete the file of the version it replaced only when  *)
(* the manifest on disk does not name that version, so that a process that *)
(* ends then finds one of the two again; or when another task has saved    *)
(* the old version anew, and each will delete the other's file.            *)
KnownGoodIsKept ==
  [][\A t \in Tasks :
       LET b == task[t].bundle
           old == task[t].seen
       IN task[t].pc = "saving" /\ task'[t].pc = "purging" /\ manifest'[b] = old =>
            \E u \in Tasks : /\ task[u].pc = "saving"
                             /\ task[u].bundle = b
                             /\ task[u].hash = old]_vars

(* The last write in the chain writes the index as it is: no older view is *)
(* persisted after a newer one.                                            *)
LastWriteIsCurrent ==
  snapshot # None /\ Len(writes) = 1 /\ clear.pc = "idle" => snapshot = index

(* Whoever awaits the persisting of the index is in the chain of writes,   *)
(* once, and the chain holds nobody else: failed writes included, no load  *)
(* and no update check is left waiting or resumed twice.                   *)
EveryWaiterIsQueued ==
  /\ \A t \in Tasks :
       task[t].pc \in {"saving", "dropping"} <=> \E i \in 1 .. Len(writes) : writes[i] = t
  /\ \A i, j \in 1 .. Len(writes) : i # j /\ writes[i] = writes[j] => writes[i] = Nobody

=============================================================================
