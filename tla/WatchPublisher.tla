--------------------------- MODULE WatchPublisher ---------------------------
(***************************************************************************)
(* The watch command of zephyr-cli (commands/watch.ts) and the publisher   *)
(* it drives (lib/sequential-publisher.ts): publish the output directory   *)
(* of a build once, then again after each settled change of it.            *)
(*                                                                         *)
(* A file is known by its revision; to be absent or half written is a      *)
(* revision too.  The build that writes the files, the file watcher and    *)
(* the platform are external.  The debounce is a timer that may fire as    *)
(* soon as it is set.                                                      *)
(*                                                                         *)
(* Bug_X is X with a plausible slip, and no part of the model.             *)
(***************************************************************************)
EXTENDS Integers

CONSTANTS Assets,      \* the files of the output directory
          Sidecar,     \* the metadata file, read after the assets
          Directory,   \* the files below the watched directory
          Modes,       \* "reliable": nothing fails, "flaky": anything may
          MaxWrites    \* bound: files written by the builds that are watched

Files == Assets \union {Sidecar}

ASSUME WatchAssumption ==
  /\ Sidecar \notin Assets
  /\ Directory \subseteq Files
  /\ Modes \subseteq {"reliable", "flaky"}
  /\ MaxWrites \in Nat

VARIABLES mode,          \* one of Modes, which never changes
          writes,        \* files written so far
          content,       \* by file, the write that it holds, 0 at first
          command,       \* where watchCommand stands
          notified,      \* the watcher has an event to deliver
          timer,         \* the debounce timer is set
          active, followUpRequested,   \* fields of the publisher
          run,           \* what publish() is doing: nothing, collecting, uploading
          taken,         \* by file, the revision it has read
          published,     \* by file, the revision of the newest snapshot
          \* History.
          asked,         \* the output at the latest request
          failed,        \* the publisher's last run was rejected
          noticed        \* a change was made under the eyes of the watcher

output    == <<writes, content, noticed>>
publisher == <<active, followUpRequested, run, taken, asked>>
vars == <<mode, output, command, notified, timer, publisher, published, failed>>

Unread  == [f \in Files |-> -1]
Running == command \in {"baseline", "watching", "stopping"}

-----------------------------------------------------------------------------
(* The command requests a baseline and only then watches. *)
Init ==
  /\ mode \in Modes
  /\ writes = 0 /\ content = [f \in Files |-> 0]
  /\ command = "baseline" /\ notified = FALSE /\ timer = FALSE
  /\ active = TRUE /\ followUpRequested = FALSE
  /\ run = "collecting" /\ taken = Unread /\ published = Unread
  /\ asked = content /\ failed = FALSE /\ noticed = FALSE

(* A build writes a file. *)
Write(f) ==
  /\ Running
  /\ writes < MaxWrites
  /\ writes' = writes + 1
  /\ content' = [content EXCEPT ![f] = writes + 1]
  /\ IF command = "watching" /\ f \in Directory
       THEN notified' = TRUE /\ noticed' = TRUE
       ELSE UNCHANGED <<notified, noticed>>
  /\ UNCHANGED <<mode, command, timer, publisher, published, failed>>

(* schedulePublication: an event sets the timer, or sets it again. *)
SchedulePublication ==
  /\ command = "watching" /\ notified
  /\ notified' = FALSE
  /\ timer' = TRUE
  /\ UNCHANGED <<mode, output, command, publisher, published, failed>>

\* While a publication runs, callers just share its promise.
Bug_Request ==
  /\ asked' = content
  /\ IF active THEN UNCHANGED <<active, followUpRequested, run, taken>>
               ELSE /\ active' = TRUE
                    /\ followUpRequested' = FALSE
                    /\ run' = "collecting"
                    /\ taken' = Unread

(* request(): a publication that runs will be followed by another one.    *)
Request ==
  /\ asked' = content
  /\ IF active THEN /\ followUpRequested' = TRUE
                    /\ UNCHANGED <<active, run, taken>>
               ELSE /\ active' = TRUE
                    /\ followUpRequested' = FALSE
                    /\ run' = "collecting"
                    /\ taken' = Unread

TimerFires ==
  /\ command = "watching" /\ timer
  /\ timer' = FALSE
  /\ Request
  /\ UNCHANGED <<mode, output, command, notified, published, failed>>

(* The publish callback reads one asset after the other, then the sidecar. *)
Read(f) ==
  /\ Running /\ run = "collecting"
  /\ taken[f] = -1
  /\ f = Sidecar => \A a \in Assets : taken[a] # -1
  /\ taken' = [taken EXCEPT ![f] = content[f]]
  /\ run' = IF f = Sidecar THEN "uploading" ELSE run
  /\ UNCHANGED <<mode, output, command, notified, timer, active, followUpRequested,
                 published, asked, failed>>

\* The promise of a finished run stays in place.
Bug_RunEnds(rejected) ==
  /\ run' = "none"
  /\ failed' = rejected
  /\ command' = CASE command = "watching" -> "watching"
                  [] command # "watching" /\ rejected -> "failed"
                  [] command = "baseline" /\ ~ rejected -> "watching"
                  [] command = "stopping" /\ ~ rejected -> "done"
  /\ UNCHANGED <<active, followUpRequested, taken>>

(* The finally clause of run(), and what its promise tells the command: to *)
(* start watching or to exit, with an error if it was rejected.            *)
RunEnds(rejected) ==
  /\ active' = FALSE
  /\ run' = "none"
  /\ failed' = rejected
  /\ command' = CASE command = "watching" -> "watching"
                  [] command # "watching" /\ rejected -> "failed"
                  [] command = "baseline" /\ ~ rejected -> "watching"
                  [] command = "stopping" /\ ~ rejected -> "done"
  /\ UNCHANGED <<followUpRequested, taken>>

PublishSucceeds ==
  /\ Running /\ run = "uploading"
  /\ published' = taken
  /\ IF followUpRequested
       THEN /\ followUpRequested' = FALSE
            /\ run' = "collecting"
            /\ taken' = Unread
            /\ UNCHANGED <<command, active, failed>>
       ELSE RunEnds(FALSE)
  /\ UNCHANGED <<mode, output, notified, timer, asked>>

(* Reading or uploading fails.  If only build_finished did, the snapshot   *)
(* is there all the same.  A follow-up request is not looked at.           *)
PublishFails ==
  /\ Running /\ run # "none" /\ mode = "flaky"
  /\ \/ UNCHANGED published
     \/ run = "uploading" /\ published' = taken
  /\ RunEnds(TRUE)
  /\ UNCHANGED <<mode, output, notified, timer, asked>>

(* SIGINT or SIGTERM: the change the timer was set for is given up, and    *)
(* waitForIdle awaits the run in progress.                                 *)
Stop ==
  /\ command = "watching"
  /\ command' = IF active THEN "stopping" ELSE "done"
  /\ timer' = FALSE
  /\ notified' = FALSE
  /\ UNCHANGED <<mode, output, publisher, published, failed>>

(* The watcher reports an error, or a signal comes while nobody handles    *)
(* it: the process exits and leaves its publication where it is.           *)
Exit ==
  /\ Running /\ mode = "flaky"
  /\ command' = "failed"
  /\ UNCHANGED <<mode, output, notified, timer, publisher, published, failed>>

-----------------------------------------------------------------------------
Publish == PublishSucceeds \/ PublishFails \/ \E f \in Files : Read(f)

Next ==
  \/ \E f \in Files : Write(f)
  \/ SchedulePublication \/ TimerFires \/ Publish \/ Stop \/ Exit

(* Events are delivered, timers fire, and publications end: an upload has  *)
(* a deadline.                                                             *)
Progress == WF_vars(SchedulePublication) /\ WF_vars(TimerFires) /\ WF_vars(Publish)

Spec == Init /\ [][Next]_vars /\ Progress

-----------------------------------------------------------------------------
(* Properties. *)

TypeOK ==
  /\ mode \in Modes
  /\ writes \in Nat
  /\ content \in [Files -> Nat] /\ asked \in [Files -> Nat]
  /\ taken \in [Files -> Nat \union {-1}]
  /\ published \in [Files -> Nat \union {-1}]
  /\ command \in {"baseline", "watching", "stopping", "done", "failed"}
  /\ run \in {"none", "collecting", "uploading"}
  /\ {notified, timer, active, followUpRequested, failed, noticed} \subseteq BOOLEAN

(* A run that was not rejected leaves nothing behind that was asked for:   *)
(* when the publisher is idle, the newest snapshot has every file at least *)
(* as it was at the latest request, one made during the run included.      *)
RequestsAreHonoured ==
  ~ active /\ ~ failed => \A f \in Files : published[f] >= asked[f]

(* When everything has settled (no event, no timer, nobody publishing) and *)
(* the last run was not rejected, the newest snapshot is the output.  A    *)
(* change made before the watcher existed needs another one to be seen.    *)
SettledIsCurrent ==
  command = "watching" /\ noticed /\ ~ notified /\ ~ timer /\ ~ active /\ ~ failed =>
    \A f \in Directory : published[f] = content[f]

(* If nothing fails, a change made under the eyes of the watcher is        *)
(* published, unless the command is stopped before; and it then stops.     *)
ChangesArePublished ==
  (mode = "reliable" /\ noticed) ~>
    (\/ ~ Running
     \/ command = "watching" /\ \A f \in Directory : published[f] = content[f])
=============================================================================
