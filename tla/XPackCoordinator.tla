-------------------------- MODULE XPackCoordinator --------------------------
(***************************************************************************)
(* XPackBuildCoordinator (zephyr-xpack-internal/src/xpack-extract): the    *)
(* compilers of one webpack or Rspack MultiCompiler publish one snapshot   *)
(* together.  Its callers are the compiler hooks of ze-setup-ze-deploy.ts: *)
(* invalid, thisCompilation, failed, and the upload of a compilation.      *)
(*                                                                         *)
(* What is abstracted.  An output is known by the revision of the sources  *)
(* its compiler read and by the logical generation it was compiled in.     *)
(* The compilers, their watchers and the editing developer are external.   *)
(* A session counts by its status only; modules BuildSession and           *)
(* ApplicationContext say the rest.  Promise callbacks that run before any *)
(* hook can are one step with the code that settles the promise.           *)
(*                                                                         *)
(* Bug_X is X with a plausible slip, and no part of the model.             *)
(***************************************************************************)
EXTENDS Integers, FiniteSets

CONSTANTS Participants,   \* the names of the child compilers
          Files,          \* source files
          Reads,          \* the compilers that depend on each file
          MaxEdits,       \* bound: edits of the sources
          Modes           \* "busy": sources are edited at any moment,
                          \* "quiet": edits wait until everything is still,
                          \* "calm": as quiet, and nothing fails

ASSUME CoordinatorAssumption ==
  /\ Participants # {}
  /\ Reads \in [Files -> SUBSET Participants]
  /\ MaxEdits \in Nat
  /\ Modes \subseteq {"busy", "quiet", "calm"}

VARIABLES
  mode,              \* one of Modes, which never changes
  rev,               \* number of edits so far
  edited,            \* of each file, the edit that changed it last
  changed,           \* of each compiler, the changes its watcher has not reported
  compiler,          \* where each compiler stands
  generation,        \* of each compiler, the number of its next compilation
  input,             \* of each compiler, the revision its compilation reads
  activeBuild,
  nextLogicalGeneration,
  localGenerations,
  rejectedLocalGenerations,
  pendingRecovery,   \* pendingRecoveryParticipants
  lastSuccessful,
  reported,          \* history: the newest edit of each compiler's files that
                     \* an invalid hook has reported
  published,         \* history: the logical generations that were published
  dropped            \* history: compilers whose output or mark went with an
                     \* aborted batch, until they contribute again

external    == <<mode, rev, edited, changed, compiler, generation, input>>
coordinator == <<activeBuild, nextLogicalGeneration, localGenerations,
                 rejectedLocalGenerations, pendingRecovery, lastSuccessful>>
history     == <<reported, published, dropped>>
vars        == <<external, coordinator, history>>

-----------------------------------------------------------------------------
NoOutput == [rev |-> -1, logical |-> -1]

NoBuild == [id |-> -1, status |-> "none", dirty |-> {}, started |-> {},
            keys |-> {}, contributions |-> [p \in Participants |-> NoOutput]]

(* session.isTerminal, or no session at all *)
IsTerminal == activeBuild.status \in {"none", "published", "failed", "aborted"}

(* createBuild throws in the middle of an upload, which beginBuild refuses *)
(* to abort.                                                               *)
CreateRefused == activeBuild.status = "uploading"

Bug_NewBuild(dirty) == [NoBuild EXCEPT !.id = nextLogicalGeneration, !.status = "open",
                                       !.dirty = dirty]

NewBuild(dirty) == [NoBuild EXCEPT !.id = nextLogicalGeneration, !.status = "open",
                                   !.dirty = dirty \union pendingRecovery]

HasContributed(b, p) == b.contributions[p] # NoOutput

(* resolveAffectedParticipants: without a complete baseline everyone.      *)
Affected(p, f) ==
  IF \E q \in Participants : lastSuccessful[q] = NoOutput
  THEN Participants
  ELSE {p} \union Reads[f]

(* rememberFailedBuild: the output of a compilation that belongs to b, or  *)
(* is about to, will be refused.                                           *)
Remember(b) ==
  LET Rejects(p) == localGenerations[p].local + (IF p \in b.started THEN 0 ELSE 1) IN
  /\ pendingRecovery' = pendingRecovery \union b.dirty \union b.started
  /\ rejectedLocalGenerations' =
       [p \in Participants |->
          rejectedLocalGenerations[p] \union
            (IF p \in b.dirty \union b.started THEN {Rejects(p)} ELSE {})]

(* failParticipant(p).  While an upload is under way session.fail throws,  *)
(* after the failure was remembered.                                       *)
FailParticipant(p) ==
  IF activeBuild.status = "failed" THEN UNCHANGED coordinator
  ELSE LET b == [(IF IsTerminal THEN NewBuild({}) ELSE activeBuild)
                   EXCEPT !.dirty = @ \union {p}] IN
       /\ activeBuild' = [b EXCEPT !.status = IF @ = "open" THEN "failed" ELSE @]
       /\ nextLogicalGeneration' = nextLogicalGeneration + (IF IsTerminal THEN 1 ELSE 0)
       /\ Remember(b)
       /\ UNCHANGED <<localGenerations, lastSuccessful>>

-----------------------------------------------------------------------------
(* The developer and the compilers: their part of each step.               *)

Quiet == /\ IsTerminal
         /\ \A p \in Participants : compiler[p] = "idle" /\ changed[p] = {}

Goes(p, to) == compiler' = [compiler EXCEPT ![p] = to]

(* A compilation starts: p reads its sources as they are.                  *)
Compiles(p) ==
  /\ compiler[p] = "waiting"
  /\ generation' = [generation EXCEPT ![p] = @ + 1]
  /\ input' = [input EXCEPT ![p] = rev]
  /\ changed' = [changed EXCEPT ![p] = {}]
  /\ UNCHANGED <<mode, rev, edited>>

Init ==
  /\ mode \in Modes
  /\ rev = 0
  /\ edited = [f \in Files |-> 0]
  /\ changed = [p \in Participants |-> {}]
  /\ compiler = [p \in Participants |-> "waiting"]
  /\ generation = [p \in Participants |-> 0]
  /\ input = [p \in Participants |-> 0]
  /\ activeBuild = NoBuild
  /\ nextLogicalGeneration = 0
  /\ localGenerations = [p \in Participants |-> [local |-> -1, logical |-> -1]]
  /\ rejectedLocalGenerations = [p \in Participants |-> {}]
  /\ pendingRecovery = {}
  /\ lastSuccessful = [p \in Participants |-> NoOutput]
  /\ reported = [p \in Participants |-> 0]
  /\ published = {}
  /\ dropped = {}

Edit(f) ==
  /\ rev < MaxEdits
  /\ mode # "busy" => Quiet
  /\ rev' = rev + 1
  /\ edited' = [edited EXCEPT ![f] = rev + 1]
  /\ changed' = [p \in Participants |-> IF p \in Reads[f] THEN changed[p] \union {f}
                                                         ELSE changed[p]]
  /\ UNCHANGED <<mode, compiler, generation, input, coordinator, history>>

-----------------------------------------------------------------------------
(* The hooks.                                                              *)

(* What openInvalidationBatch does for a change of f that p reports first. *)
Joins(f)  == f \in activeBuild.keys
Opens(p, f) ==
  \/ IsTerminal
  \/ p \in activeBuild.started
  \/ ~ Joins(f) /\ \E q \in Affected(p, f) : HasContributed(activeBuild, q)

Bug_OpenInvalidationBatch(p, f) ==
  LET b == IF Opens(p, f) THEN NewBuild({}) ELSE activeBuild IN
  /\ activeBuild' = [b EXCEPT !.keys = @ \union {f}, !.dirty = @ \union {p}]
  /\ nextLogicalGeneration' = nextLogicalGeneration + (IF Opens(p, f) THEN 1 ELSE 0)
  /\ reported' = [q \in Participants |-> IF q \in Reads[f] THEN edited[f] ELSE reported[q]]

OpenInvalidationBatch(p, f) ==
  LET b == IF Opens(p, f) THEN NewBuild({}) ELSE activeBuild IN
  /\ activeBuild' = [b EXCEPT !.keys = @ \union {f},
                       !.dirty = @ \union {q \in Affected(p, f) :
                                             ~ (Joins(f) /\ HasContributed(b, q))}]
  /\ nextLogicalGeneration' = nextLogicalGeneration + (IF Opens(p, f) THEN 1 ELSE 0)
  /\ reported' = [q \in Participants |-> IF q \in Reads[f] THEN edited[f] ELSE reported[q]]

(* The invalid hook: the watcher of an idle compiler reports one change;   *)
(* its compilation will read them all.                                     *)
InvalidateParticipant(p, f) ==
  /\ compiler[p] = "idle"
  /\ f \in changed[p]
  /\ ~ (Opens(p, f) /\ CreateRefused)
  /\ OpenInvalidationBatch(p, f)
  /\ Goes(p, "waiting")
  /\ UNCHANGED <<mode, rev, edited, changed, generation, input, localGenerations,
                 rejectedLocalGenerations, pendingRecovery, lastSuccessful, published, dropped>>

(* The hook throws: the change is not recorded by the coordinator.         *)
InvalidateRefused(p, f) ==
  /\ compiler[p] = "idle"
  /\ f \in changed[p]
  /\ Opens(p, f) /\ CreateRefused
  /\ nextLogicalGeneration' = nextLogicalGeneration + 1
  /\ Goes(p, "waiting")
  /\ UNCHANGED <<mode, rev, edited, changed, generation, input, activeBuild, localGenerations,
                 rejectedLocalGenerations, pendingRecovery, lastSuccessful, history>>

(* The rejected generations beginParticipant keeps.                        *)
StillRejected(p) ==
  [rejectedLocalGenerations EXCEPT ![p] = {n \in @ : n > generation[p]}]

(* thisCompilation, beginParticipant: the compilation joins the active     *)
(* build, or replaces a build that p already started in.                   *)
BeginParticipant(p) ==
  LET again == ~ IsTerminal /\ p \in activeBuild.started
      opens == IsTerminal \/ again
      b == IF opens THEN NewBuild(IF again THEN activeBuild.dirty ELSE {}) ELSE activeBuild IN
  /\ Compiles(p)
  /\ generation[p] \notin rejectedLocalGenerations[p]
  /\ ~ (opens /\ CreateRefused)
  /\ activeBuild' = [b EXCEPT !.dirty = @ \union {p}, !.started = @ \union {p}]
  /\ nextLogicalGeneration' = nextLogicalGeneration + (IF opens THEN 1 ELSE 0)
  /\ localGenerations' =
       [localGenerations EXCEPT ![p] = [local |-> generation[p], logical |-> b.id]]
  /\ rejectedLocalGenerations' = StillRejected(p)
  /\ Goes(p, "compiling")
  /\ UNCHANGED <<pendingRecovery, lastSuccessful, history>>

(* The compilation belongs to a batch that failed: the active build is     *)
(* aborted too, and the hook throws.  Whether the bundler then calls its   *)
(* failed hook is the bundler's business.                                  *)
BeginRejected(p) ==
  /\ Compiles(p)
  /\ generation[p] \in rejectedLocalGenerations[p]
  /\ rejectedLocalGenerations' = [rejectedLocalGenerations EXCEPT ![p] = @ \ {generation[p]}]
  /\ activeBuild' = [activeBuild EXCEPT !.status = IF @ = "open" THEN "aborted" ELSE @]
  /\ dropped' = dropped \union (IF activeBuild.status = "open"
                               THEN activeBuild.dirty \union activeBuild.started ELSE {})
  /\ Goes(p, "failing") \/ Goes(p, "idle")
  /\ UNCHANGED <<nextLogicalGeneration, localGenerations, pendingRecovery, lastSuccessful,
                 reported, published>>

(* An upload is under way that p took part in: createBuild throws.         *)
BeginRefused(p) ==
  /\ Compiles(p)
  /\ generation[p] \notin rejectedLocalGenerations[p]
  /\ CreateRefused
  /\ p \in activeBuild.started
  /\ nextLogicalGeneration' = nextLogicalGeneration + 1
  /\ rejectedLocalGenerations' = StillRejected(p)
  /\ Goes(p, "failing") \/ Goes(p, "idle")
  /\ UNCHANGED <<activeBuild, localGenerations, pendingRecovery, lastSuccessful,
                 history>>

-----------------------------------------------------------------------------
(* The upload of a compilation: contribute and publishIfReady.             *)

IsStale(p) == localGenerations[p].logical # activeBuild.id

Bug_Contributed(p) ==
  [activeBuild EXCEPT
     !.contributions[p] = [rev |-> input[p], logical |-> activeBuild.id]]

(* activeBuild once p has contributed to it.                               *)
Contributed(p) ==
  [activeBuild EXCEPT
     !.contributions[p] = [rev |-> input[p], logical |-> activeBuild.id],
     !.dirty = @ \ {p}]

WithCarried(b) ==
  [b EXCEPT !.contributions =
     [q \in Participants |-> IF @[q] = NoOutput THEN lastSuccessful[q] ELSE @[q]]]

MayPublish(b) ==
  /\ b.dirty = {}
  /\ \A q \in Participants : HasContributed(WithCarried(b), q)

(* prepareParticipant throws if the build of p was superseded or has ended,  *)
(* and nothing remembers it.  contribute throws, and the failed build is     *)
(* remembered, if it is being uploaded, or ended since prepareParticipant.   *)
ContributeRejected(p) ==
  /\ compiler[p] = "compiling"
  /\ \/ /\ IsStale(p) \/ IsTerminal
        /\ UNCHANGED coordinator
     \/ /\ ~ IsStale(p) /\ activeBuild.status # "open"
        /\ Remember(activeBuild)
        /\ UNCHANGED <<activeBuild, nextLogicalGeneration, localGenerations, lastSuccessful>>
  /\ Goes(p, "failing")
  /\ UNCHANGED <<mode, rev, edited, changed, generation, input, history>>

Bug_Contribute(p) ==
  LET b == [activeBuild EXCEPT
             !.contributions[p] = [rev |-> input[p], logical |-> localGenerations[p].logical],
             !.dirty = @ \ {p}] IN
  /\ compiler[p] = "compiling"
  /\ activeBuild.status = "open"
  /\ IF MayPublish(b)
     THEN /\ activeBuild' = [WithCarried(b) EXCEPT !.status = "uploading"]
          /\ Goes(p, "uploading")
     ELSE /\ activeBuild' = b
          /\ Goes(p, "idle")
  /\ dropped' = dropped \ {p}
  /\ UNCHANGED <<mode, rev, edited, changed, generation, input, nextLogicalGeneration,
                 localGenerations, rejectedLocalGenerations, pendingRecovery, lastSuccessful,
                 reported, published>>

(* The output joins the active build.  The last one that was missing      *)
(* starts the upload, with what is carried over from the last success.     *)
Contribute(p) ==
  LET b == Contributed(p) IN
  /\ compiler[p] = "compiling"
  /\ ~ IsStale(p)
  /\ activeBuild.status = "open"
  /\ IF MayPublish(b)
     THEN /\ activeBuild' = [WithCarried(b) EXCEPT !.status = "uploading"]
          /\ Goes(p, "uploading")
     ELSE /\ activeBuild' = b
          /\ Goes(p, "idle")
  /\ dropped' = dropped \ {p}
  /\ UNCHANGED <<mode, rev, edited, changed, generation, input, nextLogicalGeneration,
                 localGenerations, rejectedLocalGenerations, pendingRecovery, lastSuccessful,
                 reported, published>>

(* session.publish() resolves and publishIfReady runs to its end.          *)
PublishSucceeds(p) ==
  /\ compiler[p] = "uploading"
  /\ activeBuild' = [activeBuild EXCEPT !.status = "published"]
  /\ lastSuccessful' = activeBuild.contributions
  /\ pendingRecovery' = {}
  /\ published' = published \union {activeBuild.id}
  /\ Goes(p, "idle")
  /\ UNCHANGED <<mode, rev, edited, changed, generation, input, nextLogicalGeneration,
                 localGenerations, rejectedLocalGenerations, reported, dropped>>

PublishFails(p) ==
  /\ mode # "calm"
  /\ compiler[p] = "uploading"
  /\ activeBuild' = [activeBuild EXCEPT !.status = "failed"]
  /\ Remember(activeBuild)
  /\ Goes(p, "failing")
  /\ UNCHANGED <<mode, rev, edited, changed, generation, input, nextLogicalGeneration,
                 localGenerations, lastSuccessful, history>>

(* The output has errors: getSuccessfulStats fails the participant, then   *)
(* throws, and the failed hook is still to come.                           *)
CompilationHasErrors(p) ==
  /\ mode # "calm"
  /\ compiler[p] = "compiling"
  /\ FailParticipant(p)
  /\ Goes(p, "failing")
  /\ UNCHANGED <<mode, rev, edited, changed, generation, input, history>>

(* The compiler breaks before its output exists, or start_new_build fails. *)
CompilationBreaks(p) ==
  /\ mode # "calm"
  /\ compiler[p] = "compiling"
  /\ Goes(p, "failing")
  /\ UNCHANGED <<mode, rev, edited, changed, generation, input, coordinator, history>>

(* The failed hook.                                                        *)
Failed(p) ==
  /\ compiler[p] = "failing"
  /\ FailParticipant(p)
  /\ Goes(p, "idle")
  /\ UNCHANGED <<mode, rev, edited, changed, generation, input, history>>

Watcher(p)  == \E f \in Files : InvalidateParticipant(p, f) \/ InvalidateRefused(p, f)
Begins(p)   == BeginParticipant(p) \/ BeginRejected(p) \/ BeginRefused(p)
Finishes(p) == Contribute(p) \/ ContributeRejected(p)

Next ==
  \/ \E f \in Files : Edit(f)
  \/ \E p \in Participants :
       \/ Watcher(p)
       \/ Begins(p)
       \/ Finishes(p)
       \/ CompilationHasErrors(p)
       \/ CompilationBreaks(p)
       \/ PublishSucceeds(p)
       \/ PublishFails(p)
       \/ Failed(p)

(* A change is reported, a waiting compiler gets its turn, a compilation   *)
(* and an upload come to an end, and a hook that is due is called.         *)
Progress == \A p \in Participants :
  /\ WF_vars(Watcher(p))
  /\ WF_vars(Begins(p))
  /\ WF_vars(Finishes(p))
  /\ WF_vars(PublishSucceeds(p) \/ PublishFails(p))
  /\ WF_vars(Failed(p))

Spec == Init /\ [][Next]_vars /\ Progress

-----------------------------------------------------------------------------
(* Properties.                                                             *)

Output == [rev: -1 .. MaxEdits, logical: Int]

Build == [id: Int,
          status: {"none", "open", "uploading", "published", "failed", "aborted"},
          dirty: SUBSET Participants, started: SUBSET Participants,
          keys: SUBSET Files, contributions: [Participants -> Output]]

TypeOK ==
  /\ mode \in Modes
  /\ rev \in 0 .. MaxEdits
  /\ edited \in [Files -> 0 .. MaxEdits]
  /\ changed \in [Participants -> SUBSET Files]
  /\ compiler \in [Participants -> {"idle", "waiting", "compiling", "uploading", "failing"}]
  /\ generation \in [Participants -> Nat]
  /\ input \in [Participants -> 0 .. MaxEdits]
  /\ activeBuild \in Build
  /\ nextLogicalGeneration \in Nat
  /\ activeBuild.id < nextLogicalGeneration
  /\ localGenerations \in [Participants -> [local: Int, logical: Int]]
  /\ rejectedLocalGenerations \in [Participants -> SUBSET Int]
  /\ pendingRecovery \subseteq Participants
  /\ lastSuccessful \in [Participants -> Output]
  /\ reported \in [Participants -> 0 .. MaxEdits]
  /\ published \subseteq Int
  /\ dropped \subseteq Participants

Uploading == activeBuild.status = "uploading"

Carried(p) == activeBuild.contributions[p].logical # activeBuild.id

(* What is uploaded holds an output of every compiler, each one compiled   *)
(* in this generation or taken from a generation that was published: the   *)
(* output of a failed or superseded batch never reaches the edge.          *)
NoFailedOutput ==
  Uploading => \A p \in Participants :
                 activeBuild.contributions[p].logical \in published \union {activeBuild.id}

(* After a batch failed, no compiler that took part in it is represented   *)
(* by what it had published before.                                        *)
RecoveryIsOwn ==
  [][~ Uploading /\ Uploading' =>
       \A p \in pendingRecovery : activeBuild'.contributions[p].logical = activeBuild'.id]_vars

(* An output carried over from the last publication is never older than a  *)
(* change an invalid hook has reported for it.                             *)
CarriedIsFresh ==
  Uploading => \A p \in Participants :
                 Carried(p) => activeBuild.contributions[p].rev >= reported[p]

(* When edits wait for the compilers, in whatever order the hooks come and *)
(* whatever fails, nothing older than a reported change is published,      *)
(* except for a compiler whose output or mark went with a batch that a     *)
(* rejected compilation aborted: nothing recovers those.                   *)
QuietPublicationIsFresh ==
  mode # "busy" /\ Uploading =>
    \A p \in Participants \ dropped : activeBuild.contributions[p].rev >= reported[p]

(* The builds of the coordinator follow each other as BuildOrder says, so  *)
(* that an application context accepts them as its generations: createBuild *)
(* never replaces an upload in flight or goes back to an older generation,  *)
(* and whatever hooks come late, a failed build is not published.           *)
Order == INSTANCE BuildOrder
  WITH latest <- activeBuild.id,
       phase  <- IF activeBuild.status \in {"failed", "aborted"} THEN "lost"
                 ELSE activeBuild.status

KeepsBuildOrder == Order!OrderSpec

(* If nothing fails, the last edit is published in the end: the batch      *)
(* never waits for a compiler that has nothing to compile.                 *)
EditsArePublished ==
  mode = "calm" =>
    <>[](\A f \in Files : \A p \in Reads[f] : lastSuccessful[p].rev >= edited[f])

=============================================================================
