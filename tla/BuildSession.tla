---------------------------- MODULE BuildSession ----------------------------
(***************************************************************************)
(* One logical application build, as coordinated by the class BuildSession *)
(* of zephyr-agent (zephyr-engine/build-session.ts).  Bundler adapters     *)
(* contribute keyed asset maps, complete their participant or their        *)
(* postprocessor, fail or abort the session, and share one publish().      *)
(*                                                                         *)
(* Every synchronous method is one action, because JavaScript runs it to   *)
(* its end; the async method runPublish is cut at each of its awaits, and  *)
(* any call may come between two of its steps.  A call that throws before  *)
(* it assigns anything leaves the state alone and is therefore no action.  *)
(*                                                                         *)
(* A definition Bug_X is no part of the model: it is X with a plausible    *)
(* slip, kept to show that the properties below would notice it.           *)
(***************************************************************************)
EXTENDS Naturals, Sequences

CONSTANTS Participants,    \* names of the registered participants
          Required,        \* those registered with required = true
          Postprocessors,  \* names of the registered postprocessors
          Keys,            \* contribution keys
          Paths, Hashes,   \* normalized asset paths, content hashes
          AssetMaps        \* the asset maps an adapter may contribute

Asset == [path: Paths, hash: Hashes]

ASSUME SessionAssumption ==
  /\ Required \subseteq Participants
  /\ AssetMaps \subseteq SUBSET Asset

VARIABLES state,                    \* BuildSessionStatus
          terminalError,            \* kind of the terminal error, or "none"
          failureNotified,          \* has notifyFailure run?
          failures,                 \* history: calls of callbacks.onFailure
          completedParticipants,
          completedPostprocessors,
          contributions,            \* what contribute() accepted, by participant and key
          barrier,                  \* state of the barrier promise
          sealedPublication,        \* {} or the singleton of what seal() froze
          publisher,                \* where runPublish stands
          uploads                   \* history: the arguments of callbacks.publish

vars == <<state, terminalError, failureNotified, failures, completedParticipants,
          completedPostprocessors, contributions, barrier, sealedPublication,
          publisher, uploads>>

-----------------------------------------------------------------------------
Contribution == [participant: Participants, key: Keys, assets: AssetMaps]
Publications == [contributions: SUBSET Contribution, assets: SUBSET Asset]
Terminal     == {"published", "failed", "aborted"}

Bug_IsTerminal == state \in {"failed", "aborted"}

IsTerminal == state \in Terminal

Bug_AssertCollecting == state \notin Terminal

AssertCollecting == state = "collecting"

(* The guards of contribute(). *)
AcceptsFrom(p) == AssertCollecting /\ p \notin completedParticipants

Bug_MayEnd == terminalError # "rollback" /\ ~ IsTerminal

(* The guards common to fail() and abort(). *)
MayEnd == terminalError # "rollback" /\ ~ IsTerminal /\ state # "publishing"

(* The completion barrier: required participants and all postprocessors. *)
Ready(participants, postprocessors) ==
  /\ Required \subseteq participants
  /\ Postprocessors \subseteq postprocessors

Bug_Conflict(a, b) == a.path = b.path /\ a.hash # b.hash

(* Two assets that differ although they share a path or a content hash. *)
Conflict(a, b) == a # b /\ (a.path = b.path \/ a.hash = b.hash)

MergedAssets(cs) == UNION {c.assets : c \in cs}

(* createPublication throws BuildSessionAssetCollisionError. *)
Collision(cs) == \E a, b \in MergedAssets(cs) : Conflict(a, b)

Publication(cs) == [contributions |-> cs, assets |-> MergedAssets(cs)]

(* seal() would freeze a publication now. *)
CanSeal ==
  /\ AssertCollecting
  /\ Ready(completedParticipants, completedPostprocessors)
  /\ ~ Collision(contributions)

Bug_NotifyFailure(error, rollbackFails) ==
  /\ failureNotified' = TRUE
  /\ failures' = failures + 1
  /\ terminalError' = IF rollbackFails THEN "rollback" ELSE error

(* notifyFailure, with error the terminal error it finds: onFailure runs   *)
(* once, and when it throws the rollback error replaces the build error.   *)
NotifyFailure(error, rollbackFails) ==
  /\ failureNotified' = TRUE
  /\ failures' = IF failureNotified THEN failures ELSE failures + 1
  /\ terminalError' = IF ~ failureNotified /\ rollbackFails THEN "rollback" ELSE error

Bug_RejectBarrier == UNCHANGED barrier

RejectBarrier == barrier' = IF barrier = "pending" THEN "rejected" ELSE barrier

(* rejectSession: common to fail() and abort(). *)
RejectSession(status, rollbackFails) ==
  /\ MayEnd
  /\ state' = status
  /\ NotifyFailure(status, rollbackFails)
  /\ RejectBarrier
  /\ UNCHANGED <<completedParticipants, completedPostprocessors, contributions,
                 sealedPublication, publisher, uploads>>

(* The catch clause of runPublish: the session ends and publish() rejects. *)
PublisherFails(cause, rollbackFails) ==
  /\ state' = IF state = "aborted" THEN state ELSE "failed"
  /\ NotifyFailure(IF terminalError = "none" THEN cause ELSE terminalError,
                   rollbackFails)
  /\ publisher' = "rejected"

-----------------------------------------------------------------------------
Init ==
  /\ state = "collecting"
  /\ terminalError = "none"
  /\ failureNotified = FALSE
  /\ failures = 0
  /\ completedParticipants = {}
  /\ completedPostprocessors = {}
  /\ contributions = {}
  /\ barrier = IF Ready({}, {}) THEN "resolved" ELSE "pending"
  /\ sealedPublication = {}
  /\ publisher = "idle"
  /\ uploads = <<>>

(* A contribution under the same key replaces the earlier one. *)
Contribute(p, k, assets) ==
  /\ AcceptsFrom(p)
  /\ contributions' =
       {c \in contributions : c.participant # p \/ c.key # k}
         \union {[participant |-> p, key |-> k, assets |-> assets]}
  /\ UNCHANGED <<state, terminalError, failureNotified, failures,
                 completedParticipants, completedPostprocessors, barrier,
                 sealedPublication, publisher, uploads>>

(* resolveBarrierWhenReady, evaluated after the completed sets changed. *)
ResolveBarrierWhenReady ==
  barrier' = IF /\ state = "collecting"
                /\ Ready(completedParticipants', completedPostprocessors')
                /\ barrier = "pending"
             THEN "resolved" ELSE barrier

CompleteParticipant(p) ==
  /\ AssertCollecting
  /\ completedParticipants' = completedParticipants \union {p}
  /\ UNCHANGED completedPostprocessors
  /\ ResolveBarrierWhenReady
  /\ UNCHANGED <<state, terminalError, failureNotified, failures, contributions,
                 sealedPublication, publisher, uploads>>

CompletePostprocess(q) ==
  /\ AssertCollecting
  /\ completedPostprocessors' = completedPostprocessors \union {q}
  /\ UNCHANGED completedParticipants
  /\ ResolveBarrierWhenReady
  /\ UNCHANGED <<state, terminalError, failureNotified, failures, contributions,
                 sealedPublication, publisher, uploads>>

Fail  == \E rollbackFails \in BOOLEAN : RejectSession("failed", rollbackFails)
Abort == \E rollbackFails \in BOOLEAN : RejectSession("aborted", rollbackFails)

(* seal() from an adapter that wants the publication before the upload. *)
Seal ==
  /\ sealedPublication = {}
  /\ terminalError = "none"
  /\ CanSeal
  /\ sealedPublication' = {Publication(contributions)}
  /\ state' = "sealed"
  /\ UNCHANGED <<terminalError, failureNotified, failures, completedParticipants,
                 completedPostprocessors, contributions, barrier, publisher, uploads>>

(* The first publish(); later calls get the same promise. *)
Publish ==
  /\ publisher = "idle"
  /\ publisher' = "waiting"
  /\ UNCHANGED <<state, terminalError, failureNotified, failures,
                 completedParticipants, completedPostprocessors, contributions,
                 barrier, sealedPublication, uploads>>

(* runPublish resumes from the barrier and finds that it cannot seal. *)
BarrierRejects ==
  /\ publisher = "waiting"
  /\ barrier # "pending"
  /\ \/ barrier = "rejected"
     \/ terminalError # "none"
     \/ sealedPublication = {} /\ ~ CanSeal
  /\ \E rollbackFails \in BOOLEAN : PublisherFails("collision", rollbackFails)
  /\ UNCHANGED <<completedParticipants, completedPostprocessors, contributions,
                 barrier, sealedPublication, uploads>>

(* runPublish resumes from the barrier, seals unless an adapter already    *)
(* did, and calls prepare.                                                 *)
BarrierPasses ==
  /\ publisher = "waiting"
  /\ barrier = "resolved"
  /\ terminalError = "none"
  /\ \/ sealedPublication # {} /\ UNCHANGED sealedPublication
     \/ /\ sealedPublication = {}
        /\ CanSeal
        /\ sealedPublication' = {Publication(contributions)}
  /\ state' = "publishing"
  /\ publisher' = "preparing"
  /\ UNCHANGED <<terminalError, failureNotified, failures, completedParticipants,
                 completedPostprocessors, contributions, barrier, uploads>>

(* callbacks.prepare resolved: callbacks.publish gets the publication. *)
PrepareResolves ==
  /\ publisher = "preparing"
  /\ publisher' = "uploading"
  /\ \E publication \in sealedPublication : uploads' = Append(uploads, publication)
  /\ UNCHANGED <<state, terminalError, failureNotified, failures,
                 completedParticipants, completedPostprocessors, contributions,
                 barrier, sealedPublication>>

UploadResolves ==
  /\ publisher = "uploading"
  /\ publisher' = "finishing"
  /\ UNCHANGED <<state, terminalError, failureNotified, failures,
                 completedParticipants, completedPostprocessors, contributions,
                 barrier, sealedPublication, uploads>>

FinishResolves ==
  /\ publisher = "finishing"
  /\ state' = "published"
  /\ publisher' = "resolved"
  /\ UNCHANGED <<terminalError, failureNotified, failures, completedParticipants,
                 completedPostprocessors, contributions, barrier,
                 sealedPublication, uploads>>

(* prepare, publish or finish rejected. *)
CallbackRejects ==
  /\ publisher \in {"preparing", "uploading", "finishing"}
  /\ \E rollbackFails \in BOOLEAN : PublisherFails("callback", rollbackFails)
  /\ UNCHANGED <<completedParticipants, completedPostprocessors, contributions,
                 barrier, sealedPublication, uploads>>

Adapter ==
  \/ \E p \in Participants, k \in Keys, assets \in AssetMaps : Contribute(p, k, assets)
  \/ \E p \in Participants : CompleteParticipant(p)
  \/ \E q \in Postprocessors : CompletePostprocess(q)
  \/ Participants # {} /\ Fail
  \/ Abort
  \/ Seal
  \/ Publish

RunPublish ==
  \/ BarrierRejects
  \/ BarrierPasses
  \/ PrepareResolves
  \/ UploadResolves
  \/ FinishResolves
  \/ CallbackRejects

Next == Adapter \/ RunPublish

Spec == Init /\ [][Next]_vars

(* The event loop runs every continuation that is due, and the callbacks   *)
(* settle: the upload behind them has a deadline.                          *)
RuntimeFairness == WF_vars(RunPublish)

(* A bundler eventually ends every compilation it began. *)
BundlerFairness ==
  /\ \A p \in Required : WF_vars(CompleteParticipant(p))
  /\ \A q \in Postprocessors : WF_vars(CompletePostprocess(q))

FairSpec == Spec /\ RuntimeFairness /\ BundlerFairness

-----------------------------------------------------------------------------
(* Properties.                                                             *)

TypeOK ==
  /\ state \in {"collecting", "sealed", "publishing"} \union Terminal
  /\ terminalError \in {"none", "failed", "aborted", "collision", "callback", "rollback"}
  /\ failureNotified \in BOOLEAN
  /\ failures \in Nat
  /\ completedParticipants \subseteq Participants
  /\ completedPostprocessors \subseteq Postprocessors
  /\ contributions \subseteq Contribution
  /\ barrier \in {"pending", "resolved", "rejected"}
  /\ sealedPublication \subseteq Publications
  /\ publisher \in {"idle", "waiting", "preparing", "uploading", "finishing",
                    "resolved", "rejected"}
  /\ uploads \in Seq(Publications)

(* Whatever the interleaving of adapters and publisher, what is handed to  *)
(* the upload holds every contribution the session accepted (one that was  *)
(* not thrown back at its adapter), after every required compiler and      *)
(* every postprocessor completed.                                          *)
UploadIsWhole ==
  \A i \in DOMAIN uploads :
     /\ uploads[i] = Publication(contributions)
     /\ Ready(completedParticipants, completedPostprocessors)

(* An upload never serves two contents under one path, nor one content     *)
(* hash under two paths, although every adapter contributes on its own.    *)
UploadIsConsistent ==
  \A i \in DOMAIN uploads :
     \A a, b \in uploads[i].assets : (a.path = b.path) <=> (a.hash = b.hash)

(* "publish exactly once" (build-session.ts:367): however often publish()  *)
(* is called, callbacks.publish runs at most once, and never for a session *)
(* that failed or aborted before its publisher started.                    *)
PublishesOnce ==
  /\ Len(uploads) <= 1
  /\ uploads # <<>> =>
       publisher \in {"uploading", "finishing", "resolved", "rejected"}

(* onFailure (the rollback of what the adapters staged) runs exactly once  *)
(* for a session that ends badly, and never for one that is still alive or *)
(* that published.                                                         *)
RollbackOncePerFailure ==
  failures = IF state \in {"failed", "aborted"} THEN 1 ELSE 0

(* What publish() answered agrees with the status the context reads.       *)
AnswerMatchesState ==
  /\ publisher = "resolved" <=> state = "published"
  /\ publisher = "rejected" => state \in {"failed", "aborted"}
  /\ publisher \in {"preparing", "uploading", "finishing"} <=> state = "publishing"

(* No lost wake-up: once the required participants and the postprocessors  *)
(* completed, publish() is not left waiting on the barrier.                *)
NoLostWakeup ==
  Ready(completedParticipants, completedPostprocessors) => barrier # "pending"

(* A failed rollback is never forgotten: the context reads it to refuse a  *)
(* replacement generation, so no later step may replace the error.         *)
RollbackErrorIsSticky ==
  [][terminalError = "rollback" => terminalError' = "rollback"]_vars

(* The session implements what it promises to the application context. *)
Promise ==
  INSTANCE Publication WITH
    outcome   <- CASE state = "publishing" -> "uploading"
                   [] state = "published"  -> "published"
                   [] state \in {"failed", "aborted"} -> "lost"
                   [] OTHER -> "open",
    upload    <- {uploads[i] : i \in DOMAIN uploads},
    rollbacks <- failures

KeepsItsPromise == Promise!AbsSpec

(* Every publish() is answered, if the bundlers end what they began.       *)
PublishIsAnswered ==
  (publisher = "waiting") ~> (publisher \in {"resolved", "rejected"})

=============================================================================
