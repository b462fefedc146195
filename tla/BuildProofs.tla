----------------------------- MODULE BuildProofs -----------------------------
(***************************************************************************)
(* Theorems about the two objects that carry one build to the edge:        *)
(* BuildSession, which collects and publishes it, for every set of         *)
(* participants, postprocessors, keys and asset maps; and ZephyrEngine,    *)
(* whose fields hold its identity, for every set of builds.                *)
(*                                                                         *)
(* The safety properties are not inductive.  Those of a session rest on    *)
(* Inv, which relates where runPublish stands, the status, the terminal    *)
(* error and the frozen publication; those of the engine on EngineInv, at  *)
(* the end of the module.                                                  *)
(***************************************************************************)
EXTENDS BuildSession, ZephyrEngine, TLAPS

(* Where runPublish stands decides the status, and what it has uploaded.   *)
PublisherInv ==
  /\ publisher \in {"preparing", "uploading", "finishing"} <=> state = "publishing"
  /\ publisher = "resolved" <=> state = "published"
  /\ publisher = "rejected" => state \in {"failed", "aborted"}
  /\ publisher \in {"idle", "waiting", "preparing"} => uploads = <<>>
  /\ publisher \in {"uploading", "finishing", "resolved"} => uploads # <<>>
  /\ Len(uploads) <= 1

(* A session is alive exactly while it has no terminal error. *)
ErrorInv ==
  /\ terminalError = "none" <=> state \notin {"failed", "aborted"}
  /\ failureNotified <=> state \in {"failed", "aborted"}
  /\ failures = IF failureNotified THEN 1 ELSE 0

(* What was frozen is what was accepted, it was frozen behind the barrier, *)
(* it does not collide, and nothing else is ever uploaded.                 *)
SealInv ==
  /\ state = "collecting" => sealedPublication = {}
  /\ state \in {"sealed", "publishing", "published"} => sealedPublication # {}
  /\ sealedPublication \subseteq {Publication(contributions)}
  /\ sealedPublication # {} =>
       /\ Ready(completedParticipants, completedPostprocessors)
       /\ ~ Collision(contributions)
  /\ \A i \in DOMAIN uploads : uploads[i] \in sealedPublication

Inv == TypeOK /\ PublisherInv /\ ErrorInv /\ SealInv /\ NoLostWakeup

-----------------------------------------------------------------------------
(* Lemma: the session starts in a state of the invariant. *)
LEMMA InitInv == Init => Inv
<1> SUFFICES ASSUME Init PROVE Inv
  OBVIOUS
<1>1. TypeOK
  <2>1. barrier \in {"pending", "resolved", "rejected"}
    BY DEF Init
  <2>2. uploads \in Seq(Publications)
    BY DEF Init
  <2> QED
    BY <2>1, <2>2 DEF Init, TypeOK, Terminal
<1>2. PublisherInv
  BY DEF Init, PublisherInv
<1>3. ErrorInv
  BY DEF Init, ErrorInv
<1>4. SealInv
  BY DEF Init, SealInv
<1>5. NoLostWakeup
  BY DEF Init, NoLostWakeup, Ready
<1> QED
  BY <1>1, <1>2, <1>3, <1>4, <1>5 DEF Inv

(* Lemma: what seal() freezes is a publication. *)
LEMMA PublicationType ==
  ASSUME TypeOK
  PROVE  Publication(contributions) \in Publications
<1>1. contributions \subseteq Contribution
  BY DEF TypeOK
<1>2. \A c \in contributions : c.assets \subseteq Asset
  BY <1>1, SessionAssumption DEF Contribution
<1>3. MergedAssets(contributions) \subseteq Asset
  BY <1>2 DEF MergedAssets
<1> QED
  BY <1>1, <1>3 DEF Publication, Publications

(* Lemma: the steps that end a session badly (fail, abort, the catch of    *)
(* runPublish) keep the accounting of the failure.                         *)
LEMMA EndingKeepsErrorInv ==
  ASSUME TypeOK, ErrorInv,
         NEW error \in {"failed", "aborted", "collision", "callback", "rollback"},
         NEW rollbackFails \in BOOLEAN,
         NotifyFailure(error, rollbackFails),
         state' \in {"failed", "aborted"}
  PROVE  ErrorInv' /\ terminalError' \in
           {"failed", "aborted", "collision", "callback", "rollback"}
BY DEF TypeOK, ErrorInv, NotifyFailure

(* Lemma: every step keeps the types. *)
LEMMA TypeStep == TypeOK /\ ErrorInv /\ [Next]_vars => TypeOK'
<1> SUFFICES ASSUME TypeOK, ErrorInv, [Next]_vars PROVE TypeOK'
  OBVIOUS
<1> USE DEF TypeOK, Terminal
<1>1. ASSUME NEW p \in Participants, NEW k \in Keys, NEW a \in AssetMaps,
             Contribute(p, k, a)
      PROVE  TypeOK'
  BY <1>1 DEF Contribute, Contribution
<1>2. ASSUME NEW p \in Participants, CompleteParticipant(p) PROVE TypeOK'
  BY <1>2 DEF CompleteParticipant, ResolveBarrierWhenReady
<1>3. ASSUME NEW q \in Postprocessors, CompletePostprocess(q) PROVE TypeOK'
  BY <1>3 DEF CompletePostprocess, ResolveBarrierWhenReady
<1>4. CASE Fail
  BY <1>4 DEF Fail, RejectSession, NotifyFailure, RejectBarrier
<1>5. CASE Abort
  BY <1>5 DEF Abort, RejectSession, NotifyFailure, RejectBarrier
<1>6. CASE Seal
  BY <1>6, PublicationType DEF Seal
<1>7. CASE Publish
  BY <1>7 DEF Publish
<1>8. CASE BarrierRejects
  BY <1>8 DEF BarrierRejects, PublisherFails, NotifyFailure
<1>9. CASE BarrierPasses
  BY <1>9, PublicationType DEF BarrierPasses
<1>10. CASE PrepareResolves
  BY <1>10 DEF PrepareResolves
<1>11. CASE UploadResolves
  BY <1>11 DEF UploadResolves
<1>12. CASE FinishResolves
  BY <1>12 DEF FinishResolves
<1>13. CASE CallbackRejects
  BY <1>13 DEF CallbackRejects, PublisherFails, NotifyFailure
<1>14. CASE UNCHANGED vars
  BY <1>14 DEF vars
<1> QED
  BY <1>1, <1>2, <1>3, <1>4, <1>5, <1>6, <1>7, <1>8, <1>9, <1>10, <1>11, <1>12,
     <1>13, <1>14 DEF Next, Adapter, RunPublish

(* Lemma: every step keeps the publisher, its status and its uploads in    *)
(* agreement.                                                              *)
LEMMA PublisherStep ==
  TypeOK /\ PublisherInv /\ ErrorInv /\ SealInv /\ [Next]_vars => PublisherInv'
<1> SUFFICES ASSUME TypeOK, PublisherInv, ErrorInv, SealInv, [Next]_vars
             PROVE  PublisherInv'
  OBVIOUS
<1> USE DEF PublisherInv, Terminal
<1>1. ASSUME NEW p \in Participants, NEW k \in Keys, NEW a \in AssetMaps,
             Contribute(p, k, a)
      PROVE  PublisherInv'
  BY <1>1 DEF Contribute
<1>2. ASSUME NEW p \in Participants, CompleteParticipant(p) PROVE PublisherInv'
  BY <1>2 DEF CompleteParticipant
<1>3. ASSUME NEW q \in Postprocessors, CompletePostprocess(q) PROVE PublisherInv'
  BY <1>3 DEF CompletePostprocess
<1>4. CASE Fail
  BY <1>4 DEF Fail, RejectSession, MayEnd, IsTerminal, TypeOK
<1>5. CASE Abort
  BY <1>5 DEF Abort, RejectSession, MayEnd, IsTerminal, TypeOK
<1>6. CASE Seal
  BY <1>6 DEF Seal, CanSeal, AssertCollecting
<1>7. CASE Publish
  BY <1>7 DEF Publish, TypeOK
<1>8. CASE BarrierRejects
  BY <1>8 DEF BarrierRejects, PublisherFails, TypeOK
<1>9. CASE BarrierPasses
  BY <1>9 DEF BarrierPasses, TypeOK
<1>10. CASE PrepareResolves
  <2>1. uploads = <<>>
    BY <1>10 DEF PrepareResolves
  <2>2. PICK publication \in sealedPublication : uploads' = Append(uploads, publication)
    BY <1>10 DEF PrepareResolves
  <2>3. uploads' = <<publication>>
    BY <2>1, <2>2
  <2>4. uploads' # <<>> /\ Len(uploads') <= 1
    BY <2>3
  <2> QED
    BY <1>10, <2>4 DEF PrepareResolves, TypeOK
<1>11. CASE UploadResolves
  BY <1>11 DEF UploadResolves, TypeOK
<1>12. CASE FinishResolves
  BY <1>12 DEF FinishResolves, TypeOK
<1>13. CASE CallbackRejects
  BY <1>13 DEF CallbackRejects, PublisherFails, TypeOK
<1>14. CASE UNCHANGED vars
  BY <1>14 DEF vars
<1> QED
  BY <1>1, <1>2, <1>3, <1>4, <1>5, <1>6, <1>7, <1>8, <1>9, <1>10, <1>11, <1>12,
     <1>13, <1>14 DEF Next, Adapter, RunPublish

(* Lemma: every step keeps the accounting of the failure. *)
LEMMA ErrorStep ==
  TypeOK /\ PublisherInv /\ ErrorInv /\ SealInv /\ [Next]_vars => ErrorInv'
<1> SUFFICES ASSUME TypeOK, PublisherInv, ErrorInv, SealInv, [Next]_vars
             PROVE  ErrorInv'
  OBVIOUS
<1> USE DEF ErrorInv
<1>1. ASSUME NEW p \in Participants, NEW k \in Keys, NEW a \in AssetMaps,
             Contribute(p, k, a)
      PROVE  ErrorInv'
  BY <1>1 DEF Contribute
<1>2. ASSUME NEW p \in Participants, CompleteParticipant(p) PROVE ErrorInv'
  BY <1>2 DEF CompleteParticipant
<1>3. ASSUME NEW q \in Postprocessors, CompletePostprocess(q) PROVE ErrorInv'
  BY <1>3 DEF CompletePostprocess
<1>4. ASSUME NEW status \in {"failed", "aborted"}, NEW rollbackFails \in BOOLEAN,
             RejectSession(status, rollbackFails)
      PROVE  ErrorInv'
  BY <1>4, EndingKeepsErrorInv DEF RejectSession
<1>5. ASSUME NEW cause \in {"collision", "callback"}, NEW rollbackFails \in BOOLEAN,
             PublisherFails(cause, rollbackFails)
      PROVE  ErrorInv'
  <2> DEFINE error == IF terminalError = "none" THEN cause ELSE terminalError
  <2>1. error \in {"failed", "aborted", "collision", "callback", "rollback"}
    BY DEF TypeOK
  <2>2. state' \in {"failed", "aborted"} /\ NotifyFailure(error, rollbackFails)
    BY <1>5 DEF PublisherFails
  <2> QED
    BY <2>1, <2>2, EndingKeepsErrorInv
<1>6. CASE Fail \/ Abort
  BY <1>4, <1>6 DEF Fail, Abort
<1>7. CASE BarrierRejects \/ CallbackRejects
  BY <1>5, <1>7 DEF BarrierRejects, CallbackRejects
<1>8. CASE Seal
  BY <1>8 DEF Seal, CanSeal, AssertCollecting
<1>9. CASE Publish
  BY <1>9 DEF Publish
<1>10. CASE BarrierPasses
  BY <1>10 DEF BarrierPasses
<1>11. CASE PrepareResolves
  BY <1>11 DEF PrepareResolves
<1>12. CASE UploadResolves
  BY <1>12 DEF UploadResolves
<1>13. CASE FinishResolves
  BY <1>13 DEF FinishResolves, PublisherInv
<1>14. CASE UNCHANGED vars
  BY <1>14 DEF vars
<1> QED
  BY <1>1, <1>2, <1>3, <1>6, <1>7, <1>8, <1>9, <1>10, <1>11, <1>12,
     <1>13, <1>14 DEF Next, Adapter, RunPublish

(* Lemma: every step keeps what was frozen equal to what was accepted. *)
LEMMA SealStep ==
  TypeOK /\ PublisherInv /\ ErrorInv /\ SealInv /\ [Next]_vars => SealInv'
<1> SUFFICES ASSUME TypeOK, PublisherInv, ErrorInv, SealInv, [Next]_vars
             PROVE  SealInv'
  OBVIOUS
<1> USE DEF SealInv
<1>1. ASSUME NEW p \in Participants, NEW k \in Keys, NEW a \in AssetMaps,
             Contribute(p, k, a)
      PROVE  SealInv'
  BY <1>1 DEF Contribute, AcceptsFrom, AssertCollecting
<1>2. ASSUME NEW p \in Participants, CompleteParticipant(p) PROVE SealInv'
  BY <1>2 DEF CompleteParticipant, AssertCollecting
<1>3. ASSUME NEW q \in Postprocessors, CompletePostprocess(q) PROVE SealInv'
  BY <1>3 DEF CompletePostprocess, AssertCollecting
<1>4. CASE Fail
  BY <1>4 DEF Fail, RejectSession
<1>5. CASE Abort
  BY <1>5 DEF Abort, RejectSession
<1>6. CASE Seal
  BY <1>6 DEF Seal, CanSeal
<1>7. CASE Publish
  BY <1>7 DEF Publish
<1>8. CASE BarrierRejects
  BY <1>8 DEF BarrierRejects, PublisherFails
<1>9. CASE BarrierPasses
  BY <1>9 DEF BarrierPasses, CanSeal, PublisherInv
<1>10. CASE PrepareResolves
  <2>1. uploads = <<>>
    BY <1>10 DEF PrepareResolves, PublisherInv
  <2>2. PICK publication \in sealedPublication : uploads' = Append(uploads, publication)
    BY <1>10 DEF PrepareResolves
  <2>3. uploads' = <<publication>>
    BY <2>1, <2>2
  <2>4. \A i \in DOMAIN uploads' : uploads'[i] \in sealedPublication
    BY <2>3
  <2> QED
    BY <1>10, <2>4 DEF PrepareResolves
<1>11. CASE UploadResolves
  BY <1>11 DEF UploadResolves
<1>12. CASE FinishResolves
  BY <1>12 DEF FinishResolves, PublisherInv
<1>13. CASE CallbackRejects
  BY <1>13 DEF CallbackRejects, PublisherFails
<1>14. CASE UNCHANGED vars
  BY <1>14 DEF vars
<1> QED
  BY <1>1, <1>2, <1>3, <1>4, <1>5, <1>6, <1>7, <1>8, <1>9, <1>10, <1>11, <1>12,
     <1>13, <1>14 DEF Next, Adapter, RunPublish

(* Lemma: no step leaves the barrier pending behind complete participants. *)
LEMMA BarrierStep ==
  TypeOK /\ NoLostWakeup /\ [Next]_vars => NoLostWakeup'
<1> SUFFICES ASSUME TypeOK, NoLostWakeup, [Next]_vars PROVE NoLostWakeup'
  OBVIOUS
<1> USE DEF NoLostWakeup
<1>1. ASSUME NEW p \in Participants, NEW k \in Keys, NEW a \in AssetMaps,
             Contribute(p, k, a)
      PROVE  NoLostWakeup'
  BY <1>1 DEF Contribute
<1>2. ASSUME NEW p \in Participants, CompleteParticipant(p) PROVE NoLostWakeup'
  BY <1>2 DEF CompleteParticipant, ResolveBarrierWhenReady, AssertCollecting
<1>3. ASSUME NEW q \in Postprocessors, CompletePostprocess(q) PROVE NoLostWakeup'
  BY <1>3 DEF CompletePostprocess, ResolveBarrierWhenReady, AssertCollecting
<1>4. CASE Fail \/ Abort
  BY <1>4 DEF Fail, Abort, RejectSession, RejectBarrier
<1>5. CASE Seal \/ Publish
  BY <1>5 DEF Seal, Publish
<1>6. CASE RunPublish
  BY <1>6 DEF RunPublish, BarrierRejects, BarrierPasses, PrepareResolves,
              UploadResolves, FinishResolves, CallbackRejects
<1>7. CASE UNCHANGED vars
  BY <1>7 DEF vars
<1> QED
  BY <1>1, <1>2, <1>3, <1>4, <1>5, <1>6, <1>7 DEF Next, Adapter

(* Lemma: the invariant is inductive. *)
LEMMA InvStep == Inv /\ [Next]_vars => Inv'
BY TypeStep, PublisherStep, ErrorStep, SealStep, BarrierStep DEF Inv

(* Theorem: the types, and the invariant the other theorems rest on, hold  *)
(* in every reachable state of the session.                                *)
THEOREM Invariance == Spec => []Inv
<1>1. Init => Inv
  BY InitInv
<1>2. Inv /\ [Next]_vars => Inv'
  BY InvStep
<1> QED
  BY <1>1, <1>2, PTL DEF Spec

(* Theorem: every variable of the session keeps its type. *)
THEOREM TypeCorrect == Spec => []TypeOK
<1>1. Inv => TypeOK
  BY DEF Inv
<1> QED
  BY <1>1, Invariance, PTL

(* Theorem: what is uploaded holds every contribution the session accepted, *)
(* behind the completion barrier (createPublication and seal).              *)
THEOREM WholeUploads == Spec => []UploadIsWhole
<1>1. Inv => UploadIsWhole
  BY DEF Inv, SealInv, UploadIsWhole
<1> QED
  BY <1>1, Invariance, PTL

(* Theorem: no upload serves two contents under one path, nor one content   *)
(* under two paths, whatever the adapters contributed.                      *)
THEOREM ConsistentUploads == Spec => []UploadIsConsistent
<1>1. Inv => UploadIsConsistent
  <2> SUFFICES ASSUME Inv, NEW i \in DOMAIN uploads,
                      NEW a \in uploads[i].assets, NEW b \in uploads[i].assets
               PROVE  (a.path = b.path) <=> (a.hash = b.hash)
    BY DEF UploadIsConsistent
  <2>1. uploads[i] = Publication(contributions) /\ ~ Collision(contributions)
    BY DEF Inv, SealInv
  <2>2. /\ a \in MergedAssets(contributions)
        /\ b \in MergedAssets(contributions)
    BY <2>1 DEF Publication
  <2>3. ~ Conflict(a, b)
    BY <2>1, <2>2 DEF Collision
  <2> QED
    BY <2>3 DEF Conflict
<1> QED
  BY <1>1, Invariance, PTL

(* Theorem: callbacks.publish runs at most once in the life of a session.   *)
THEOREM OnePublication == Spec => []PublishesOnce
<1>1. Inv => PublishesOnce
  BY DEF Inv, TypeOK, PublisherInv, PublishesOnce
<1> QED
  BY <1>1, Invariance, PTL

(* Theorem: onFailure runs exactly once for a session that failed or was    *)
(* aborted, and not at all for one that is alive or published.              *)
THEOREM OneRollback == Spec => []RollbackOncePerFailure
<1>1. Inv => RollbackOncePerFailure
  BY DEF Inv, ErrorInv, RollbackOncePerFailure
<1> QED
  BY <1>1, Invariance, PTL

(* Theorem: the promise publish() returned agrees with the status.          *)
THEOREM TruthfulAnswer == Spec => []AnswerMatchesState
<1>1. Inv => AnswerMatchesState
  BY DEF Inv, PublisherInv, AnswerMatchesState
<1> QED
  BY <1>1, Invariance, PTL

(* Theorem: publish() is never left behind a barrier that nobody resolves.  *)
THEOREM NoForgottenBarrier == Spec => []NoLostWakeup
<1>1. Inv => NoLostWakeup
  BY DEF Inv
<1> QED
  BY <1>1, Invariance, PTL

(* Lemma: a step of the session is a step of the promise, or a stutter.     *)
LEMMA PromiseStep ==
  Inv /\ Inv' /\ [Next]_vars => [Promise!AbsNext]_(Promise!absVars)
<1> SUFFICES ASSUME Inv, Inv', [Next]_vars
             PROVE  Promise!AbsNext \/ UNCHANGED Promise!absVars
  OBVIOUS
<1> USE DEF Promise!AbsNext, Promise!absVars
<1>1. ASSUME UNCHANGED <<state, failures, uploads>>
      PROVE  UNCHANGED Promise!absVars
  BY <1>1
<1>2. ASSUME NEW error, NEW rollbackFails, NotifyFailure(error, rollbackFails),
             state \notin {"failed", "aborted", "published"},
             state' \in {"failed", "aborted"}, UNCHANGED uploads
      PROVE  Promise!Lose
  BY <1>2 DEF Promise!Lose, NotifyFailure, Inv, ErrorInv, TypeOK, Terminal
<1>3. ASSUME NEW status \in {"failed", "aborted"}, NEW rollbackFails \in BOOLEAN,
             RejectSession(status, rollbackFails)
      PROVE  Promise!Lose
  BY <1>2, <1>3 DEF RejectSession, MayEnd, IsTerminal, Terminal
<1>4. ASSUME NEW cause \in {"collision", "callback"}, NEW rollbackFails \in BOOLEAN,
             PublisherFails(cause, rollbackFails), UNCHANGED uploads,
             publisher \notin {"resolved", "rejected"}
      PROVE  Promise!Lose \/ UNCHANGED Promise!absVars
  <2>1. CASE state \in {"failed", "aborted"}
    <3>1. UNCHANGED <<failures, uploads>> /\ state' \in {"failed", "aborted"}
      BY <1>4, <2>1 DEF PublisherFails, NotifyFailure, Inv, ErrorInv
    <3> QED
      BY <2>1, <3>1
  <2>2. CASE state \notin {"failed", "aborted"}
    <3>1. state # "published" /\ state' \in {"failed", "aborted"}
      BY <1>4, <2>2 DEF PublisherFails, Inv, PublisherInv
    <3> QED
      BY <1>2, <1>4, <2>2, <3>1 DEF PublisherFails
  <2> QED
    BY <2>1, <2>2
<1>5. CASE Fail \/ Abort
  BY <1>3, <1>5 DEF Fail, Abort
<1>6. CASE BarrierRejects \/ CallbackRejects
  BY <1>4, <1>6 DEF BarrierRejects, CallbackRejects
<1>7. CASE Seal
  BY <1>7 DEF Seal, CanSeal, AssertCollecting
<1>8. CASE BarrierPasses
  <2>1. state \in {"collecting", "sealed"} /\ uploads = <<>>
    BY <1>8 DEF BarrierPasses, Inv, TypeOK, ErrorInv, PublisherInv, Terminal
  <2>2. Promise!Close
    BY <1>8, <2>1 DEF BarrierPasses, Promise!Close
  <2> QED
    BY <2>2
<1>9. CASE PrepareResolves
  <2>1. uploads = <<>> /\ state = "publishing" /\ state' = "publishing"
    BY <1>9 DEF PrepareResolves, Inv, PublisherInv
  <2>2. PICK publication \in sealedPublication : uploads' = Append(uploads, publication)
    BY <1>9 DEF PrepareResolves
  <2>3. publication \in Publications
    BY DEF Inv, TypeOK
  <2>4. uploads' = <<publication>>
    BY <2>1, <2>2
  <2>5. /\ {uploads[i] : i \in DOMAIN uploads} = {}
        /\ {uploads'[i] : i \in DOMAIN uploads'} = {publication}
    BY <2>1, <2>4
  <2>6. Promise!Upload
    BY <1>9, <2>1, <2>3, <2>5 DEF PrepareResolves, Promise!Upload
  <2> QED
    BY <2>6
<1>10. CASE FinishResolves
  <2>1. state = "publishing" /\ state' = "published" /\ UNCHANGED <<failures, uploads>>
    BY <1>10 DEF FinishResolves, Inv, PublisherInv
  <2>2. Len(uploads) # 0 /\ uploads \in Seq(Publications)
    BY <1>10 DEF FinishResolves, Inv, PublisherInv, TypeOK
  <2>3. uploads[1] \in {uploads[i] : i \in DOMAIN uploads}
    BY <2>2
  <2>4. Promise!Commit
    BY <2>1, <2>3 DEF Promise!Commit
  <2> QED
    BY <2>4
<1>11. ASSUME NEW p \in Participants, NEW k \in Keys, NEW a \in AssetMaps,
              Contribute(p, k, a)
       PROVE  UNCHANGED Promise!absVars
  BY <1>1, <1>11 DEF Contribute
<1>12. ASSUME NEW p \in Participants, CompleteParticipant(p)
       PROVE  UNCHANGED Promise!absVars
  BY <1>1, <1>12 DEF CompleteParticipant
<1>13. ASSUME NEW q \in Postprocessors, CompletePostprocess(q)
       PROVE  UNCHANGED Promise!absVars
  BY <1>1, <1>13 DEF CompletePostprocess
<1>14. CASE Publish \/ UploadResolves \/ UNCHANGED vars
  BY <1>1, <1>14 DEF Publish, UploadResolves, vars
<1> QED
  BY <1>5, <1>6, <1>7, <1>8, <1>9, <1>10, <1>11, <1>12, <1>13, <1>14
     DEF Next, Adapter, RunPublish

(* Theorem: the session implements the promise its application context      *)
(* relies on: one upload at most, and a rollback for every lost build.      *)
THEOREM Refinement == Spec => KeepsItsPromise
<1>1. Init => Promise!AbsInit
  BY DEF Init, Promise!AbsInit
<1>2. Inv /\ Inv' /\ [Next]_vars => [Promise!AbsNext]_(Promise!absVars)
  BY PromiseStep
<1> QED
  BY <1>1, <1>2, Invariance, PTL DEF Spec, KeepsItsPromise, Promise!AbsSpec

(* Theorem: no step replaces the error of a failed rollback, so a context   *)
(* that reads it later still refuses to replace the build.                  *)
THEOREM StickyRollback == Spec => RollbackErrorIsSticky
<1>1. Inv /\ [Next]_vars =>
        [terminalError = "rollback" => terminalError' = "rollback"]_vars
  <2> SUFFICES ASSUME Inv, Next, terminalError = "rollback"
               PROVE  terminalError' = "rollback"
    BY DEF vars
  <2>1. failureNotified
    BY DEF Inv, ErrorInv
  <2>2. ASSUME NEW cause, NEW rollbackFails, PublisherFails(cause, rollbackFails)
        PROVE  terminalError' = "rollback"
    BY <2>1, <2>2 DEF PublisherFails, NotifyFailure
  <2>3. CASE BarrierRejects \/ CallbackRejects
    BY <2>2, <2>3 DEF BarrierRejects, CallbackRejects
  <2>4. CASE Fail \/ Abort
    BY <2>4 DEF Fail, Abort, RejectSession, MayEnd
  <2>5. CASE Adapter /\ ~ Fail /\ ~ Abort
    BY <2>5 DEF Adapter, Contribute, CompleteParticipant, CompletePostprocess,
                Seal, Publish
  <2>6. CASE RunPublish /\ ~ BarrierRejects /\ ~ CallbackRejects
    BY <2>6 DEF RunPublish, BarrierPasses, PrepareResolves, UploadResolves,
                FinishResolves
  <2> QED
    BY <2>3, <2>4, <2>5, <2>6 DEF Next
<1> QED
  BY <1>1, Invariance, PTL DEF Spec, RollbackErrorIsSticky

-----------------------------------------------------------------------------
(* The engine.  A hook runs while it is neither idle nor done. *)
Running(b) == pc[b] \notin {"idle", "done"}

(* The stats of a build follow both of its uploads. *)
StatsInv ==
  \A b \in Builds : stats[b] # NoStats =>
    /\ pc[b] \in {"counting", "storing", "failing", "done"}
    /\ snapshot[b] = "ok" /\ assets[b] = "ok"

(* Hooks that run one after the other: the one that runs has read what the *)
(* engine still holds, and no finished build holds the engine's identity.  *)
TurnInv ==
  ~ parallel =>
    /\ \A b, c \in Builds : Running(b) /\ Running(c) => b = c
    /\ \A b \in Builds : pc[b] = "listing" => own[b] = hashList
    /\ \A b \in Builds : pc[b] = "naming" => own[b] = buildId
    /\ \A b \in Builds : buildId # 0 /\ snapshotOf[b] = buildId => Running(b)

(* The identity and the hash list are requested and discarded together. *)
EngineInv ==
  /\ EngineTypeOK
  /\ buildId = hashList
  /\ StatsInv
  /\ TurnInv
  /\ HashListIsCurrent
  /\ OneIdentityPerBuild

(* Lemma: an engine that create() returned is in a state of the invariant. *)
LEMMA EngineInitInv == EngineInit => EngineInv
<1> SUFFICES ASSUME EngineInit PROVE EngineInv
  OBVIOUS
<1> USE DEF EngineInit
<1>1. EngineTypeOK
  <2>1. {buildId, hashList, resolvedHashList} \subseteq 0 .. allocated
    OBVIOUS
  <2>2. /\ {versionUrl, workerVersion} \subseteq Builds \union {0}
        /\ buildStartTime \in BOOLEAN
    OBVIOUS
  <2>3. granted \union refused \union listed \union unlisted \subseteq 1 .. allocated
    OBVIOUS
  <2>4. own \in [Builds -> 0 .. allocated] /\ snapshotOf \in [Builds -> 0 .. allocated]
    OBVIOUS
  <2>5. stats \in [Builds -> Builds \union {0, NoStats}]
    OBVIOUS
  <2> QED
    BY <2>1, <2>2, <2>3, <2>4, <2>5 DEF EngineTypeOK
<1>2. StatsInv /\ TurnInv
  BY DEF StatsInv, TurnInv, Running
<1>3. buildId = hashList /\ HashListIsCurrent /\ OneIdentityPerBuild
  BY DEF HashListIsCurrent, OneIdentityPerBuild
<1> QED
  BY <1>1, <1>2, <1>3 DEF EngineInv

(* Lemma: ending a build, in any of the ways the code does, keeps the types. *)
LEMMA EndingKeepsEngineTypes ==
  ASSUME EngineTypeOK, NEW b \in Builds,
         Reset \/ UNCHANGED engine,
         GoTo(b, "failing") \/ GoTo(b, "done"),
         UNCHANGED <<setting, allocated, answers, own, sent>>
  PROVE  EngineTypeOK'
<1>1. {buildId, hashList, resolvedHashList}' \subseteq 0 .. allocated'
  BY DEF EngineTypeOK, Reset, engine
<1>2. /\ {versionUrl, workerVersion}' \subseteq Builds \union {0}
      /\ buildStartTime' \in BOOLEAN
  BY DEF EngineTypeOK, Reset, engine
<1>3. pc' \in [Builds -> {"idle", "joining", "joined", "starting", "started",
                         "identified", "listing", "naming", "sending", "counting",
                         "storing", "failing", "done"}]
  BY DEF EngineTypeOK, GoTo
<1> QED
  BY <1>1, <1>2, <1>3 DEF EngineTypeOK, setting, answers, sent

(* Lemma: every step of the engine keeps the types. *)
LEMMA EngineTypeStep == EngineTypeOK /\ [EngineNext]_engineVars => EngineTypeOK'
<1> SUFFICES ASSUME EngineTypeOK, [EngineNext]_engineVars PROVE EngineTypeOK'
  OBVIOUS
<1> USE EngineAssumption DEF EngineTypeOK, engine, setting, answers, sent
<1>1. ASSUME NEW b \in Builds, StartNewBuild(b) PROVE EngineTypeOK'
  BY <1>1 DEF StartNewBuild, Allocate, GoTo, MayRun
<1>2. ASSUME NEW b \in Builds, Joins(b) PROVE EngineTypeOK'
  BY <1>2 DEF Joins, Allocate, GoTo
<1>3. ASSUME NEW b \in Builds, Started(b) PROVE EngineTypeOK'
  BY <1>3 DEF Started, GoTo
<1>4. ASSUME NEW b \in Builds, StartFails(b) PROVE EngineTypeOK'
  BY <1>4, EndingKeepsEngineTypes DEF StartFails
<1>5. ASSUME NEW b \in Builds, BeginUpload(b) PROVE EngineTypeOK'
  BY <1>5 DEF BeginUpload, GoTo
<1>6. ASSUME NEW b \in Builds, ChooseHashList(b) PROVE EngineTypeOK'
  BY <1>6 DEF ChooseHashList, GoTo
<1>7. ASSUME NEW b \in Builds, HashListAwaited(b) PROVE EngineTypeOK'
  BY <1>7 DEF HashListAwaited, GoTo
<1>8. ASSUME NEW b \in Builds, CreateSnapshot(b) PROVE EngineTypeOK'
  BY <1>8 DEF CreateSnapshot, GoTo
<1>9. ASSUME NEW b \in Builds, AssetsAnswer(b) PROVE EngineTypeOK'
  BY <1>9 DEF AssetsAnswer
<1>10. ASSUME NEW b \in Builds, SnapshotAnswers(b) PROVE EngineTypeOK'
  BY <1>10 DEF SnapshotAnswers
<1>11. ASSUME NEW b \in Builds, SendStats(b) PROVE EngineTypeOK'
  BY <1>11 DEF SendStats, GoTo
<1>12. ASSUME NEW b \in Builds, StoreVersion(b) PROVE EngineTypeOK'
  BY <1>12 DEF StoreVersion, GoTo
<1>13. ASSUME NEW b \in Builds, UploadFails(b) PROVE EngineTypeOK'
  BY <1>13, EndingKeepsEngineTypes DEF UploadFails
<1>14. ASSUME NEW b \in Builds, CleanUp(b) PROVE EngineTypeOK'
  BY <1>14, EndingKeepsEngineTypes DEF CleanUp
<1>15. ASSUME NEW b \in Builds, BuildFinished(b) PROVE EngineTypeOK'
  BY <1>15, EndingKeepsEngineTypes DEF BuildFinished
<1>16. ASSUME NEW b \in Builds, BundlerFails(b) PROVE EngineTypeOK'
  BY <1>16, EndingKeepsEngineTypes DEF BundlerFails
<1>17. ASSUME NEW n \in 1 .. allocated, HashListArrives(n) PROVE EngineTypeOK'
  BY <1>17 DEF HashListArrives
<1>18. ASSUME NEW n \in 1 .. allocated, PlatformAnswers(n) PROVE EngineTypeOK'
  BY <1>18 DEF PlatformAnswers
<1>19. CASE UNCHANGED engineVars
  BY <1>19 DEF engineVars
<1> QED
  BY <1>1, <1>2, <1>3, <1>4, <1>5, <1>6, <1>7, <1>8, <1>9, <1>10, <1>11,
     <1>12, <1>13, <1>14, <1>15, <1>16, <1>17, <1>18, <1>19
     DEF EngineNext, Hook, Platform

(* Lemma: stats stay behind both uploads of their build. *)
LEMMA StatsStep == EngineTypeOK /\ StatsInv /\ [EngineNext]_engineVars => StatsInv'
<1> SUFFICES ASSUME EngineTypeOK, StatsInv, [EngineNext]_engineVars PROVE StatsInv'
  OBVIOUS
<1> USE DEF EngineTypeOK, StatsInv, engine, setting, answers, sent
<1>1. ASSUME NEW b \in Builds, StartNewBuild(b) PROVE StatsInv'
  BY <1>1 DEF StartNewBuild, Allocate, GoTo, MayRun
<1>2. ASSUME NEW b \in Builds, Joins(b) PROVE StatsInv'
  BY <1>2 DEF Joins, Allocate, GoTo
<1>3. ASSUME NEW b \in Builds, Started(b) PROVE StatsInv'
  BY <1>3 DEF Started, GoTo
<1>4. ASSUME NEW b \in Builds, StartFails(b) PROVE StatsInv'
  BY <1>4 DEF StartFails, GoTo, Reset
<1>5. ASSUME NEW b \in Builds, BeginUpload(b) PROVE StatsInv'
  BY <1>5 DEF BeginUpload, GoTo
<1>6. ASSUME NEW b \in Builds, ChooseHashList(b) PROVE StatsInv'
  BY <1>6 DEF ChooseHashList, GoTo
<1>7. ASSUME NEW b \in Builds, HashListAwaited(b) PROVE StatsInv'
  BY <1>7 DEF HashListAwaited, GoTo
<1>8. ASSUME NEW b \in Builds, CreateSnapshot(b) PROVE StatsInv'
  BY <1>8 DEF CreateSnapshot, GoTo
<1>9. ASSUME NEW b \in Builds, AssetsAnswer(b) PROVE StatsInv'
  BY <1>9 DEF AssetsAnswer
<1>10. ASSUME NEW b \in Builds, SnapshotAnswers(b) PROVE StatsInv'
  BY <1>10 DEF SnapshotAnswers
<1>11. ASSUME NEW b \in Builds, SendStats(b) PROVE StatsInv'
  BY <1>11 DEF SendStats, GoTo
<1>12. ASSUME NEW b \in Builds, StoreVersion(b) PROVE StatsInv'
  BY <1>12 DEF StoreVersion, GoTo
<1>13. ASSUME NEW b \in Builds, UploadFails(b) PROVE StatsInv'
  BY <1>13 DEF UploadFails, GoTo, Reset
<1>14. ASSUME NEW b \in Builds, CleanUp(b) PROVE StatsInv'
  BY <1>14 DEF CleanUp, GoTo, Reset
<1>15. ASSUME NEW b \in Builds, BuildFinished(b) PROVE StatsInv'
  BY <1>15 DEF BuildFinished, GoTo, Reset
<1>16. ASSUME NEW b \in Builds, BundlerFails(b) PROVE StatsInv'
  BY <1>16 DEF BundlerFails, GoTo, Reset, MayRun
<1>17. ASSUME NEW n \in 1 .. allocated, HashListArrives(n) PROVE StatsInv'
  BY <1>17 DEF HashListArrives
<1>18. ASSUME NEW n \in 1 .. allocated, PlatformAnswers(n) PROVE StatsInv'
  BY <1>18 DEF PlatformAnswers
<1>19. CASE UNCHANGED engineVars
  BY <1>19 DEF engineVars
<1> QED
  BY <1>1, <1>2, <1>3, <1>4, <1>5, <1>6, <1>7, <1>8, <1>9, <1>10, <1>11,
     <1>12, <1>13, <1>14, <1>15, <1>16, <1>17, <1>18, <1>19
     DEF EngineNext, Hook, Platform

(* Lemma: hooks that run one after the other stay in turn: the end of each *)
(* gives up the identity before the next begins.                           *)
LEMMA TurnStep == EngineInv /\ [EngineNext]_engineVars => TurnInv'
<1> SUFFICES ASSUME EngineInv, [EngineNext]_engineVars PROVE TurnInv'
  OBVIOUS
<1> USE DEF EngineInv, EngineTypeOK, TurnInv, Running, engine, setting, answers, sent
<1>1. ASSUME NEW b \in Builds, StartNewBuild(b) PROVE TurnInv'
  BY <1>1 DEF StartNewBuild, MayRun, Allocate, GoTo
<1>2. ASSUME NEW b \in Builds, Joins(b) PROVE TurnInv'
  BY <1>2 DEF Joins, Allocate, GoTo
<1>3. ASSUME NEW b \in Builds, Started(b) PROVE TurnInv'
  BY <1>3 DEF Started, GoTo
<1>4. ASSUME NEW b \in Builds, StartFails(b) PROVE TurnInv'
  BY <1>4 DEF StartFails, GoTo, Reset
<1>5. ASSUME NEW b \in Builds, BeginUpload(b) PROVE TurnInv'
  BY <1>5 DEF BeginUpload, GoTo
<1>6. ASSUME NEW b \in Builds, ChooseHashList(b) PROVE TurnInv'
  BY <1>6 DEF ChooseHashList, GoTo
<1>7. ASSUME NEW b \in Builds, HashListAwaited(b) PROVE TurnInv'
  BY <1>7 DEF HashListAwaited, GoTo
<1>8. ASSUME NEW b \in Builds, CreateSnapshot(b) PROVE TurnInv'
  BY <1>8 DEF CreateSnapshot, GoTo
<1>9. ASSUME NEW b \in Builds, AssetsAnswer(b) PROVE TurnInv'
  BY <1>9 DEF AssetsAnswer
<1>10. ASSUME NEW b \in Builds, SnapshotAnswers(b) PROVE TurnInv'
  BY <1>10 DEF SnapshotAnswers
<1>11. ASSUME NEW b \in Builds, SendStats(b) PROVE TurnInv'
  BY <1>11 DEF SendStats, GoTo
<1>12. ASSUME NEW b \in Builds, StoreVersion(b) PROVE TurnInv'
  BY <1>12 DEF StoreVersion, GoTo
<1>13. ASSUME NEW b \in Builds, UploadFails(b) PROVE TurnInv'
  BY <1>13 DEF UploadFails, GoTo, Reset, UploadBroke
<1>14. ASSUME NEW b \in Builds, CleanUp(b) PROVE TurnInv'
  BY <1>14 DEF CleanUp, GoTo, Reset, HasActiveBuild
<1>15. ASSUME NEW b \in Builds, BuildFinished(b) PROVE TurnInv'
  BY <1>15 DEF BuildFinished, GoTo, Reset
<1>16. ASSUME NEW b \in Builds, BundlerFails(b) PROVE TurnInv'
  BY <1>16 DEF BundlerFails, MayRun, GoTo, Reset, HasActiveBuild
<1>17. ASSUME NEW n \in 1 .. allocated, HashListArrives(n) PROVE TurnInv'
  BY <1>17 DEF HashListArrives
<1>18. ASSUME NEW n \in 1 .. allocated, PlatformAnswers(n) PROVE TurnInv'
  BY <1>18 DEF PlatformAnswers
<1>19. CASE UNCHANGED engineVars
  BY <1>19 DEF engineVars
<1> QED
  BY <1>1, <1>2, <1>3, <1>4, <1>5, <1>6, <1>7, <1>8, <1>9, <1>10, <1>11,
     <1>12, <1>13, <1>14, <1>15, <1>16, <1>17, <1>18, <1>19
     DEF EngineNext, Hook, Platform

(* Lemma: the identity and the hash list stay of one generation, and a     *)
(* list that arrives late is dropped.                                      *)
LEMMA HashListStep ==
  EngineInv /\ [EngineNext]_engineVars => (buildId = hashList /\ HashListIsCurrent)'
<1> SUFFICES ASSUME EngineInv, [EngineNext]_engineVars
             PROVE  (buildId = hashList /\ HashListIsCurrent)'
  OBVIOUS
<1> USE DEF EngineInv, EngineTypeOK, HashListIsCurrent, engine, setting, answers, sent
<1>1. ASSUME NEW b \in Builds, StartNewBuild(b) PROVE (buildId = hashList /\ HashListIsCurrent)'
  BY <1>1 DEF StartNewBuild, MayRun, Allocate, GoTo
<1>2. ASSUME NEW b \in Builds, Joins(b) PROVE (buildId = hashList /\ HashListIsCurrent)'
  BY <1>2 DEF Joins, Allocate, GoTo
<1>3. ASSUME NEW b \in Builds, Started(b) PROVE (buildId = hashList /\ HashListIsCurrent)'
  BY <1>3 DEF Started, GoTo
<1>4. ASSUME NEW b \in Builds, StartFails(b) PROVE (buildId = hashList /\ HashListIsCurrent)'
  BY <1>4 DEF StartFails, GoTo, Reset
<1>5. ASSUME NEW b \in Builds, BeginUpload(b) PROVE (buildId = hashList /\ HashListIsCurrent)'
  BY <1>5 DEF BeginUpload, GoTo
<1>6. ASSUME NEW b \in Builds, ChooseHashList(b) PROVE (buildId = hashList /\ HashListIsCurrent)'
  BY <1>6 DEF ChooseHashList, GoTo
<1>7. ASSUME NEW b \in Builds, HashListAwaited(b) PROVE (buildId = hashList /\ HashListIsCurrent)'
  BY <1>7 DEF HashListAwaited, GoTo, TurnInv
<1>8. ASSUME NEW b \in Builds, CreateSnapshot(b) PROVE (buildId = hashList /\ HashListIsCurrent)'
  BY <1>8 DEF CreateSnapshot, GoTo
<1>9. ASSUME NEW b \in Builds, AssetsAnswer(b) PROVE (buildId = hashList /\ HashListIsCurrent)'
  BY <1>9 DEF AssetsAnswer
<1>10. ASSUME NEW b \in Builds, SnapshotAnswers(b) PROVE (buildId = hashList /\ HashListIsCurrent)'
  BY <1>10 DEF SnapshotAnswers
<1>11. ASSUME NEW b \in Builds, SendStats(b) PROVE (buildId = hashList /\ HashListIsCurrent)'
  BY <1>11 DEF SendStats, GoTo
<1>12. ASSUME NEW b \in Builds, StoreVersion(b) PROVE (buildId = hashList /\ HashListIsCurrent)'
  BY <1>12 DEF StoreVersion, GoTo
<1>13. ASSUME NEW b \in Builds, UploadFails(b) PROVE (buildId = hashList /\ HashListIsCurrent)'
  BY <1>13 DEF UploadFails, GoTo, Reset, UploadBroke
<1>14. ASSUME NEW b \in Builds, CleanUp(b) PROVE (buildId = hashList /\ HashListIsCurrent)'
  BY <1>14 DEF CleanUp, GoTo, Reset, HasActiveBuild
<1>15. ASSUME NEW b \in Builds, BuildFinished(b) PROVE (buildId = hashList /\ HashListIsCurrent)'
  BY <1>15 DEF BuildFinished, GoTo, Reset
<1>16. ASSUME NEW b \in Builds, BundlerFails(b) PROVE (buildId = hashList /\ HashListIsCurrent)'
  BY <1>16 DEF BundlerFails, MayRun, GoTo, Reset, HasActiveBuild
<1>17. ASSUME NEW n \in 1 .. allocated, HashListArrives(n) PROVE (buildId = hashList /\ HashListIsCurrent)'
  BY <1>17 DEF HashListArrives
<1>18. ASSUME NEW n \in 1 .. allocated, PlatformAnswers(n) PROVE (buildId = hashList /\ HashListIsCurrent)'
  BY <1>18 DEF PlatformAnswers
<1>19. CASE UNCHANGED engineVars
  BY <1>19 DEF engineVars
<1> QED
  BY <1>1, <1>2, <1>3, <1>4, <1>5, <1>6, <1>7, <1>8, <1>9, <1>10, <1>11,
     <1>12, <1>13, <1>14, <1>15, <1>16, <1>17, <1>18, <1>19
     DEF EngineNext, Hook, Platform

(* Lemma: only createSnapshot() names a build, and it names the hook that  *)
(* runs after the engine's identity, which no other build has.             *)
LEMMA IdentityStep == EngineInv /\ [EngineNext]_engineVars => OneIdentityPerBuild'
<1> SUFFICES ASSUME EngineInv, [EngineNext]_engineVars PROVE OneIdentityPerBuild'
  OBVIOUS
<1>1. CASE \E b \in Builds : CreateSnapshot(b)
  <2>1. PICK b \in Builds : CreateSnapshot(b)
    BY <1>1
  <2>2. /\ snapshotOf' = [snapshotOf EXCEPT ![b] = own[b]]
        /\ parallel' = parallel
        /\ Running(b)
        /\ ~ parallel => own[b] = buildId
    BY <2>1 DEF CreateSnapshot, EngineInv, TurnInv, Running, setting
  <2>3. ~ parallel /\ own[b] # 0 =>
          \A c \in Builds : c # b => snapshotOf[c] # own[b]
    BY <2>2 DEF EngineInv, TurnInv
  <2> QED
    BY <2>2, <2>3 DEF OneIdentityPerBuild, EngineInv, EngineTypeOK
<1>2. CASE ~ \E b \in Builds : CreateSnapshot(b)
  <2>1. UNCHANGED <<snapshotOf, parallel>>
    BY <1>2 DEF EngineNext, Hook, Platform, StartNewBuild, Joins, Started, StartFails,
       BeginUpload, ChooseHashList, HashListAwaited, AssetsAnswer, SnapshotAnswers,
       SendStats, StoreVersion, UploadFails, CleanUp, BuildFinished, BundlerFails,
       HashListArrives, PlatformAnswers, engineVars, sent, setting
  <2> QED
    BY <2>1 DEF OneIdentityPerBuild, EngineInv
<1> QED
  BY <1>1, <1>2

(* Theorem: the engine never leaves its invariant. *)
THEOREM EngineInvariance == EngineSpec => []EngineInv
<1>1. EngineInv /\ [EngineNext]_engineVars => EngineInv'
  BY EngineTypeStep, StatsStep, TurnStep, HashListStep, IdentityStep DEF EngineInv
<1> QED
  BY <1>1, EngineInitInv, PTL DEF EngineSpec

(* Theorem: every field of the engine, and every promise a hook awaits,    *)
(* keeps its type.                                                         *)
THEOREM EngineTypeCorrect == EngineSpec => []EngineTypeOK
BY EngineInvariance, PTL DEF EngineInv

(* Theorem: builds whose hooks run one after the other never publish under *)
(* the same build id, however start_new_build, upload_assets,              *)
(* build_finished and build_failed end (index.ts:454).                     *)
THEOREM OwnIdentity == EngineSpec => []OneIdentityPerBuild
BY EngineInvariance, PTL DEF EngineInv

(* Theorem: uploadBuildStatsAndEnableEnvs() runs behind the snapshot and   *)
(* all the assets, in both strategies and in whichever order they end.     *)
THEOREM WholeVersion == EngineSpec => []StatsOnlyForWholeVersion
<1>1. EngineInv => StatsOnlyForWholeVersion
  BY DEF EngineInv, StatsInv, StatsOnlyForWholeVersion
<1> QED
  BY <1>1, EngineInvariance, PTL

(* Theorem: resolved_hash_list is the list of the generation being built,  *)
(* however late the list of a discarded one loads (index.ts:468).          *)
THEOREM CurrentHashList == EngineSpec => []HashListIsCurrent
BY EngineInvariance, PTL DEF EngineInv

-----------------------------------------------------------------------------
(* What EveryBuildEnds rests on: a hook that awaits an identity or a hash  *)
(* list awaits one that was requested, and a hook that awaits its uploads  *)
(* has one that was begun and not answered, or knows how both ended. *)
AwaitsAreOwed ==
  \A b \in Builds :
    /\ pc[b] \in {"starting", "joining", "joined", "identified", "listing"} =>
         own[b] \in 1 .. allocated
    /\ pc[b] = "sending" =>
         /\ assets[b] # "idle"
         /\ snapshot[b] = "idle" => strategy = "aws" /\ assets[b] # "ok"

(* Lemma: no step leaves a hook awaiting what nobody was asked for. *)
LEMMA AwaitStep == EngineTypeOK /\ AwaitsAreOwed /\ [EngineNext]_engineVars => AwaitsAreOwed'
<1> SUFFICES ASSUME EngineTypeOK, AwaitsAreOwed, [EngineNext]_engineVars PROVE AwaitsAreOwed'
  OBVIOUS
<1> USE DEF EngineTypeOK, AwaitsAreOwed, engine, setting, answers, sent
<1>1. ASSUME NEW b \in Builds, StartNewBuild(b) PROVE AwaitsAreOwed'
  BY <1>1 DEF StartNewBuild, Allocate, GoTo, MayRun
<1>2. ASSUME NEW b \in Builds, Joins(b) PROVE AwaitsAreOwed'
  BY <1>2 DEF Joins, Allocate, GoTo
<1>3. ASSUME NEW b \in Builds, Started(b) PROVE AwaitsAreOwed'
  BY <1>3 DEF Started, GoTo
<1>4. ASSUME NEW b \in Builds, StartFails(b) PROVE AwaitsAreOwed'
  BY <1>4 DEF StartFails, GoTo, Reset
<1>5. ASSUME NEW b \in Builds, BeginUpload(b) PROVE AwaitsAreOwed'
  BY <1>5 DEF BeginUpload, GoTo
<1>6. ASSUME NEW b \in Builds, ChooseHashList(b) PROVE AwaitsAreOwed'
  BY <1>6 DEF ChooseHashList, GoTo
<1>7. ASSUME NEW b \in Builds, HashListAwaited(b) PROVE AwaitsAreOwed'
  BY <1>7 DEF HashListAwaited, GoTo
<1>8. ASSUME NEW b \in Builds, CreateSnapshot(b) PROVE AwaitsAreOwed'
  BY <1>8 DEF CreateSnapshot, GoTo
<1>9. ASSUME NEW b \in Builds, AssetsAnswer(b) PROVE AwaitsAreOwed'
  BY <1>9 DEF AssetsAnswer
<1>10. ASSUME NEW b \in Builds, SnapshotAnswers(b) PROVE AwaitsAreOwed'
  BY <1>10 DEF SnapshotAnswers
<1>11. ASSUME NEW b \in Builds, SendStats(b) PROVE AwaitsAreOwed'
  BY <1>11 DEF SendStats, GoTo
<1>12. ASSUME NEW b \in Builds, StoreVersion(b) PROVE AwaitsAreOwed'
  BY <1>12 DEF StoreVersion, GoTo
<1>13. ASSUME NEW b \in Builds, UploadFails(b) PROVE AwaitsAreOwed'
  BY <1>13 DEF UploadFails, GoTo, Reset
<1>14. ASSUME NEW b \in Builds, CleanUp(b) PROVE AwaitsAreOwed'
  BY <1>14 DEF CleanUp, GoTo, Reset
<1>15. ASSUME NEW b \in Builds, BuildFinished(b) PROVE AwaitsAreOwed'
  BY <1>15 DEF BuildFinished, GoTo, Reset
<1>16. ASSUME NEW b \in Builds, BundlerFails(b) PROVE AwaitsAreOwed'
  BY <1>16 DEF BundlerFails, GoTo, Reset, MayRun
<1>17. ASSUME NEW n \in 1 .. allocated, HashListArrives(n) PROVE AwaitsAreOwed'
  BY <1>17 DEF HashListArrives
<1>18. ASSUME NEW n \in 1 .. allocated, PlatformAnswers(n) PROVE AwaitsAreOwed'
  BY <1>18 DEF PlatformAnswers
<1>19. CASE UNCHANGED engineVars
  BY <1>19 DEF engineVars
<1> QED
  BY <1>1, <1>2, <1>3, <1>4, <1>5, <1>6, <1>7, <1>8, <1>9, <1>10, <1>11,
     <1>12, <1>13, <1>14, <1>15, <1>16, <1>17, <1>18, <1>19
     DEF EngineNext, Hook, Platform

(* Theorem: however builds overlap and fail, upload_assets() and            *)
(* start_new_build() (zephyr-engine/index.ts) await nothing that the engine *)
(* has not requested, and no upload that was not begun. *)
THEOREM OwedAnswers == EngineSpec => []AwaitsAreOwed
<1>1. EngineInit => AwaitsAreOwed
  BY DEF EngineInit, AwaitsAreOwed
<1>2. EngineInv /\ AwaitsAreOwed /\ [EngineNext]_engineVars => AwaitsAreOwed'
  BY AwaitStep DEF EngineInv
<1> QED
  BY <1>1, <1>2, EngineInvariance, PTL DEF EngineSpec

=============================================================================
