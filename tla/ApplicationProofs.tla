-------------------------- MODULE ApplicationProofs --------------------------
(***************************************************************************)
(* Theorems about the two ways in which the environments of an application *)
(* become one publication: ApplicationContext, for every set of            *)
(* generations; and ViteAdapter, for every set of processes, environments  *)
(* and producers' outputs, and every number of runs.                       *)
(*                                                                         *)
(* The properties of a context rest on Inv, those of the adapter on        *)
(* ViteInv, at the end of the module.                                      *)
(***************************************************************************)
EXTENDS ApplicationContext, ViteAdapter, TLAPS

(* A generation that was not begun has no history, and everything uploaded *)
(* was begun no later than the latest generation.                          *)
HistoryInv ==
  /\ \A g \in Generations : outcome[g] # "unborn" => g <= latestGeneration
  /\ latestGeneration \in Generations => outcome[latestGeneration] # "unborn"
  /\ \A g \in Generations : outcome[g] \in {"unborn", "open"} => upload[g] = {}
  /\ \A i \in 1 .. Len(uploads) :
       /\ upload[uploads[i]] # {}
       /\ uploads[i] <= latestGeneration

Inv == TypeOK /\ OnlyLatestAlive /\ HistoryInv /\ UploadsInOrder

-----------------------------------------------------------------------------
(* Lemma: the context starts in a state of the invariant. *)
LEMMA InitInv == Init => Inv
<1> SUFFICES ASSUME Init PROVE Inv
  OBVIOUS
<1>1. uploads \in Seq(Generations) /\ Len(uploads) = 0
  BY DEF Init
<1>2. TypeOK
  BY <1>1 DEF Init, TypeOK
<1>3. OnlyLatestAlive
  BY DEF Init, OnlyLatestAlive, Alive
<1>4. HistoryInv /\ UploadsInOrder
  BY <1>1 DEF Init, HistoryInv, UploadsInOrder
<1> QED
  BY <1>2, <1>3, <1>4 DEF Inv

(* Lemma: generations are integers, those of the uploads too. *)
LEMMA Numbers ==
  ASSUME TypeOK
  PROVE  /\ latestGeneration \in Int
         /\ \A g \in Generations : g \in Nat
         /\ Len(uploads) \in Nat
         /\ \A i \in 1 .. Len(uploads) : uploads[i] \in Generations
BY GenerationAssumption DEF TypeOK

(* Lemma: a step that begins generation g after it ended the latest one    *)
(* keeps the invariant.                                                    *)
LEMMA BeginStep ==
  ASSUME Inv, NEW g \in Generations, BeginFresh(g) \/ BeginSuperseding(g)
  PROVE  Inv'
<1> USE GenerationAssumption DEF Inv, TypeOK
<1>1. /\ g > latestGeneration /\ latestGeneration' = g
      /\ UNCHANGED <<upload, rollbackFailed, uploads>>
      /\ \A h \in Generations :
           outcome'[h] = IF h = g THEN "open"
                         ELSE IF h = latestGeneration /\ Alive(h) THEN "lost"
                         ELSE outcome[h]
  BY DEF BeginFresh, BeginSuperseding, MayBegin, Superseding, Alive
<1>2. TypeOK'
  <2>1. rollbacks' \in [Generations -> Nat]
    BY DEF BeginFresh, BeginSuperseding, Superseding
  <2>2. outcome' \in [Generations -> {"unborn", "open", "uploading", "published", "lost"}]
    BY DEF BeginFresh, BeginSuperseding, Superseding
  <2> QED
    BY <1>1, <2>1, <2>2
<1>3. OnlyLatestAlive'
  BY <1>1 DEF OnlyLatestAlive, Alive
<1>4. HistoryInv'
  <2>1. outcome[g] = "unborn"
    BY <1>1, Numbers DEF HistoryInv
  <2>2. \A h \in Generations : outcome'[h] # "unborn" => h <= latestGeneration'
    BY <1>1, Numbers DEF HistoryInv
  <2>3. \A h \in Generations : outcome'[h] \in {"unborn", "open"} => upload'[h] = {}
    BY <1>1, <2>1 DEF HistoryInv
  <2>4. ASSUME NEW i \in 1 .. Len(uploads)
        PROVE  upload[uploads[i]] # {} /\ uploads[i] <= g
    <3>1. upload[uploads[i]] # {} /\ uploads[i] <= latestGeneration
      BY DEF HistoryInv
    <3>2. uploads[i] \in Nat /\ g \in Nat /\ latestGeneration \in Int
      BY Numbers
    <3> QED
      BY <1>1, <3>1, <3>2
  <2>5. outcome'[g] = "open"
    BY <1>1
  <2> QED
    BY <1>1, <2>2, <2>3, <2>4, <2>5 DEF HistoryInv
<1>5. UploadsInOrder'
  BY <1>1 DEF UploadsInOrder
<1> QED
  BY <1>2, <1>3, <1>4, <1>5

(* Lemma: a session that ends badly keeps the invariant. *)
LEMMA LoseStep ==
  ASSUME Inv, NEW g \in Generations, Alive(g), Lose(g),
         UNCHANGED <<latestGeneration, uploads>>
  PROVE  Inv'
<1> USE GenerationAssumption DEF Inv, TypeOK
<1>1. TypeOK'
  <2>1. rollbacks' \in [Generations -> Nat]
    BY DEF Lose
  <2>2. outcome' \in [Generations -> {"unborn", "open", "uploading", "published", "lost"}]
    BY DEF Lose
  <2>3. rollbackFailed' \subseteq Generations /\ UNCHANGED upload
    BY DEF Lose
  <2> QED
    BY <2>1, <2>2, <2>3
<1>2. OnlyLatestAlive'
  BY DEF Lose, OnlyLatestAlive, Alive
<1>3. HistoryInv'
  BY DEF Lose, HistoryInv, Alive
<1>4. UploadsInOrder'
  BY DEF UploadsInOrder
<1> QED
  BY <1>1, <1>2, <1>3, <1>4

(* Lemma: handing a publication to the upload keeps the invariant: the     *)
(* generation is the latest and was not uploaded, so it follows all others. *)
LEMMA UploadStep ==
  ASSUME Inv, NEW g \in Generations, SessionUploads(g)
  PROVE  Inv'
<1> USE GenerationAssumption DEF Inv, TypeOK
<1>0. Len(uploads) \in Nat /\ Len(uploads') = Len(uploads) + 1
  BY DEF SessionUploads
<1>1. g = latestGeneration
  BY DEF SessionUploads, OnlyLatestAlive, Alive
<1>2. /\ Len(uploads') = Len(uploads) + 1
      /\ \A i \in 1 .. Len(uploads) : uploads'[i] = uploads[i]
      /\ uploads'[Len(uploads) + 1] = g
      /\ uploads' \in Seq(Generations)
  BY DEF SessionUploads
<1>3. ASSUME NEW i \in 1 .. Len(uploads)
      PROVE  uploads[i] \in Generations /\ upload[uploads[i]] # {} /\ uploads[i] < g
  <2>1. uploads[i] \in Generations /\ uploads[i] \in Nat /\ g \in Nat
    BY Numbers
  <2>2. /\ uploads[i] <= latestGeneration
        /\ upload[uploads[i]] # {} /\ upload[g] = {}
    BY DEF HistoryInv, SessionUploads
  <2> QED
    BY <1>1, <2>1, <2>2
<1>4. TypeOK'
  BY <1>2 DEF SessionUploads
<1>5. OnlyLatestAlive'
  BY DEF SessionUploads, OnlyLatestAlive, Alive
<1>6. HistoryInv'
  <2>1. \A h \in Generations : upload'[h] = IF h = g THEN {g} ELSE upload[h]
    BY DEF SessionUploads
  <2>2. ASSUME NEW i \in 1 .. Len(uploads')
        PROVE  upload'[uploads'[i]] # {} /\ uploads'[i] <= latestGeneration'
    <3>1. CASE i = Len(uploads) + 1
      <4>1. uploads'[i] = g /\ latestGeneration' = g /\ g \in Nat
        BY <1>1, <1>2, <3>1, Numbers DEF SessionUploads
      <4>2. upload'[g] = {g}
        BY <2>1
      <4>3. g <= latestGeneration'
        BY <4>1
      <4> QED
        BY <4>1, <4>2, <4>3
    <3>2. CASE i \in 1 .. Len(uploads)
      <4>1. uploads'[i] = uploads[i] /\ latestGeneration' = latestGeneration
        BY <1>2, <3>2 DEF SessionUploads
      <4>2. uploads[i] <= latestGeneration
        BY <3>2 DEF HistoryInv
      <4> QED
        BY <1>3, <2>1, <3>2, <4>1, <4>2
    <3>3. i \in 1 .. Len(uploads) \/ i = Len(uploads) + 1
      BY <1>0
    <3> QED
      BY <3>1, <3>2, <3>3
  <2> QED
    BY <2>1, <2>2 DEF HistoryInv, SessionUploads
<1>7. UploadsInOrder'
  <2> SUFFICES ASSUME NEW i \in 1 .. Len(uploads'), NEW j \in 1 .. Len(uploads'), i < j
               PROVE  uploads'[i] < uploads'[j]
    BY DEF UploadsInOrder
  <2>2. i \in 1 .. Len(uploads)
    BY <1>0
  <2>3. j \in 1 .. Len(uploads) \/ j = Len(uploads) + 1
    BY <1>0
  <2>4. CASE j = Len(uploads) + 1
    BY <1>2, <1>3, <2>2, <2>4
  <2>5. CASE j \in 1 .. Len(uploads)
    BY <1>2, <2>2, <2>5 DEF UploadsInOrder
  <2> QED
    BY <2>3, <2>4, <2>5
<1> QED
  BY <1>4, <1>5, <1>6, <1>7

(* Lemma: the invariant is inductive. *)
LEMMA InvStep == Inv /\ [Next]_vars => Inv'
<1> SUFFICES ASSUME Inv, [Next]_vars PROVE Inv'
  OBVIOUS
<1>1. ASSUME NEW g \in Generations, BeginFresh(g) \/ BeginSuperseding(g) PROVE Inv'
  BY <1>1, BeginStep
<1>2. ASSUME NEW g \in Generations, BeginAbortsOnly(g) PROVE Inv'
  BY <1>2, LoseStep DEF BeginAbortsOnly, Alive
<1>3. CASE AbortCurrent
  BY <1>3, LoseStep DEF AbortCurrent, Alive
<1>4. ASSUME NEW g \in Generations, SessionLoses(g) PROVE Inv'
  BY <1>4, LoseStep DEF SessionLoses
<1>5. ASSUME NEW g \in Generations, SessionUploads(g) PROVE Inv'
  BY <1>5, UploadStep
<1>6. ASSUME NEW g \in Generations, SessionCloses(g) \/ SessionCommits(g) PROVE Inv'
  <2> USE DEF Inv, TypeOK
  <2>1. /\ UNCHANGED <<latestGeneration, upload, rollbacks, rollbackFailed, uploads>>
        /\ Alive(g)
        /\ \E o \in {"uploading", "published"} :
              outcome' = [outcome EXCEPT ![g] = o]
    BY <1>6 DEF SessionCloses, SessionCommits, Alive
  <2>2. PICK o \in {"uploading", "published"} : outcome' = [outcome EXCEPT ![g] = o]
    BY <2>1
  <2>3. TypeOK'
    BY <2>1, <2>2
  <2>4. OnlyLatestAlive'
    BY <2>1, <2>2 DEF OnlyLatestAlive, Alive
  <2>5. HistoryInv'
    BY <2>1, <2>2 DEF HistoryInv, Alive
  <2>6. UploadsInOrder'
    BY <2>1 DEF UploadsInOrder
  <2> QED
    BY <2>3, <2>4, <2>5, <2>6
<1>7. CASE UNCHANGED vars
  BY <1>7 DEF vars, Inv, TypeOK, OnlyLatestAlive, Alive, HistoryInv, UploadsInOrder
<1> QED
  BY <1>1, <1>2, <1>3, <1>4, <1>5, <1>6, <1>7 DEF Next, Session

(* Theorem: the invariant holds in every reachable state of the context.   *)
THEOREM Invariance == Spec => []Inv
BY InitInv, InvStep, PTL DEF Spec

(* Theorem: every variable of the context keeps its type.                  *)
THEOREM TypeCorrect == Spec => []TypeOK
<1>1. Inv => TypeOK
  BY DEF Inv
<1> QED
  BY <1>1, Invariance, PTL

(* Theorem: only the newest generation can still publish.                  *)
THEOREM OneLiveBuild == Spec => []OnlyLatestAlive
<1>1. Inv => OnlyLatestAlive
  BY DEF Inv
<1> QED
  BY <1>1, Invariance, PTL

(* Theorem: uploads start in the order of the build generations.           *)
THEOREM OrderedUploads == Spec => []UploadsInOrder
<1>1. Inv => UploadsInOrder
  BY DEF Inv
<1> QED
  BY <1>1, Invariance, PTL

(* Theorem: no build begins over an upload in flight or a failed rollback. *)
THEOREM SafeSupersession == Spec => NoUnsafeSupersession
<1>1. Inv /\ [Next]_vars =>
        [latestGeneration' # latestGeneration /\ latestGeneration \in Generations =>
           /\ outcome[latestGeneration] # "uploading"
           /\ latestGeneration \notin rollbackFailed
           /\ outcome'[latestGeneration] \in {"published", "lost"}]_vars
  <2> SUFFICES ASSUME Inv, Next, latestGeneration' # latestGeneration,
                      latestGeneration \in Generations
               PROVE  /\ outcome[latestGeneration] # "uploading"
                      /\ latestGeneration \notin rollbackFailed
                      /\ outcome'[latestGeneration] \in {"published", "lost"}
    OBVIOUS
  <2>1. PICK g \in Generations : BeginFresh(g) \/ BeginSuperseding(g)
    BY DEF Next, Session, SessionCloses, SessionUploads, SessionCommits, SessionLoses,
           BeginAbortsOnly, AbortCurrent
  <2>2. outcome[latestGeneration] # "unborn"
    BY DEF Inv, HistoryInv
  <2>3. latestGeneration # g
    BY <2>1, Numbers DEF BeginFresh, BeginSuperseding, MayBegin, Inv
  <2> QED
    BY <2>1, <2>2, <2>3
       DEF BeginFresh, BeginSuperseding, Superseding, MayBegin, Alive, Inv, TypeOK
<1> QED
  BY <1>1, Invariance, PTL DEF Spec, NoUnsafeSupersession

(* Lemma: every step of a context is one of BuildOrder, or leaves the      *)
(* latest build alone.                                                     *)
LEMMA OrderStep == Inv /\ [Next]_vars => [Order!OrderNext]_(Order!orderVars)
<1> SUFFICES ASSUME Inv, [Next]_vars
             PROVE  Order!OrderNext \/ UNCHANGED Order!orderVars
  OBVIOUS
<1> USE GenerationAssumption DEF Inv, TypeOK, Order!OrderNext, Order!orderVars
<1>0. latestGeneration \in Int /\ \A g \in Generations : g \in Nat
  BY Numbers
<1>1. ASSUME NEW g \in Generations, BeginFresh(g) \/ BeginSuperseding(g)
      PROVE  Order!BeginBuild
  <2>1. g > latestGeneration /\ latestGeneration' = g /\ outcome'[g] = "open"
    BY <1>0, <1>1 DEF BeginFresh, BeginSuperseding, MayBegin, Superseding
  <2>2. latestGeneration \in Generations => outcome[latestGeneration] # "uploading"
    BY <1>1 DEF BeginFresh, BeginSuperseding, Superseding, Alive
  <2> QED
    BY <1>0, <2>1, <2>2 DEF Order!BeginBuild
<1>2. ASSUME NEW g \in Generations, Alive(g), Lose(g), UNCHANGED latestGeneration
      PROVE  Order!LoseBuild
  <2>1. g = latestGeneration
    BY <1>2 DEF OnlyLatestAlive
  <2> QED
    BY <1>2, <2>1 DEF Order!LoseBuild, Alive, Lose
<1>3. ASSUME NEW g \in Generations,
             BeginAbortsOnly(g) \/ AbortCurrent \/ SessionLoses(g)
      PROVE  Order!LoseBuild
  BY <1>2, <1>3 DEF BeginAbortsOnly, AbortCurrent, SessionLoses, Alive
<1>4. ASSUME NEW g \in Generations, SessionCloses(g) PROVE Order!CloseBuild
  <2>1. g = latestGeneration
    BY <1>4 DEF SessionCloses, OnlyLatestAlive, Alive
  <2> QED
    BY <1>4, <2>1 DEF SessionCloses, Order!CloseBuild
<1>5. ASSUME NEW g \in Generations, SessionCommits(g) PROVE Order!CommitBuild
  <2>1. g = latestGeneration
    BY <1>5 DEF SessionCommits, OnlyLatestAlive, Alive
  <2> QED
    BY <1>5, <2>1 DEF SessionCommits, Order!CommitBuild
<1>6. ASSUME NEW g \in Generations, SessionUploads(g) PROVE UNCHANGED Order!orderVars
  BY <1>6 DEF SessionUploads
<1>7. CASE UNCHANGED vars
  BY <1>7 DEF vars
<1> QED
  BY <1>1, <1>3, <1>4, <1>5, <1>6, <1>7 DEF Next, Session, AbortCurrent

(* Theorem: whatever adapters do with the sessions they hold, the          *)
(* generations of a context follow each other as BuildOrder says.          *)
THEOREM OrderedBuilds == Spec => KeepsBuildOrder
<1>1. Init => Order!OrderInit
  BY GenerationAssumption DEF Init, Order!OrderInit
<1>2. Inv /\ [Next]_vars => [Order!OrderNext]_(Order!orderVars)
  BY OrderStep
<1> QED
  BY <1>1, <1>2, Invariance, PTL DEF Spec, KeepsBuildOrder, Order!OrderSpec

-----------------------------------------------------------------------------
(* The adapter.  A build has claimed from its claim to its end. *)
Claimed(f) == pc[f] \in {"checking", "committing", "aborting"}

(* The run of f numbered r is over. *)
Over(f, r) == r < run[f] \/ (r = run[f] /\ pc[f] = "idle")

(* Failures are on record for runs there were, at the stage that can fail. *)
FailureInv ==
  \A f \in Finalizers, r \in Nat :
    /\ <<f, r>> \in unreleased => Over(f, r)
    /\ <<f, r>> \in uncommitted => Over(f, r) \/ (r = run[f] /\ pc[f] = "aborting")

(* A run that has claimed has one claim, and every other claim is left     *)
(* over; no two of them are to the same output of a producer. *)
ClaimInv ==
  /\ \A f \in Finalizers : Claimed(f) =>
       \E c \in claims : c.owner = f /\ c.run = run[f]
  /\ \A c, d \in claims : c.owner = d.owner /\ c.run = d.run => c = d
  /\ \A c, d \in claims : c # d => c.external \intersect d.external = {}
  /\ ClaimsEndWithBuild

(* What is in the scope of the current generation was emitted by this run, *)
(* or since a run that was cut short, and it is gone once it was claimed.  *)
OutputInv ==
  /\ \A f \in Finalizers : \A o \in saved[f] :
       /\ o.generation <= generation[f]
       /\ o.generation = generation[f] =>
            \A r \in Nat : o.run <= r /\ Over(f, r) => <<f, r>> \in cut
  /\ \A f \in Finalizers : Claimed(f) => Own(f) = {}
  /\ \A c \in claims : \A o \in c.outputs : \A r \in Nat :
       o.run <= r /\ r < c.run => <<c.owner, r>> \in cut

(* A run publishes once, and rolls back afterwards only if it could not    *)
(* commit. *)
SnapshotInv ==
  /\ \A s \in snapshots :
       \/ Over(s.owner, s.run)
       \/ s.run = run[s.owner] /\ pc[s.owner] \in {"committing", "aborting"}
  /\ \A s \in snapshots :
       s.run = run[s.owner] /\ pc[s.owner] = "aborting" => <<s.owner, s.run>> \in uncommitted

(* What was published and committed is gone from the shared scope, and     *)
(* until it is committed nobody else has a claim to it. *)
ExternalInv ==
  \A s \in snapshots : <<s.owner, s.run>> \notin uncommitted =>
    /\ \A x \in s.external : external[x[1]] # x[2] \/
         \E c \in claims : c.owner = s.owner /\ c.run = s.run /\ x \in c.external
    /\ \A c \in claims : c.external \intersect s.external # {} =>
         c.owner = s.owner /\ c.run = s.run

ViteInv ==
  /\ ViteTypeOK
  /\ FailureInv /\ ClaimInv /\ OutputInv /\ SnapshotInv /\ ExternalInv
  /\ SnapshotIsOfItsRun /\ ExternalPublishedOnce

(* Lemma: what a build can claim of the producers are numbered outputs,    *)
(* the ones in the shared scope.                                           *)
LEMMA RevisionsType ==
  ASSUME ViteTypeOK
  PROVE  /\ Revisions \subseteq Keys \X (1 .. revision)
         /\ \A x \in Revisions : x[1] \in Keys /\ external[x[1]] = x[2]
BY DEF ViteTypeOK, Revisions

(* Lemma: a build that has claimed finds its own claim. *)
LEMMA OwnClaim ==
  ASSUME ClaimInv, NEW f \in Finalizers, Claimed(f)
  PROVE  /\ ClaimOf(f) \in claims
         /\ ClaimOf(f).owner = f /\ ClaimOf(f).run = run[f]
BY DEF ClaimInv, ClaimOf

(* Lemma: the adapter starts in a state of the invariant. *)
LEMMA ViteInitInv == ViteInit => ViteInv
<1> SUFFICES ASSUME ViteInit PROVE ViteInv
  OBVIOUS
<1>1. ViteTypeOK
  BY DEF ViteInit, ViteTypeOK
<1>2. FailureInv /\ ClaimInv /\ OutputInv
  BY DEF ViteInit, FailureInv, ClaimInv, OutputInv, Claimed, ClaimsEndWithBuild
<1>3. SnapshotInv /\ ExternalInv /\ SnapshotIsOfItsRun /\ ExternalPublishedOnce
  BY DEF ViteInit, SnapshotInv, ExternalInv, SnapshotIsOfItsRun, ExternalPublishedOnce
<1> QED
  BY <1>1, <1>2, <1>3 DEF ViteInv

(* Lemma: every step of the adapter keeps the types. *)
LEMMA ViteTypeStep == ViteTypeOK /\ ClaimInv /\ [ViteNext]_viteVars => ViteTypeOK'
<1> SUFFICES ASSUME ViteTypeOK, ClaimInv, [ViteNext]_viteVars PROVE ViteTypeOK'
  OBVIOUS
<1> USE DEF ViteTypeOK, Output, store, history, builder, outcomes
<1>1. ASSUME NEW f \in Finalizers, NEW es \in EnvironmentSets, RunStarts(f, es)
      PROVE  ViteTypeOK'
  BY <1>1 DEF RunStarts, Goto, Environments
<1>2. ASSUME NEW f \in Finalizers, NEW e \in Environments, WriteBundle(f, e)
      PROVE  ViteTypeOK'
  BY <1>2 DEF WriteBundle, Compiling, EnvironmentOutput
<1>3. ASSUME NEW f \in Finalizers, NEW e \in Environments, EnvironmentBuilt(f, e)
      PROVE  ViteTypeOK'
  BY <1>3 DEF EnvironmentBuilt, Compiling
<1>4. ASSUME NEW f \in Finalizers, BuildFails(f)
      PROVE  ViteTypeOK'
  BY <1>4 DEF BuildFails, Compiling, Ends
<1>5. ASSUME NEW f \in Finalizers, BuildApp(f)
      PROVE  ViteTypeOK'
  BY <1>5 DEF BuildApp, Ends, Goto
<1>6. ASSUME NEW f \in Finalizers, AllBuilt(f)
      PROVE  ViteTypeOK'
  BY <1>6 DEF AllBuilt, Goto
<1>7. ASSUME NEW f \in Finalizers, Claim(f)
      PROVE  ViteTypeOK'
  BY <1>7, RevisionsType DEF Claim, Goto, Own
<1>8. ASSUME NEW f \in Finalizers, ClaimFails(f)
      PROVE  ViteTypeOK'
  BY <1>8 DEF ClaimFails, Ends
<1>9. ASSUME NEW f \in Finalizers, Refuse(f)
      PROVE  ViteTypeOK'
  BY <1>9 DEF Refuse, Goto
<1>10. ASSUME NEW f \in Finalizers, Publish(f)
      PROVE  ViteTypeOK'
  BY <1>10, OwnClaim DEF Publish, Goto, Claimed
<1>11. ASSUME NEW f \in Finalizers, PublishFails(f)
      PROVE  ViteTypeOK'
  BY <1>11 DEF PublishFails, Goto
<1>12. ASSUME NEW f \in Finalizers, Commit(f)
      PROVE  ViteTypeOK'
  BY <1>12, OwnClaim DEF Commit, Ends, Claimed
<1>13. ASSUME NEW f \in Finalizers, CommitFails(f)
      PROVE  ViteTypeOK'
  BY <1>13 DEF CommitFails, Goto
<1>14. ASSUME NEW f \in Finalizers, Rollback(f)
      PROVE  ViteTypeOK'
  BY <1>14 DEF Rollback, Ends
<1>15. ASSUME NEW f \in Finalizers, RollbackFails(f)
      PROVE  ViteTypeOK'
  BY <1>15 DEF RollbackFails, Ends
<1>16. ASSUME NEW k \in Keys, Produce(k) PROVE ViteTypeOK'
  BY <1>16 DEF Produce
<1>17. CASE UNCHANGED viteVars
  BY <1>17 DEF viteVars
<1> QED
  BY <1>1, <1>2, <1>3, <1>4, <1>5, <1>6, <1>7, <1>8, <1>9, <1>10, <1>11,
     <1>12, <1>13, <1>14, <1>15, <1>16, <1>17
     DEF ViteNext, Step

(* Lemma: failures stay on record for runs that could fail so. *)
LEMMA FailureStep == ViteTypeOK /\ FailureInv /\ [ViteNext]_viteVars => FailureInv'
<1> SUFFICES ASSUME ViteTypeOK, FailureInv, [ViteNext]_viteVars PROVE FailureInv'
  OBVIOUS
<1> USE DEF ViteTypeOK, FailureInv, Over, store, history, builder, outcomes
<1>1. ASSUME NEW f \in Finalizers, NEW es \in EnvironmentSets, RunStarts(f, es)
      PROVE  FailureInv'
  <2>1. /\ run' = [run EXCEPT ![f] = run[f] + 1]
        /\ pc' = [pc EXCEPT ![f] = "framework"]
        /\ pc[f] = "idle"
        /\ UNCHANGED <<unreleased, uncommitted>>
    BY <1>1 DEF RunStarts, Goto
  <2>2. \A g \in Finalizers, r \in Nat : Over(g, r) => Over(g, r)'
    BY <2>1
  <2>3. \A g \in Finalizers : pc'[g] = "aborting" => g # f /\ run'[g] = run[g] /\ pc[g] = "aborting"
    BY <2>1
  <2> QED
    BY <2>1, <2>2, <2>3
<1>2. ASSUME NEW f \in Finalizers, NEW e \in Environments, WriteBundle(f, e)
      PROVE  FailureInv'
  BY <1>2 DEF WriteBundle, Compiling, EnvironmentOutput
<1>3. ASSUME NEW f \in Finalizers, NEW e \in Environments, EnvironmentBuilt(f, e)
      PROVE  FailureInv'
  BY <1>3 DEF EnvironmentBuilt, Compiling
<1>4. ASSUME NEW f \in Finalizers, BuildFails(f)
      PROVE  FailureInv'
  BY <1>4 DEF BuildFails, Compiling, Ends
<1>5. ASSUME NEW f \in Finalizers, BuildApp(f)
      PROVE  FailureInv'
  BY <1>5 DEF BuildApp, Ends, Goto
<1>6. ASSUME NEW f \in Finalizers, AllBuilt(f)
      PROVE  FailureInv'
  BY <1>6 DEF AllBuilt, Goto
<1>7. ASSUME NEW f \in Finalizers, Claim(f)
      PROVE  FailureInv'
  BY <1>7 DEF Claim, Goto
<1>8. ASSUME NEW f \in Finalizers, ClaimFails(f)
      PROVE  FailureInv'
  BY <1>8 DEF ClaimFails, Ends
<1>9. ASSUME NEW f \in Finalizers, Refuse(f)
      PROVE  FailureInv'
  BY <1>9 DEF Refuse, Goto
<1>10. ASSUME NEW f \in Finalizers, Publish(f)
      PROVE  FailureInv'
  BY <1>10 DEF Publish, Goto
<1>11. ASSUME NEW f \in Finalizers, PublishFails(f)
      PROVE  FailureInv'
  BY <1>11 DEF PublishFails, Goto
<1>12. ASSUME NEW f \in Finalizers, Commit(f)
      PROVE  FailureInv'
  BY <1>12 DEF Commit, Ends
<1>13. ASSUME NEW f \in Finalizers, CommitFails(f)
      PROVE  FailureInv'
  BY <1>13 DEF CommitFails, Goto
<1>14. ASSUME NEW f \in Finalizers, Rollback(f)
      PROVE  FailureInv'
  BY <1>14 DEF Rollback, Ends
<1>15. ASSUME NEW f \in Finalizers, RollbackFails(f)
      PROVE  FailureInv'
  BY <1>15 DEF RollbackFails, Ends
<1>16. ASSUME NEW k \in Keys, Produce(k) PROVE FailureInv'
  BY <1>16 DEF Produce
<1>17. CASE UNCHANGED viteVars
  BY <1>17 DEF viteVars
<1> QED
  BY <1>1, <1>2, <1>3, <1>4, <1>5, <1>6, <1>7, <1>8, <1>9, <1>10, <1>11,
     <1>12, <1>13, <1>14, <1>15, <1>16, <1>17
     DEF ViteNext, Step

(* Lemma: a claim is the only one of its run and takes nothing from others. *)
LEMMA ClaimingStep == ASSUME ViteInv, NEW f \in Finalizers, Claim(f) PROVE ClaimInv'
<1> DEFINE c == [owner |-> f, run |-> run[f], outputs |-> Own(f),
                 external |-> IF Wants(f) THEN Revisions ELSE {}]
<1>1. /\ claims' = claims \union {c}
      /\ pc[f] = "claiming" /\ pc' = [pc EXCEPT ![f] = "checking"]
      /\ UNCHANGED <<run, unreleased>>
  BY DEF Claim, Goto, builder, history, outcomes
<1>2. /\ \A g \in Finalizers : pc'[g] = IF g = f THEN "checking" ELSE pc[g]
      /\ c.owner = f /\ c.run = run[f]
      /\ \A d \in claims : d.owner \in Finalizers /\ d.run \in Nat
      /\ run[f] \in Nat
  BY <1>1 DEF ViteInv, ViteTypeOK
<1>3. <<f, run[f]>> \notin unreleased
  BY <1>1, <1>2 DEF ViteInv, FailureInv, Over
<1>4. \A d \in claims : ~ (d.owner = f /\ d.run = run[f])
  BY <1>1, <1>3 DEF ViteInv, ClaimInv, ClaimsEndWithBuild
<1>5. \A d \in claims : d.external \intersect c.external = {}
  BY DEF Claim, Available
<1>6. \A g \in Finalizers : Claimed(g)' => \E d \in claims' : d.owner = g /\ d.run = run'[g]
  <2> SUFFICES ASSUME NEW g \in Finalizers, Claimed(g)'
               PROVE  \E d \in claims' : d.owner = g /\ d.run = run'[g]
    OBVIOUS
  <2>1. CASE g = f
    BY <1>1, <1>2, <2>1
  <2>2. CASE g # f
    BY <1>1, <1>2, <2>2 DEF ViteInv, ClaimInv, Claimed
  <2> QED
    BY <2>1, <2>2
<1>7. \A d, e \in claims' : d.owner = e.owner /\ d.run = e.run => d = e
  <2> HIDE DEF c
  <2> QED
    BY <1>1, <1>2, <1>4 DEF ViteInv, ClaimInv
<1>8. \A d, e \in claims' : d # e => d.external \intersect e.external = {}
  <2> HIDE DEF c
  <2> QED
    BY <1>1, <1>5 DEF ViteInv, ClaimInv
<1>9. ClaimsEndWithBuild'
  <2> SUFFICES ASSUME NEW d \in claims'
               PROVE  \/ d.run = run'[d.owner] /\ Claimed(d.owner)'
                      \/ <<d.owner, d.run>> \in unreleased'
    BY DEF ClaimsEndWithBuild, Claimed
  <2> HIDE DEF c
  <2>1. CASE d = c
    BY <1>1, <1>2, <2>1 DEF Claimed
  <2>2. CASE d \in claims
    BY <1>1, <1>2, <2>2 DEF Claimed, ViteInv, ClaimInv, ClaimsEndWithBuild
  <2> QED
    BY <1>1, <2>1, <2>2
<1> QED
  BY <1>6, <1>7, <1>8, <1>9 DEF ClaimInv

(* Lemma: the claims in the store stay those of the builds in progress,    *)
(* and the left over ones. *)
LEMMA ClaimStep == ViteInv /\ [ViteNext]_viteVars => ClaimInv'
<1> SUFFICES ASSUME ViteInv, [ViteNext]_viteVars PROVE ClaimInv'
  OBVIOUS
<1> USE DEF ViteInv, ViteTypeOK, FailureInv, ClaimInv, ClaimsEndWithBuild, Claimed, Over,
            store, history, builder, outcomes
<1>1. ASSUME NEW f \in Finalizers, NEW es \in EnvironmentSets, RunStarts(f, es)
      PROVE  ClaimInv'
  BY <1>1 DEF RunStarts, Goto
<1>2. ASSUME NEW f \in Finalizers, NEW e \in Environments, WriteBundle(f, e)
      PROVE  ClaimInv'
  BY <1>2 DEF WriteBundle, Compiling, EnvironmentOutput
<1>3. ASSUME NEW f \in Finalizers, NEW e \in Environments, EnvironmentBuilt(f, e)
      PROVE  ClaimInv'
  BY <1>3 DEF EnvironmentBuilt, Compiling
<1>4. ASSUME NEW f \in Finalizers, BuildFails(f)
      PROVE  ClaimInv'
  BY <1>4 DEF BuildFails, Compiling, Ends
<1>5. ASSUME NEW f \in Finalizers, BuildApp(f)
      PROVE  ClaimInv'
  BY <1>5 DEF BuildApp, Ends, Goto
<1>6. ASSUME NEW f \in Finalizers, AllBuilt(f)
      PROVE  ClaimInv'
  BY <1>6 DEF AllBuilt, Goto
<1>7. ASSUME NEW f \in Finalizers, Claim(f)
      PROVE  ClaimInv'
  BY <1>7, ClaimingStep
<1>8. ASSUME NEW f \in Finalizers, ClaimFails(f)
      PROVE  ClaimInv'
  BY <1>8 DEF ClaimFails, Ends
<1>9. ASSUME NEW f \in Finalizers, Refuse(f)
      PROVE  ClaimInv'
  BY <1>9 DEF Refuse, Goto
<1>10. ASSUME NEW f \in Finalizers, Publish(f)
      PROVE  ClaimInv'
  BY <1>10 DEF Publish, Goto
<1>11. ASSUME NEW f \in Finalizers, PublishFails(f)
      PROVE  ClaimInv'
  BY <1>11 DEF PublishFails, Goto
<1>12. ASSUME NEW f \in Finalizers, Commit(f)
      PROVE  ClaimInv'
  BY <1>12, OwnClaim DEF Commit, Ends
<1>13. ASSUME NEW f \in Finalizers, CommitFails(f)
      PROVE  ClaimInv'
  BY <1>13 DEF CommitFails, Goto
<1>14. ASSUME NEW f \in Finalizers, Rollback(f)
      PROVE  ClaimInv'
  BY <1>14, OwnClaim DEF Rollback, Ends
<1>15. ASSUME NEW f \in Finalizers, RollbackFails(f)
      PROVE  ClaimInv'
  BY <1>15 DEF RollbackFails, Ends
<1>16. ASSUME NEW k \in Keys, Produce(k) PROVE ClaimInv'
  BY <1>16 DEF Produce
<1>17. CASE UNCHANGED viteVars
  BY <1>17 DEF viteVars
<1> QED
  BY <1>1, <1>2, <1>3, <1>4, <1>5, <1>6, <1>7, <1>8, <1>9, <1>10, <1>11,
     <1>12, <1>13, <1>14, <1>15, <1>16, <1>17
     DEF ViteNext, Step

(* Lemma: what is in the current generation, and what was claimed of it,   *)
(* stays of the run that publishes it. *)
LEMMA OutputStep == ViteInv /\ [ViteNext]_viteVars => OutputInv'
<1> SUFFICES ASSUME ViteInv, [ViteNext]_viteVars PROVE OutputInv'
  OBVIOUS
<1> USE DEF ViteInv, ViteTypeOK, Output, OutputInv, Own, Claimed, Over,
            store, history, builder, outcomes
<1>1. ASSUME NEW f \in Finalizers, NEW es \in EnvironmentSets, RunStarts(f, es)
      PROVE  OutputInv'
  BY <1>1 DEF RunStarts, Goto
<1>2. ASSUME NEW f \in Finalizers, NEW e \in Environments, WriteBundle(f, e)
      PROVE  OutputInv'
  BY <1>2 DEF WriteBundle, Compiling, EnvironmentOutput
<1>3. ASSUME NEW f \in Finalizers, NEW e \in Environments, EnvironmentBuilt(f, e)
      PROVE  OutputInv'
  BY <1>3 DEF EnvironmentBuilt, Compiling
<1>4. ASSUME NEW f \in Finalizers, BuildFails(f)
      PROVE  OutputInv'
  BY <1>4 DEF BuildFails, Compiling, Ends
<1>5. ASSUME NEW f \in Finalizers, BuildApp(f)
      PROVE  OutputInv'
  BY <1>5 DEF BuildApp, Ends, Goto
<1>6. ASSUME NEW f \in Finalizers, AllBuilt(f)
      PROVE  OutputInv'
  BY <1>6 DEF AllBuilt, Goto
<1>7. ASSUME NEW f \in Finalizers, Claim(f)
      PROVE  OutputInv'
  BY <1>7 DEF Claim, Goto
<1>8. ASSUME NEW f \in Finalizers, ClaimFails(f)
      PROVE  OutputInv'
  BY <1>8 DEF ClaimFails, Ends
<1>9. ASSUME NEW f \in Finalizers, Refuse(f)
      PROVE  OutputInv'
  BY <1>9 DEF Refuse, Goto
<1>10. ASSUME NEW f \in Finalizers, Publish(f)
      PROVE  OutputInv'
  BY <1>10 DEF Publish, Goto
<1>11. ASSUME NEW f \in Finalizers, PublishFails(f)
      PROVE  OutputInv'
  BY <1>11 DEF PublishFails, Goto
<1>12. ASSUME NEW f \in Finalizers, Commit(f)
      PROVE  OutputInv'
  BY <1>12 DEF Commit, Ends
<1>13. ASSUME NEW f \in Finalizers, CommitFails(f)
      PROVE  OutputInv'
  BY <1>13 DEF CommitFails, Goto
<1>14. ASSUME NEW f \in Finalizers, Rollback(f)
      PROVE  OutputInv'
  BY <1>14 DEF Rollback, Ends
<1>15. ASSUME NEW f \in Finalizers, RollbackFails(f)
      PROVE  OutputInv'
  BY <1>15 DEF RollbackFails, Ends
<1>16. ASSUME NEW k \in Keys, Produce(k) PROVE OutputInv'
  BY <1>16 DEF Produce
<1>17. CASE UNCHANGED viteVars
  BY <1>17 DEF viteVars
<1> QED
  BY <1>1, <1>2, <1>3, <1>4, <1>5, <1>6, <1>7, <1>8, <1>9, <1>10, <1>11,
     <1>12, <1>13, <1>14, <1>15, <1>16, <1>17
     DEF ViteNext, Step

(* Lemma: a run publishes once. *)
LEMMA SnapshotStep == ViteInv /\ [ViteNext]_viteVars => SnapshotInv'
<1> SUFFICES ASSUME ViteInv, [ViteNext]_viteVars PROVE SnapshotInv'
  OBVIOUS
<1> USE DEF ViteInv, ViteTypeOK, SnapshotInv, Over, store, history, builder, outcomes
<1>1. ASSUME NEW f \in Finalizers, NEW es \in EnvironmentSets, RunStarts(f, es)
      PROVE  SnapshotInv'
  BY <1>1 DEF RunStarts, Goto
<1>2. ASSUME NEW f \in Finalizers, NEW e \in Environments, WriteBundle(f, e)
      PROVE  SnapshotInv'
  BY <1>2 DEF WriteBundle, Compiling, EnvironmentOutput
<1>3. ASSUME NEW f \in Finalizers, NEW e \in Environments, EnvironmentBuilt(f, e)
      PROVE  SnapshotInv'
  BY <1>3 DEF EnvironmentBuilt, Compiling
<1>4. ASSUME NEW f \in Finalizers, BuildFails(f)
      PROVE  SnapshotInv'
  BY <1>4 DEF BuildFails, Compiling, Ends
<1>5. ASSUME NEW f \in Finalizers, BuildApp(f)
      PROVE  SnapshotInv'
  BY <1>5 DEF BuildApp, Ends, Goto
<1>6. ASSUME NEW f \in Finalizers, AllBuilt(f)
      PROVE  SnapshotInv'
  BY <1>6 DEF AllBuilt, Goto
<1>7. ASSUME NEW f \in Finalizers, Claim(f)
      PROVE  SnapshotInv'
  BY <1>7 DEF Claim, Goto
<1>8. ASSUME NEW f \in Finalizers, ClaimFails(f)
      PROVE  SnapshotInv'
  BY <1>8 DEF ClaimFails, Ends
<1>9. ASSUME NEW f \in Finalizers, Refuse(f)
      PROVE  SnapshotInv'
  BY <1>9 DEF Refuse, Goto
<1>10. ASSUME NEW f \in Finalizers, Publish(f)
      PROVE  SnapshotInv'
  BY <1>10 DEF Publish, Goto
<1>11. ASSUME NEW f \in Finalizers, PublishFails(f)
      PROVE  SnapshotInv'
  BY <1>11 DEF PublishFails, Goto
<1>12. ASSUME NEW f \in Finalizers, Commit(f)
      PROVE  SnapshotInv'
  BY <1>12 DEF Commit, Ends
<1>13. ASSUME NEW f \in Finalizers, CommitFails(f)
      PROVE  SnapshotInv'
  BY <1>13 DEF CommitFails, Goto
<1>14. ASSUME NEW f \in Finalizers, Rollback(f)
      PROVE  SnapshotInv'
  BY <1>14 DEF Rollback, Ends
<1>15. ASSUME NEW f \in Finalizers, RollbackFails(f)
      PROVE  SnapshotInv'
  BY <1>15 DEF RollbackFails, Ends
<1>16. ASSUME NEW k \in Keys, Produce(k) PROVE SnapshotInv'
  BY <1>16 DEF Produce
<1>17. CASE UNCHANGED viteVars
  BY <1>17 DEF viteVars
<1> QED
  BY <1>1, <1>2, <1>3, <1>4, <1>5, <1>6, <1>7, <1>8, <1>9, <1>10, <1>11,
     <1>12, <1>13, <1>14, <1>15, <1>16, <1>17
     DEF ViteNext, Step

(* Lemma: nobody can claim what was published, until it failed to commit. *)
LEMMA ExternalStep == ViteInv /\ [ViteNext]_viteVars => ExternalInv'
<1> SUFFICES ASSUME ViteInv, [ViteNext]_viteVars PROVE ExternalInv'
  OBVIOUS
<1> USE DEF ViteInv, ViteTypeOK, ExternalInv, SnapshotInv, ClaimInv, Claimed, Over,
            store, history, builder, outcomes
<1>1. ASSUME NEW f \in Finalizers, NEW es \in EnvironmentSets, RunStarts(f, es)
      PROVE  ExternalInv'
  BY <1>1 DEF RunStarts, Goto
<1>2. ASSUME NEW f \in Finalizers, NEW e \in Environments, WriteBundle(f, e)
      PROVE  ExternalInv'
  BY <1>2 DEF WriteBundle, Compiling, EnvironmentOutput
<1>3. ASSUME NEW f \in Finalizers, NEW e \in Environments, EnvironmentBuilt(f, e)
      PROVE  ExternalInv'
  BY <1>3 DEF EnvironmentBuilt, Compiling
<1>4. ASSUME NEW f \in Finalizers, BuildFails(f)
      PROVE  ExternalInv'
  BY <1>4 DEF BuildFails, Compiling, Ends
<1>5. ASSUME NEW f \in Finalizers, BuildApp(f)
      PROVE  ExternalInv'
  BY <1>5 DEF BuildApp, Ends, Goto
<1>6. ASSUME NEW f \in Finalizers, AllBuilt(f)
      PROVE  ExternalInv'
  BY <1>6 DEF AllBuilt, Goto
<1>7. ASSUME NEW f \in Finalizers, Claim(f)
      PROVE  ExternalInv'
  BY <1>7, RevisionsType DEF Claim, Goto, Available, Wants
<1>8. ASSUME NEW f \in Finalizers, ClaimFails(f)
      PROVE  ExternalInv'
  BY <1>8 DEF ClaimFails, Ends
<1>9. ASSUME NEW f \in Finalizers, Refuse(f)
      PROVE  ExternalInv'
  BY <1>9 DEF Refuse, Goto
<1>10. ASSUME NEW f \in Finalizers, Publish(f)
      PROVE  ExternalInv'
  BY <1>10, OwnClaim DEF Publish, Goto
<1>11. ASSUME NEW f \in Finalizers, PublishFails(f)
      PROVE  ExternalInv'
  BY <1>11 DEF PublishFails, Goto
<1>12. ASSUME NEW f \in Finalizers, Commit(f)
      PROVE  ExternalInv'
  BY <1>12, OwnClaim DEF Commit, Ends
<1>13. ASSUME NEW f \in Finalizers, CommitFails(f)
      PROVE  ExternalInv'
  BY <1>13 DEF CommitFails, Goto
<1>14. ASSUME NEW f \in Finalizers, Rollback(f)
      PROVE  ExternalInv'
  BY <1>14, OwnClaim DEF Rollback, Ends
<1>15. ASSUME NEW f \in Finalizers, RollbackFails(f)
      PROVE  ExternalInv'
  BY <1>15 DEF RollbackFails, Ends
<1>16. ASSUME NEW k \in Keys, Produce(k) PROVE ExternalInv'
  BY <1>16 DEF Produce
<1>17. CASE UNCHANGED viteVars
  BY <1>17 DEF viteVars
<1> QED
  BY <1>1, <1>2, <1>3, <1>4, <1>5, <1>6, <1>7, <1>8, <1>9, <1>10, <1>11,
     <1>12, <1>13, <1>14, <1>15, <1>16, <1>17
     DEF ViteNext, Step

(* Lemma: only a build that is being checked publishes, and its claim has  *)
(* outputs of its own environments, of a generation nobody else fed.       *)
LEMMA PublishStep ==
  ViteInv /\ [ViteNext]_viteVars => (SnapshotIsOfItsRun /\ ExternalPublishedOnce)'
<1> SUFFICES ASSUME ViteInv, [ViteNext]_viteVars
             PROVE  (SnapshotIsOfItsRun /\ ExternalPublishedOnce)'
  OBVIOUS
<1>1. CASE \E f \in Finalizers : Publish(f)
  <2>1. PICK f \in Finalizers : Publish(f)
    BY <1>1
  <2> DEFINE c == ClaimOf(f)
             s == [owner |-> f, run |-> run[f], environments |-> environments[f],
                   outputs |-> c.outputs, external |-> c.external]
  <2>2. /\ snapshots' = snapshots \union {s}
        /\ pc[f] = "checking"
        /\ {o.environment : o \in s.outputs} = environments[f]
        /\ UNCHANGED <<cut, uncommitted>>
    BY <2>1 DEF Publish, Whole
  <2>3. c \in claims /\ c.owner = f /\ c.run = run[f]
    BY <2>2, OwnClaim DEF ViteInv, Claimed
  <2>4. SnapshotIsOfItsRun'
    <3>1. run[f] \in Nat /\ \A o \in c.outputs : o.run \in Nat
      BY <2>3 DEF ViteInv, ViteTypeOK, Output
    <3>2. \A o \in s.outputs : \A r \in o.run .. s.run - 1 : <<s.owner, r>> \in cut
      BY <2>3, <3>1 DEF ViteInv, OutputInv
    <3> QED
      BY <2>2, <3>2 DEF ViteInv, SnapshotIsOfItsRun
  <2>5. \A t \in snapshots : t.external \intersect s.external # {} =>
          <<t.owner, t.run>> \in uncommitted
    <3>1. \A t \in snapshots : ~ (t.owner = f /\ t.run = run[f])
      BY <2>2 DEF ViteInv, ViteTypeOK, SnapshotInv, Over
    <3> QED
      BY <2>3, <3>1 DEF ViteInv, ExternalInv
  <2>6. ExternalPublishedOnce'
    BY <2>2, <2>5 DEF ViteInv, ExternalPublishedOnce
  <2> QED
    BY <2>4, <2>6
<1>2. CASE ~ \E f \in Finalizers : Publish(f)
  <2>1. /\ snapshots' = snapshots
        /\ cut \subseteq cut' /\ uncommitted \subseteq uncommitted'
    BY <1>2 DEF ViteNext, Step, RunStarts, WriteBundle, EnvironmentBuilt, BuildFails,
       BuildApp, AllBuilt, Claim, ClaimFails, Refuse, PublishFails, Commit, CommitFails,
       Rollback, RollbackFails, Produce, viteVars, store, history, builder, outcomes
  <2>2. SnapshotIsOfItsRun'
    BY <2>1 DEF ViteInv, SnapshotIsOfItsRun
  <2>3. ExternalPublishedOnce'
    BY <2>1 DEF ViteInv, ExternalPublishedOnce
  <2> QED
    BY <2>2, <2>3
<1> QED
  BY <1>1, <1>2

(* Theorem: the finalizers and producers never leave the invariant. *)
THEOREM ViteInvariance == ViteSpec => []ViteInv
<1>1. ViteInv /\ [ViteNext]_viteVars => ViteInv'
  BY ViteTypeStep, FailureStep, ClaimStep, OutputStep, SnapshotStep, ExternalStep,
     PublishStep DEF ViteInv
<1> QED
  BY <1>1, ViteInitInv, PTL DEF ViteSpec

(* Theorem: the adapter and the scopes of its store keep their types. *)
THEOREM ViteTypeCorrect == ViteSpec => []ViteTypeOK
BY ViteInvariance, PTL DEF ViteInv

(* Theorem: a snapshot has the environments of its run, and nothing of an  *)
(* earlier publication that failed (vite-plugin-zephyr.ts:895).            *)
THEOREM OwnEnvironments == ViteSpec => []SnapshotIsOfItsRun
BY ViteInvariance, PTL DEF ViteInv

(* Theorem: an output of withZephyrPartial is published once, unless the   *)
(* store refused the commit of its first publication.                      *)
THEOREM PublishedOnce == ViteSpec => []ExternalPublishedOnce
BY ViteInvariance, PTL DEF ViteInv

(* Theorem: a build that ended, however it did, has released its claim,    *)
(* unless the store refused (vite-plugin-zephyr.ts:1075).                  *)
THEOREM ClaimsReleased == ViteSpec => []ClaimsEndWithBuild
<1>1. ViteInv => ClaimsEndWithBuild
  BY DEF ViteInv, ClaimInv
<1> QED
  BY <1>1, ViteInvariance, PTL

=============================================================================
