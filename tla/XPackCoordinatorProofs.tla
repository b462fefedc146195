----------------------- MODULE XPackCoordinatorProofs -----------------------
(***************************************************************************)
(* Theorems about XPackCoordinator, for every set of compilers and files,  *)
(* every number of edits, and whether or not anything fails.               *)
(*                                                                         *)
(* What is published rests on Inv, its freshness on QuietInv, the order of *)
(* builds on UploadInv, and the going on of a batch on CalmInv.            *)
(***************************************************************************)
EXTENDS XPackCoordinator, TLAPS

(* Most steps leave all history variables alone. *)
USE DEF history

(* What holds of a build b when the generations in pub were published and  *)
(* the compilers in rec are recovering.  While b collects, its outputs are *)
(* its own and it still waits for whoever recovers; once it is uploaded it *)
(* has an output of every compiler.                                        *)
BuildInv(b, pub, rec) ==
  /\ b \in Build
  /\ \A p \in Participants : HasContributed(b, p) =>
       b.contributions[p].logical \in pub \union {b.id}
  /\ b.status = "open" =>
       \A p \in Participants : HasContributed(b, p) => b.contributions[p].logical = b.id
  /\ b.status = "open" => \A p \in rec : p \in b.dirty \/ HasContributed(b, p)
  /\ b.status = "uploading" => \A p \in Participants : HasContributed(b, p)

(* What is carried over was published. *)
BaselineInv ==
  \A p \in Participants :
    lastSuccessful[p] # NoOutput => lastSuccessful[p].logical \in published

Inv == TypeOK /\ BuildInv(activeBuild, published, pendingRecovery) /\ BaselineInv

-----------------------------------------------------------------------------
(* Lemma: no build is well formed, and so is no output. *)
LEMMA Nothing == MaxEdits \in Nat /\ NoOutput \in Output /\ NoBuild \in Build
<1>1. MaxEdits \in Nat
  BY CoordinatorAssumption
<1>2. NoOutput \in Output
  BY <1>1 DEF NoOutput, Output
<1> QED
  BY <1>1, <1>2 DEF NoBuild, Build

(* Lemma: the coordinator starts in a state of the invariant. *)
LEMMA InitInv == Init => Inv
<1> SUFFICES ASSUME Init PROVE Inv
  OBVIOUS
<1>1. activeBuild = NoBuild /\ activeBuild.id = -1 /\ activeBuild.status = "none"
      /\ \A p \in Participants : activeBuild.contributions[p] = NoOutput
  BY DEF Init, NoBuild
<1>2. TypeOK
  <2>1. localGenerations \in [Participants -> [local: Int, logical: Int]]
    BY DEF Init
  <2> QED
    BY <1>1, <2>1, Nothing DEF Init, TypeOK
<1>3. BuildInv(activeBuild, published, pendingRecovery)
  BY <1>1, Nothing DEF BuildInv, HasContributed
<1>4. BaselineInv
  BY DEF Init, BaselineInv
<1> QED
  BY <1>2, <1>3, <1>4 DEF Inv

(* Lemma: createBuild makes a build that waits for whoever recovers. *)
LEMMA NewBuildInv ==
  ASSUME Inv, NEW D \in SUBSET Participants
  PROVE  /\ BuildInv(NewBuild(D), published, pendingRecovery)
         /\ NewBuild(D).id = nextLogicalGeneration
         /\ NewBuild(D).status = "open"
<1>1. NewBuild(D) \in Build
  <2>1. nextLogicalGeneration \in Int /\ D \union pendingRecovery \in SUBSET Participants
    BY DEF Inv, TypeOK
  <2>2. NoBuild \in Build
    BY Nothing
  <2> QED
    BY <2>1, <2>2 DEF NewBuild, Build
<1>2. /\ NewBuild(D).id = nextLogicalGeneration
      /\ NewBuild(D).status = "open"
      /\ NewBuild(D).dirty = D \union pendingRecovery
      /\ \A p \in Participants : NewBuild(D).contributions[p] = NoOutput
  BY DEF NewBuild, NoBuild
<1> QED
  BY <1>1, <1>2 DEF BuildInv, HasContributed

(* Lemma: marking compilers dirty or started keeps a build's invariant, and *)
(* so does ending the build.                                               *)
LEMMA MarkedInv ==
  ASSUME NEW b, NEW c, NEW pub, NEW rec, NEW rec2,
         BuildInv(b, pub, rec), c \in Build,
         c.id = b.id, c.contributions = b.contributions,
         \/ c.status = b.status /\ b.dirty \subseteq c.dirty /\ rec2 = rec
         \/ c.status \in {"failed", "aborted", "published"}
         \/ c.status = b.status /\ b.status # "open"
  PROVE  BuildInv(c, pub, rec2)
BY DEF BuildInv, HasContributed

(* Lemma: what rememberFailedBuild leaves has its type. *)
LEMMA RememberType ==
  ASSUME TypeOK, NEW b \in Build, Remember(b)
  PROVE  /\ pendingRecovery' \subseteq Participants
         /\ rejectedLocalGenerations' \in [Participants -> SUBSET Int]
<1>1. pendingRecovery' \subseteq Participants
  BY DEF TypeOK, Remember, Build
<1>2. \A p \in Participants :
        localGenerations[p].local + (IF p \in b.started THEN 0 ELSE 1) \in Int
  BY DEF TypeOK
<1>3. \A p \in Participants : rejectedLocalGenerations[p] \in SUBSET Int
  BY DEF TypeOK
<1> QED
  BY <1>1, <1>2, <1>3 DEF Remember

(* Lemma: failParticipant keeps the invariant. *)
LEMMA FailStep ==
  ASSUME Inv, NEW p \in Participants, FailParticipant(p),
         NEW to \in {"failing", "idle"}, Goes(p, to),
         UNCHANGED <<mode, rev, edited, changed, generation, input, history>>
  PROVE  Inv'
<1>1. CASE activeBuild.status = "failed"
  BY <1>1 DEF FailParticipant, coordinator, Inv, TypeOK, BuildInv, HasContributed,
              BaselineInv, Goes
<1>2. CASE activeBuild.status # "failed"
  <2> DEFINE a == IF IsTerminal THEN NewBuild({}) ELSE activeBuild
             b == [a EXCEPT !.dirty = @ \union {p}]
             c == [b EXCEPT !.status = IF @ = "open" THEN "failed" ELSE @]
  <2>1. activeBuild' = c /\ Remember(b) /\ UNCHANGED <<localGenerations, lastSuccessful>>
        /\ nextLogicalGeneration' = nextLogicalGeneration + (IF IsTerminal THEN 1 ELSE 0)
    BY <1>2 DEF FailParticipant
  <2>2. BuildInv(a, published, pendingRecovery)
    BY NewBuildInv DEF Inv
  <2>3. /\ b \in Build /\ c \in Build /\ c.id = a.id /\ c.contributions = a.contributions
        /\ c.status = IF a.status = "open" THEN "failed" ELSE a.status
    BY <2>2 DEF BuildInv, Build
  <2>4. BuildInv(c, published, pendingRecovery')
    <3> HIDE DEF a, b, c
    <3> QED
      BY <2>2, <2>3, MarkedInv
  <2>5. a.id < nextLogicalGeneration' /\ nextLogicalGeneration' \in Nat
    BY <2>1, NewBuildInv DEF Inv, TypeOK, Build
  <2> HIDE DEF a, b, c
  <2>6. TypeOK'
    <3>1. compiler' \in [Participants ->
                           {"idle", "waiting", "compiling", "uploading", "failing"}]
      BY DEF Goes, Inv, TypeOK
    <3> QED
      BY <2>1, <2>3, <2>5, <3>1, RememberType DEF Inv, TypeOK
  <2> QED
    BY <2>1, <2>4, <2>6 DEF Inv, BaselineInv
<1> QED
  BY <1>1, <1>2

(* Lemma: a step that leaves the builds alone keeps the invariant. *)
LEMMA OtherStep ==
  ASSUME Inv, TypeOK', UNCHANGED <<lastSuccessful, published>>,
         \/ UNCHANGED <<activeBuild, pendingRecovery>>
         \/ UNCHANGED activeBuild /\ activeBuild.status # "open"
  PROVE  Inv'
<1>1. BuildInv(activeBuild, published, pendingRecovery')
  BY MarkedInv DEF Inv, TypeOK
<1> QED
  BY <1>1 DEF Inv, BaselineInv

(* Lemma: a step that marks compilers in the active build, or in a new one *)
(* that takes its place, keeps the invariant.                              *)
LEMMA MarkStep ==
  ASSUME Inv, NEW opens \in BOOLEAN, NEW D \in SUBSET Participants,
         NEW b, b = IF opens THEN NewBuild(D) ELSE activeBuild,
         NEW K \in SUBSET Files, NEW E \in SUBSET Participants,
         NEW S \in SUBSET Participants,
         activeBuild' = [b EXCEPT !.keys = @ \union K, !.dirty = @ \union E,
                                  !.started = @ \union S],
         nextLogicalGeneration' = nextLogicalGeneration + (IF opens THEN 1 ELSE 0),
         UNCHANGED <<lastSuccessful, published, pendingRecovery>>
  PROVE  /\ BuildInv(activeBuild', published', pendingRecovery')
         /\ activeBuild' \in Build
         /\ nextLogicalGeneration' \in Nat
         /\ activeBuild'.id < nextLogicalGeneration'
         /\ BaselineInv'
         /\ b.id \in Int
<1>1. BuildInv(b, published, pendingRecovery)
  BY NewBuildInv DEF Inv
<1>2. activeBuild' \in Build /\ b \in Build
  BY <1>1 DEF BuildInv, Build
<1>3. /\ activeBuild'.id = b.id /\ activeBuild'.status = b.status
      /\ activeBuild'.contributions = b.contributions
      /\ b.dirty \subseteq activeBuild'.dirty
  BY <1>1 DEF BuildInv, Build
<1>4. BuildInv(activeBuild', published, pendingRecovery)
  BY <1>1, <1>2, <1>3, MarkedInv, ZenonT(60)
<1>5. b.id < nextLogicalGeneration' /\ nextLogicalGeneration' \in Nat /\ b.id \in Int
  BY NewBuildInv, <1>2 DEF Inv, TypeOK, Build
<1> QED
  BY <1>2, <1>3, <1>4, <1>5 DEF Inv, BaselineInv

(* Lemma: what the compilers do in a step has its type. *)
LEMMA CompilerType ==
  ASSUME TypeOK, NEW p \in Participants,
         NEW to \in {"idle", "waiting", "compiling", "uploading", "failing"}, Goes(p, to)
  PROVE  compiler' \in [Participants ->
                           {"idle", "waiting", "compiling", "uploading", "failing"}]
BY DEF TypeOK, Goes

(* Lemma: what the start of a compilation changes has its type. *)
LEMMA CompilesType ==
  ASSUME TypeOK, NEW p \in Participants, Compiles(p)
  PROVE  /\ generation' \in [Participants -> Nat]
         /\ input' \in [Participants -> 0 .. MaxEdits]
         /\ changed' \in [Participants -> SUBSET Files]
         /\ UNCHANGED <<mode, rev, edited>>
         /\ StillRejected(p) \in [Participants -> SUBSET Int]
BY DEF TypeOK, Compiles, StillRejected

(* Lemma: an edit keeps the invariant. *)
LEMMA EditStep == ASSUME Inv, NEW f \in Files, Edit(f) PROVE Inv'
<1>1. rev + 1 \in 0 .. MaxEdits
  BY CoordinatorAssumption DEF Inv, TypeOK, Edit
<1>2. edited' \in [Files -> 0 .. MaxEdits] /\ changed' \in [Participants -> SUBSET Files]
  BY <1>1 DEF Inv, TypeOK, Edit
<1>3. TypeOK'
  BY <1>1, <1>2 DEF Inv, TypeOK, Edit, coordinator
<1> QED
  BY <1>3, OtherStep DEF Edit, coordinator

(* Lemma: the invalid hook keeps the invariant. *)
LEMMA InvalidateStep ==
  ASSUME Inv, NEW p \in Participants, NEW f \in Files, InvalidateParticipant(p, f)
  PROVE  Inv'
<1> DEFINE opens == Opens(p, f)
           b == IF opens THEN NewBuild({}) ELSE activeBuild
           E == {q \in Affected(p, f) : ~ (Joins(f) /\ HasContributed(b, q))}
<1>1. activeBuild' = [b EXCEPT !.keys = @ \union {f}, !.dirty = @ \union E]
  BY DEF InvalidateParticipant, OpenInvalidationBatch
<1>2. b \in Build
  BY NewBuildInv DEF Inv, BuildInv
<1>3. activeBuild' = [b EXCEPT !.keys = @ \union {f}, !.dirty = @ \union E,
                               !.started = @ \union {}]
  <2> HIDE DEF b, E
  <2> QED
    BY <1>1, <1>2 DEF Build
<1>4. E \in SUBSET Participants
  BY CoordinatorAssumption DEF Affected
<1>5. opens \in BOOLEAN
  BY DEF Opens
<1>6. /\ nextLogicalGeneration' = nextLogicalGeneration + (IF opens THEN 1 ELSE 0)
      /\ UNCHANGED <<lastSuccessful, published, pendingRecovery>>
  BY DEF InvalidateParticipant, OpenInvalidationBatch
<1>7. /\ BuildInv(activeBuild', published', pendingRecovery') /\ activeBuild' \in Build
      /\ nextLogicalGeneration' \in Nat /\ activeBuild'.id < nextLogicalGeneration'
      /\ BaselineInv'
  <2>1. b = IF opens THEN NewBuild({}) ELSE activeBuild
    OBVIOUS
  <2>2. {} \in SUBSET Participants /\ {f} \in SUBSET Files
    OBVIOUS
  <2> HIDE DEF b, E, opens
  <2> QED
    BY <1>3, <1>4, <1>5, <1>6, <2>1, <2>2, MarkStep
<1>8. TypeOK'
  <2>1. reported' \in [Participants -> 0 .. MaxEdits]
    BY DEF InvalidateParticipant, OpenInvalidationBatch, Inv, TypeOK
  <2>2. compiler' \in [Participants ->
                          {"idle", "waiting", "compiling", "uploading", "failing"}]
    BY CompilerType DEF InvalidateParticipant, Inv
  <2> QED
    BY <1>7, <2>1, <2>2 DEF InvalidateParticipant, Inv, TypeOK
<1> QED
  BY <1>7, <1>8 DEF Inv

(* Lemma: a compilation that starts keeps the invariant. *)
LEMMA BeginStep ==
  ASSUME Inv, NEW p \in Participants, BeginParticipant(p)
  PROVE  Inv'
<1> DEFINE again == ~ IsTerminal /\ p \in activeBuild.started
           opens == IsTerminal \/ again
           D == IF again THEN activeBuild.dirty ELSE {}
           b == IF opens THEN NewBuild(D) ELSE activeBuild
<1>1. /\ activeBuild' = [b EXCEPT !.dirty = @ \union {p}, !.started = @ \union {p}]
      /\ localGenerations' =
           [localGenerations EXCEPT ![p] = [local |-> generation[p], logical |-> b.id]]
  BY DEF BeginParticipant
<1>2. D \in SUBSET Participants /\ opens \in BOOLEAN
  BY DEF Inv, TypeOK, Build, IsTerminal
<1>3. b \in Build
  <2> HIDE DEF D
  <2> QED
    BY <1>2, NewBuildInv DEF Inv, BuildInv
<1>4. activeBuild' = [b EXCEPT !.keys = @ \union {}, !.dirty = @ \union {p},
                               !.started = @ \union {p}]
  <2> HIDE DEF b
  <2> QED
    BY <1>1, <1>3 DEF Build
<1>5. /\ nextLogicalGeneration' = nextLogicalGeneration + (IF opens THEN 1 ELSE 0)
      /\ UNCHANGED <<lastSuccessful, published, pendingRecovery>>
  BY DEF BeginParticipant
<1>6. /\ BuildInv(activeBuild', published', pendingRecovery') /\ activeBuild' \in Build
      /\ nextLogicalGeneration' \in Nat /\ activeBuild'.id < nextLogicalGeneration'
      /\ BaselineInv' /\ b.id \in Int
  <2>1. b = IF opens THEN NewBuild(D) ELSE activeBuild
    OBVIOUS
  <2>2. {} \in SUBSET Files /\ {p} \in SUBSET Participants
    OBVIOUS
  <2> HIDE DEF b, D, opens
  <2> QED
    BY <1>2, <1>4, <1>5, <2>1, <2>2, MarkStep
<1>7. TypeOK'
  <2> HIDE DEF b, D, opens
  <2>1. localGenerations' \in [Participants -> [local: Int, logical: Int]]
    <3>1. [local |-> generation[p], logical |-> b.id] \in [local: Int, logical: Int]
      BY <1>6 DEF Inv, TypeOK
    <3> QED
      BY <1>1, <3>1 DEF Inv, TypeOK
  <2>2. compiler' \in [Participants ->
                          {"idle", "waiting", "compiling", "uploading", "failing"}]
    BY CompilerType DEF BeginParticipant, Inv
  <2>3. UNCHANGED <<history, lastSuccessful, pendingRecovery>>
        /\ Compiles(p) /\ rejectedLocalGenerations' = StillRejected(p)
    BY DEF BeginParticipant
  <2> QED
    BY <1>6, <2>1, <2>2, <2>3, CompilesType DEF Inv, TypeOK
<1> QED
  BY <1>6, <1>7 DEF Inv

(* Lemma: a compilation that is refused keeps the invariant. *)
LEMMA RefusedStep ==
  ASSUME Inv, NEW p \in Participants,
         \/ BeginRejected(p)
         \/ BeginRefused(p)
         \/ \E f \in Files : InvalidateRefused(p, f)
  PROVE  Inv'
<1>1. CASE BeginRejected(p)
  <2>1. PICK to \in {"failing", "idle"} : Goes(p, to)
    BY <1>1 DEF BeginRejected
  <2>2. /\ activeBuild' \in Build /\ activeBuild'.id = activeBuild.id
        /\ activeBuild'.contributions = activeBuild.contributions
        /\ activeBuild'.dirty = activeBuild.dirty
        /\ activeBuild'.status = IF activeBuild.status = "open" THEN "aborted"
                                 ELSE activeBuild.status
    BY <1>1 DEF BeginRejected, Inv, TypeOK, Build
  <2>3. BuildInv(activeBuild', published, pendingRecovery)
    BY <2>2, MarkedInv DEF Inv
  <2>4. rejectedLocalGenerations' \in [Participants -> SUBSET Int]
    BY <1>1 DEF BeginRejected, Inv, TypeOK
  <2>5. dropped' \subseteq Participants
    BY <1>1 DEF BeginRejected, Inv, TypeOK, Build
  <2>6. TypeOK'
    BY <1>1, <2>1, <2>2, <2>4, <2>5, CompilerType, CompilesType DEF BeginRejected, Inv, TypeOK
  <2> QED
    BY <1>1, <2>3, <2>6 DEF Inv, BaselineInv, BeginRejected
<1>2. CASE BeginRefused(p)
  <2>1. PICK to \in {"failing", "idle"} : Goes(p, to)
    BY <1>2 DEF BeginRefused
  <2>2. TypeOK'
    BY <1>2, <2>1, CompilerType, CompilesType DEF BeginRefused, Inv, TypeOK, Build
  <2> QED
    BY <1>2, <2>2, OtherStep DEF BeginRefused
<1>3. CASE \E f \in Files : InvalidateRefused(p, f)
  <2>1. TypeOK'
    BY <1>3, CompilerType DEF InvalidateRefused, Inv, TypeOK, Build
  <2> QED
    BY <1>3, <2>1, OtherStep DEF InvalidateRefused
<1> QED
  BY <1>1, <1>2, <1>3

(* Lemma: the build that a contribution leaves holds the outputs it had,   *)
(* the new one, and no others.                                             *)
LEMMA ContributedInv ==
  ASSUME Inv, NEW p \in Participants, ~ IsStale(p), activeBuild.status = "open"
  PROVE  /\ BuildInv(Contributed(p), published, pendingRecovery)
         /\ Contributed(p).id = activeBuild.id
         /\ Contributed(p).status = "open"
<1> DEFINE b == Contributed(p)
           new == [rev |-> input[p], logical |-> activeBuild.id]
<1>1. activeBuild \in Build /\ new \in Output /\ new # NoOutput
  BY Nothing DEF Inv, TypeOK, Build, Output, NoOutput
<1>2. /\ b \in Build /\ b.id = activeBuild.id /\ b.status = "open"
      /\ b.dirty = activeBuild.dirty \ {p}
      /\ b.contributions = [activeBuild.contributions EXCEPT ![p] = new]
  BY <1>1 DEF Contributed, Build
<1>3. \A q \in Participants :
        b.contributions[q] = IF q = p THEN new ELSE activeBuild.contributions[q]
  BY <1>1, <1>2 DEF Build
<1> HIDE DEF b
<1>4. BuildInv(b, published, pendingRecovery)
  BY <1>1, <1>2, <1>3 DEF Inv, BuildInv, HasContributed
<1> QED
  BY <1>2, <1>4 DEF b

(* Lemma: carrying over fills the gaps with published outputs. *)
LEMMA CarriedInv ==
  ASSUME Inv, NEW b, BuildInv(b, published, pendingRecovery)
  PROVE  /\ WithCarried(b) \in Build
         /\ WithCarried(b).id = b.id
         /\ WithCarried(b).dirty = b.dirty
         /\ \A q \in Participants :
              /\ HasContributed(b, q) =>
                   WithCarried(b).contributions[q] = b.contributions[q]
              /\ HasContributed(WithCarried(b), q) =>
                   WithCarried(b).contributions[q].logical \in published \union {b.id}
<1>1. b \in Build
  BY DEF BuildInv
<1>2. [q \in Participants |-> IF b.contributions[q] = NoOutput THEN lastSuccessful[q]
                             ELSE b.contributions[q]] \in [Participants -> Output]
  BY <1>1 DEF Build, Inv, TypeOK
<1>3. /\ WithCarried(b) \in Build /\ WithCarried(b).id = b.id
      /\ WithCarried(b).dirty = b.dirty
      /\ WithCarried(b).contributions =
           [q \in Participants |-> IF b.contributions[q] = NoOutput THEN lastSuccessful[q]
                                  ELSE b.contributions[q]]
  BY <1>1, <1>2 DEF WithCarried, Build
<1> QED
  BY <1>3 DEF BuildInv, HasContributed, Inv, BaselineInv

(* Lemma: what a contribution does to the active build: it stays open, or  *)
(* its upload starts with an output of everyone, the recovering ones' own. *)
LEMMA ContributeEffect ==
  ASSUME Inv, NEW p \in Participants, Contribute(p)
  PROVE  /\ BuildInv(activeBuild', published, pendingRecovery)
         /\ activeBuild'.id = activeBuild.id
         /\ activeBuild'.status = "uploading" =>
              \A q \in pendingRecovery : activeBuild'.contributions[q].logical = activeBuild.id
<1> DEFINE b == Contributed(p)
<1>1. BuildInv(b, published, pendingRecovery) /\ b.id = activeBuild.id /\ b.status = "open"
  BY ContributedInv DEF Contribute
<1>2. \/ activeBuild' = b
      \/ MayPublish(b) /\ activeBuild' = [WithCarried(b) EXCEPT !.status = "uploading"]
  BY DEF Contribute
<1> HIDE DEF b
<1>3. CASE activeBuild' = b
  BY <1>1, <1>3
<1>4. CASE MayPublish(b) /\ activeBuild' = [WithCarried(b) EXCEPT !.status = "uploading"]
  <2>1. WithCarried(b) \in Build
    BY <1>1, CarriedInv
  <2>2. /\ activeBuild' \in Build /\ activeBuild'.status = "uploading"
        /\ activeBuild'.id = b.id
        /\ activeBuild'.contributions = WithCarried(b).contributions
    BY <1>1, <1>4, <2>1, CarriedInv DEF Build
  <2>3. \A q \in Participants :
          /\ HasContributed(activeBuild', q)
          /\ activeBuild'.contributions[q].logical \in published \union {b.id}
          /\ HasContributed(b, q) => activeBuild'.contributions[q] = b.contributions[q]
    BY <1>1, <1>4, <2>2, CarriedInv DEF MayPublish, HasContributed
  <2>4. \A q \in pendingRecovery : q \in Participants /\ HasContributed(b, q)
    BY <1>1, <1>4 DEF MayPublish, BuildInv, Inv, TypeOK
  <2>5. \A q \in pendingRecovery : activeBuild'.contributions[q].logical = b.id
    BY <1>1, <2>3, <2>4 DEF BuildInv
  <2> QED
    BY <1>1, <2>2, <2>3, <2>5 DEF BuildInv
<1> QED
  BY <1>2, <1>3, <1>4

(* Lemma: a contribution keeps the invariant. *)
LEMMA ContributeStep ==
  ASSUME Inv, NEW p \in Participants, Contribute(p)
  PROVE  Inv'
<1>1. \E to \in {"idle", "uploading"} : Goes(p, to)
  BY DEF Contribute
<1>2. activeBuild' \in Build
  BY ContributeEffect DEF BuildInv
<1>3. TypeOK'
  BY <1>1, <1>2, ContributeEffect, CompilerType DEF Contribute, Inv, TypeOK
<1> QED
  BY <1>3, ContributeEffect DEF Contribute, Inv, BaselineInv

(* Lemma: a contribution that throws keeps the invariant. *)
LEMMA ContributeRejectedStep ==
  ASSUME Inv, NEW p \in Participants, ContributeRejected(p)
  PROVE  Inv'
<1>1. compiler' \in [Participants ->
                       {"idle", "waiting", "compiling", "uploading", "failing"}]
  BY CompilerType DEF ContributeRejected, Inv
<1>2. CASE UNCHANGED coordinator
  <2>1. TypeOK'
    BY <1>1, <1>2 DEF ContributeRejected, coordinator, Inv, TypeOK
  <2> QED
    BY <1>2, <2>1, OtherStep DEF ContributeRejected, coordinator
<1>3. CASE /\ activeBuild.status # "open"
           /\ Remember(activeBuild)
           /\ UNCHANGED <<activeBuild, nextLogicalGeneration, localGenerations, lastSuccessful>>
  <2>1. TypeOK'
    BY <1>1, <1>3, RememberType DEF ContributeRejected, Inv, TypeOK
  <2> QED
    BY <1>3, <2>1, OtherStep DEF ContributeRejected
<1> QED
  BY <1>2, <1>3 DEF ContributeRejected

(* Lemma: the end of an upload keeps the invariant. *)
LEMMA PublishStep ==
  ASSUME Inv, NEW p \in Participants, PublishSucceeds(p) \/ PublishFails(p)
  PROVE  Inv'
<1>1. compiler' \in [Participants ->
                       {"idle", "waiting", "compiling", "uploading", "failing"}]
  BY CompilerType DEF PublishSucceeds, PublishFails, Inv
<1>2. /\ activeBuild' \in Build /\ activeBuild'.id = activeBuild.id
      /\ activeBuild'.contributions = activeBuild.contributions
      /\ activeBuild'.status \in {"published", "failed"}
  BY DEF PublishSucceeds, PublishFails, Inv, TypeOK, Build
<1>3. CASE PublishSucceeds(p)
  <2>1. BuildInv(activeBuild', published', pendingRecovery')
    BY <1>2, <1>3 DEF PublishSucceeds, Inv, BuildInv, HasContributed
  <2>2. BaselineInv'
    BY <1>3 DEF PublishSucceeds, Inv, BuildInv, HasContributed, BaselineInv
  <2>3. activeBuild.id \in Int /\ activeBuild.contributions \in [Participants -> Output]
    BY DEF Inv, TypeOK, Build
  <2>4. TypeOK'
    BY <1>1, <1>2, <1>3, <2>3 DEF PublishSucceeds, Inv, TypeOK
  <2> QED
    BY <2>1, <2>2, <2>4 DEF Inv
<1>4. CASE PublishFails(p)
  <2>1. BuildInv(activeBuild', published, pendingRecovery')
    BY <1>2, MarkedInv DEF Inv
  <2>2. activeBuild \in Build
    BY DEF Inv, TypeOK
  <2>3. TypeOK'
    BY <1>1, <1>2, <1>4, <2>2, RememberType DEF PublishFails, Inv, TypeOK
  <2> QED
    BY <1>4, <2>1, <2>3 DEF PublishFails, Inv, BaselineInv
<1> QED
  BY <1>3, <1>4

(* Lemma: a compilation or an upload that fails keeps the invariant. *)
LEMMA FailureStep ==
  ASSUME Inv, NEW p \in Participants,
         CompilationHasErrors(p) \/ CompilationBreaks(p) \/ Failed(p)
  PROVE  Inv'
<1>1. CASE CompilationHasErrors(p) \/ Failed(p)
  BY <1>1, FailStep DEF CompilationHasErrors, Failed
<1>2. CASE CompilationBreaks(p)
  <2>1. TypeOK'
    BY <1>2, CompilerType DEF CompilationBreaks, coordinator, Inv, TypeOK
  <2> QED
    BY <1>2, <2>1, OtherStep DEF CompilationBreaks, coordinator
<1> QED
  BY <1>1, <1>2

(* Lemma: every step keeps the invariant. *)
LEMMA NextInv == Inv /\ [Next]_vars => Inv'
<1> SUFFICES ASSUME Inv, [Next]_vars PROVE Inv'
  OBVIOUS
<1>1. CASE \E f \in Files : Edit(f)
  BY <1>1, EditStep
<1>2. ASSUME NEW p \in Participants, Watcher(p) PROVE Inv'
  BY <1>2, InvalidateStep, RefusedStep DEF Watcher
<1>3. ASSUME NEW p \in Participants, Begins(p) PROVE Inv'
  BY <1>3, BeginStep, RefusedStep DEF Begins
<1>4. ASSUME NEW p \in Participants, Finishes(p) PROVE Inv'
  BY <1>4, ContributeStep, ContributeRejectedStep DEF Finishes
<1>5. ASSUME NEW p \in Participants, PublishSucceeds(p) \/ PublishFails(p) PROVE Inv'
  BY <1>5, PublishStep
<1>6. ASSUME NEW p \in Participants,
             CompilationHasErrors(p) \/ CompilationBreaks(p) \/ Failed(p)
      PROVE  Inv'
  BY <1>6, FailureStep
<1>7. CASE UNCHANGED vars
  BY <1>7 DEF vars, external, coordinator, Inv, TypeOK, BuildInv, HasContributed, BaselineInv
<1> QED
  BY <1>1, <1>2, <1>3, <1>4, <1>5, <1>6, <1>7 DEF Next

-----------------------------------------------------------------------------
(* The invariant holds in every reachable state. *)
THEOREM Invariance == Spec => []Inv
<1> QED
  BY InitInv, NextInv, PTL DEF Spec

(* Every variable of the coordinator keeps its type. *)
THEOREM TypeCorrect == Spec => []TypeOK
<1>1. Inv => TypeOK
  BY DEF Inv
<1> QED
  BY <1>1, Invariance, PTL

(* The output of a failed or superseded generation is never uploaded:      *)
(* publishIfReady combines outputs of this generation with published ones. *)
THEOREM OnlyGoodOutput == Spec => []NoFailedOutput
<1>1. Inv => NoFailedOutput
  BY DEF Inv, BuildInv, HasContributed, NoFailedOutput, Uploading
<1> QED
  BY <1>1, Invariance, PTL

(* An upload starts only when every compiler that failed since the last    *)
(* success has contributed an output of this very generation.              *)
THEOREM RecoveredOutput == Spec => RecoveryIsOwn
<1>1. ASSUME Inv, [Next]_vars, ~ Uploading, Uploading'
      PROVE  \A p \in pendingRecovery :
               activeBuild'.contributions[p].logical = activeBuild'.id
  <2>1. CASE \E p \in Participants : Contribute(p)
    BY <2>1, <1>1, ContributeEffect DEF Uploading
  <2>2. CASE ~ \E p \in Participants : Contribute(p)
    <3>1. \A D \in SUBSET Participants : NewBuild(D).status = "open" /\ NewBuild(D) \in Build
      BY <1>1, NewBuildInv DEF BuildInv
    <3>2. activeBuild \in Build
      BY <1>1 DEF Inv, TypeOK
    <3>3. activeBuild'.status # "uploading"
      <4>1. CASE UNCHANGED activeBuild
        BY <4>1, <1>1 DEF Uploading
      <4>2. ASSUME NEW p \in Participants, NEW f \in Files, InvalidateParticipant(p, f)
            PROVE  activeBuild'.status # "uploading"
        BY <1>1, <3>1, <3>2, <4>2
           DEF InvalidateParticipant, OpenInvalidationBatch, Uploading, Build
      <4>3. ASSUME NEW p \in Participants, BeginParticipant(p)
            PROVE  activeBuild'.status # "uploading"
        <5>1. activeBuild.dirty \in SUBSET Participants
          BY <3>2 DEF Build
        <5> QED
          BY <1>1, <3>1, <3>2, <4>3, <5>1 DEF BeginParticipant, Uploading, Build
      <4>4. ASSUME NEW p \in Participants,
                   BeginRejected(p) \/ PublishSucceeds(p) \/ PublishFails(p)
            PROVE  activeBuild'.status # "uploading"
        BY <1>1, <3>2, <4>4
           DEF BeginRejected, PublishSucceeds, PublishFails, Uploading, Build
      <4>5. ASSUME NEW p \in Participants, FailParticipant(p)
            PROVE  activeBuild'.status # "uploading"
        BY <1>1, <3>1, <3>2, <4>5 DEF FailParticipant, coordinator, Uploading, Build
      <4> QED
        BY <1>1, <2>2, <4>1, <4>2, <4>3, <4>4, <4>5
           DEF Next, vars, external, coordinator, Edit, Watcher, InvalidateRefused, Begins,
               BeginRefused, Finishes, ContributeRejected, CompilationHasErrors,
               CompilationBreaks, Failed
    <3> QED
      BY <1>1, <3>3 DEF Uploading
  <2> QED
    BY <2>1, <2>2
<1>2. Inv /\ [Next]_vars =>
        [~ Uploading /\ Uploading' =>
           \A p \in pendingRecovery :
             activeBuild'.contributions[p].logical = activeBuild'.id]_vars
  BY <1>1
<1> QED
  BY <1>2, Invariance, PTL DEF Spec, RecoveryIsOwn

-----------------------------------------------------------------------------
(* Freshness.  While edits wait for the compilers, a compiler starts once  *)
(* after an edit at most.  Whoever has published something older than a    *)
(* reported change is awaited by the active build, or recovers.            *)

Open == activeBuild.status = "open"

(* What p published last is older than a change that was reported, and no  *)
(* aborted batch is to blame.                                              *)
Behind(p) == /\ lastSuccessful[p] # NoOutput
             /\ lastSuccessful[p].rev < reported[p]
             /\ p \notin dropped

(* The compiler that awaits an upload is one, and the upload is under way. *)
UploadInv ==
  \A p \in Participants :
    compiler[p] = "uploading" =>
      Uploading /\ \A q \in Participants : compiler[q] = "uploading" => q = p

(* Who compiles for the active build has started in it.                    *)
OwnInv ==
  \A p \in Participants :
    /\ localGenerations[p].logical < nextLogicalGeneration
    /\ ~ IsTerminal /\ ~ IsStale(p) => p \in activeBuild.started

(* Only the last edit is still to be reported, it is what compilers read,  *)
(* and only those it concerns compile.                                     *)
RoundInv ==
  /\ \A f \in Files : edited[f] <= rev
  /\ \A p \in Participants : reported[p] <= rev
  /\ \A f, g \in Files : edited[f] = rev /\ edited[g] = rev /\ rev # 0 => f = g
  /\ \A p \in Participants : \A f \in changed[p] :
       edited[f] = rev /\ rev # 0 /\ p \in Reads[f]
  /\ \A p \in Participants : compiler[p] = "compiling" => input[p] = rev
  /\ \A p \in Participants : compiler[p] \in {"waiting", "compiling"} =>
       \A f \in Files : edited[f] = rev /\ rev # 0 => p \in Reads[f]

(* A build under way is of this round.                                     *)
JoinedInv ==
  ~ IsTerminal =>
    /\ \A p \in Participants :
         compiler[p] = "waiting" \/ changed[p] # {} => p \notin activeBuild.started
    /\ \A f \in activeBuild.keys : \A q \in Reads[f] : reported[q] >= edited[f]
    /\ Open =>
         \A p \in Participants : HasContributed(activeBuild, p) =>
           p \in activeBuild.started /\ activeBuild.contributions[p].rev = rev

BehindInv ==
  \A p \in Participants : Behind(p) =>
    \/ p \in pendingRecovery
    \/ Open /\ (p \in activeBuild.dirty \/ HasContributed(activeBuild, p))
    \/ Uploading /\ p \in activeBuild.started

(* Whom the last edit does not concern and is behind recovers.             *)
UntouchedInv ==
  \A f \in Files : edited[f] = rev /\ rev # 0 =>
    \A q \in Participants \ Reads[f] : Behind(q) => q \in pendingRecovery

(* What is uploaded is fresh.                                              *)
UploadIsFresh ==
  Uploading =>
    \A p \in Participants \ dropped : activeBuild.contributions[p].rev >= reported[p]

QuietInv == /\ UploadInv /\ OwnInv /\ RoundInv /\ JoinedInv
            /\ BehindInv /\ UntouchedInv /\ UploadIsFresh

FreshInv == mode # "busy" => QuietInv

(* Lemma: revisions are numbers. *)
LEMMA Revisions ==
  ASSUME Inv
  PROVE  /\ rev \in Nat
         /\ edited \in [Files -> Nat]
         /\ reported \in [Participants -> Nat]
         /\ \A p \in Participants : lastSuccessful[p].rev \in Int
         /\ \A p \in Participants : activeBuild.contributions[p].rev \in Int
         /\ nextLogicalGeneration \in Nat
         /\ activeBuild \in Build
<1>1. activeBuild \in Build /\ lastSuccessful \in [Participants -> Output]
  BY DEF Inv, TypeOK
<1>2. \A o \in Output : o.rev \in Int
  BY Nothing DEF Output
<1>3. \A p \in Participants : lastSuccessful[p] \in Output /\ activeBuild.contributions[p] \in Output
  BY <1>1 DEF Build
<1>4. \A i \in 0 .. MaxEdits : i \in Nat
  BY Nothing
<1>5. /\ rev \in 0 .. MaxEdits /\ edited \in [Files -> 0 .. MaxEdits]
      /\ reported \in [Participants -> 0 .. MaxEdits] /\ nextLogicalGeneration \in Nat
  BY DEF Inv, TypeOK
<1> QED
  BY <1>1, <1>2, <1>3, <1>4, <1>5

(* Lemma: what the invalid hook leaves in the active build.                *)
LEMMA InvalidateEffect ==
  ASSUME Inv, NEW p \in Participants, NEW f \in Files, InvalidateParticipant(p, f)
  PROVE  /\ Opens(p, f) =>
              /\ activeBuild.status # "uploading"
              /\ activeBuild'.id = nextLogicalGeneration
              /\ activeBuild'.status = "open"
              /\ activeBuild'.started = {}
              /\ \A q \in Participants : activeBuild'.contributions[q] = NoOutput
              /\ pendingRecovery \subseteq activeBuild'.dirty
              /\ activeBuild'.keys = {f}
              /\ nextLogicalGeneration' = nextLogicalGeneration + 1
         /\ ~ Opens(p, f) =>
              /\ ~ IsTerminal
              /\ activeBuild'.id = activeBuild.id
              /\ activeBuild'.status = activeBuild.status
              /\ activeBuild'.started = activeBuild.started
              /\ activeBuild'.contributions = activeBuild.contributions
              /\ activeBuild.dirty \subseteq activeBuild'.dirty
              /\ activeBuild'.keys = activeBuild.keys \union {f}
              /\ nextLogicalGeneration' = nextLogicalGeneration
              /\ Joins(f) \/ \A q \in Affected(p, f) : ~ HasContributed(activeBuild, q)
         /\ \A q \in Affected(p, f) :
              \/ q \in activeBuild'.dirty
              \/ ~ Opens(p, f) /\ Joins(f) /\ HasContributed(activeBuild, q)
         /\ reported' = [q \in Participants |-> IF q \in Reads[f] THEN edited[f]
                                               ELSE reported[q]]
<1> DEFINE b == IF Opens(p, f) THEN NewBuild({}) ELSE activeBuild
           E == {q \in Affected(p, f) : ~ (Joins(f) /\ HasContributed(b, q))}
<1>1. /\ activeBuild' = [b EXCEPT !.keys = @ \union {f}, !.dirty = @ \union E]
      /\ nextLogicalGeneration' = nextLogicalGeneration + (IF Opens(p, f) THEN 1 ELSE 0)
      /\ reported' = [q \in Participants |-> IF q \in Reads[f] THEN edited[f] ELSE reported[q]]
      /\ ~ (Opens(p, f) /\ CreateRefused)
  BY DEF InvalidateParticipant, OpenInvalidationBatch
<1>2. /\ b \in Build
      /\ Opens(p, f) => /\ b.id = nextLogicalGeneration /\ b.status = "open"
                        /\ b.started = {} /\ b.keys = {}
                        /\ pendingRecovery \subseteq b.dirty
                        /\ \A q \in Participants : b.contributions[q] = NoOutput
      /\ ~ Opens(p, f) => b = activeBuild
  <2>1. NewBuild({}) \in Build
    BY NewBuildInv DEF BuildInv
  <2>2. /\ NewBuild({}).id = nextLogicalGeneration /\ NewBuild({}).status = "open"
        /\ NewBuild({}).started = {} /\ NewBuild({}).keys = {}
        /\ pendingRecovery \subseteq NewBuild({}).dirty
        /\ \A q \in Participants : NewBuild({}).contributions[q] = NoOutput
    BY DEF NewBuild, NoBuild
  <2> QED
    BY <2>1, <2>2 DEF Inv, TypeOK
<1>3. Affected(p, f) \subseteq Participants
  BY CoordinatorAssumption DEF Affected
<1>4. nextLogicalGeneration \in Nat
  BY DEF Inv, TypeOK
<1> HIDE DEF b
<1>5. /\ activeBuild'.id = b.id /\ activeBuild'.status = b.status
      /\ activeBuild'.started = b.started /\ activeBuild'.contributions = b.contributions
      /\ activeBuild'.dirty = b.dirty \union E /\ activeBuild'.keys = b.keys \union {f}
  <2> HIDE DEF E
  <2> QED
    BY <1>1, <1>2 DEF Build
<1>6. \A q \in Affected(p, f) :
        \/ q \in E
        \/ ~ Opens(p, f) /\ Joins(f) /\ HasContributed(activeBuild, q)
  <2> SUFFICES ASSUME NEW q \in Affected(p, f), Joins(f), HasContributed(b, q)
               PROVE  ~ Opens(p, f) /\ HasContributed(activeBuild, q)
    OBVIOUS
  <2>1. ~ Opens(p, f)
    BY <1>2, <1>3 DEF HasContributed
  <2> QED
    BY <1>2, <2>1
<1>7. ~ Opens(p, f) =>
        /\ ~ IsTerminal
        /\ Joins(f) \/ \A q \in Affected(p, f) : ~ HasContributed(activeBuild, q)
  BY DEF Opens
<1> HIDE DEF E
<1> QED
  BY <1>1, <1>2, <1>4, <1>5, <1>6, <1>7 DEF CreateRefused

(* Lemma: what the start of a compilation leaves in the active build.      *)
LEMMA BeginEffect ==
  ASSUME Inv, NEW p \in Participants, BeginParticipant(p),
         IsTerminal \/ p \notin activeBuild.started
  PROVE  /\ IsTerminal =>
              /\ activeBuild'.id = nextLogicalGeneration
              /\ activeBuild'.status = "open"
              /\ activeBuild'.started = {p}
              /\ \A q \in Participants : activeBuild'.contributions[q] = NoOutput
              /\ pendingRecovery \subseteq activeBuild'.dirty
              /\ activeBuild'.keys = {}
              /\ nextLogicalGeneration' = nextLogicalGeneration + 1
         /\ ~ IsTerminal =>
              /\ activeBuild'.id = activeBuild.id
              /\ activeBuild'.status = activeBuild.status
              /\ activeBuild'.started = activeBuild.started \union {p}
              /\ activeBuild'.contributions = activeBuild.contributions
              /\ activeBuild.dirty \subseteq activeBuild'.dirty
              /\ activeBuild'.keys = activeBuild.keys
              /\ nextLogicalGeneration' = nextLogicalGeneration
         /\ localGenerations' =
              [localGenerations EXCEPT ![p] =
                 [local |-> generation[p], logical |-> activeBuild'.id]]
<1> DEFINE b == IF IsTerminal THEN NewBuild({}) ELSE activeBuild
<1>1. /\ activeBuild' = [b EXCEPT !.dirty = @ \union {p}, !.started = @ \union {p}]
      /\ nextLogicalGeneration' = nextLogicalGeneration + (IF IsTerminal THEN 1 ELSE 0)
      /\ localGenerations' =
           [localGenerations EXCEPT ![p] = [local |-> generation[p], logical |-> b.id]]
  BY DEF BeginParticipant
<1>2. /\ b \in Build
      /\ IsTerminal => /\ b.id = nextLogicalGeneration /\ b.status = "open"
                       /\ b.started = {} /\ b.keys = {}
                       /\ pendingRecovery \subseteq b.dirty
                       /\ \A q \in Participants : b.contributions[q] = NoOutput
      /\ ~ IsTerminal => b = activeBuild
  <2>1. NewBuild({}) \in Build
    BY NewBuildInv DEF BuildInv
  <2>2. /\ NewBuild({}).id = nextLogicalGeneration /\ NewBuild({}).status = "open"
        /\ NewBuild({}).started = {} /\ NewBuild({}).keys = {}
        /\ pendingRecovery \subseteq NewBuild({}).dirty
        /\ \A q \in Participants : NewBuild({}).contributions[q] = NoOutput
    BY DEF NewBuild, NoBuild
  <2> QED
    BY <2>1, <2>2 DEF Inv, TypeOK
<1>3. nextLogicalGeneration \in Nat
  BY DEF Inv, TypeOK
<1> HIDE DEF b
<1>4. /\ activeBuild'.id = b.id /\ activeBuild'.status = b.status
      /\ activeBuild'.started = b.started \union {p}
      /\ activeBuild'.contributions = b.contributions
      /\ b.dirty \subseteq activeBuild'.dirty /\ activeBuild'.keys = b.keys
  BY <1>1, <1>2 DEF Build
<1> QED
  BY <1>1, <1>2, <1>3, <1>4

(* Lemma: failParticipant ends the active build, unless it is being        *)
(* uploaded, and remembers who took part in it.                            *)
LEMMA FailEffect ==
  ASSUME Inv, NEW p \in Participants, FailParticipant(p)
  PROVE  /\ UNCHANGED <<localGenerations, lastSuccessful>>
         /\ pendingRecovery \subseteq pendingRecovery'
         /\ nextLogicalGeneration' \in Nat /\ nextLogicalGeneration <= nextLogicalGeneration'
         /\ activeBuild.status # "uploading" =>
              activeBuild'.status \in {"none", "published", "failed", "aborted"}
         /\ activeBuild.status = "open" =>
              /\ activeBuild.dirty \subseteq pendingRecovery'
              /\ activeBuild.started \subseteq pendingRecovery'
         /\ activeBuild.status = "uploading" =>
              /\ activeBuild'.status = "uploading"
              /\ activeBuild'.id = activeBuild.id
              /\ activeBuild'.started = activeBuild.started
              /\ activeBuild'.contributions = activeBuild.contributions
              /\ activeBuild'.keys = activeBuild.keys
<1>0. nextLogicalGeneration \in Nat /\ activeBuild \in Build
  BY DEF Inv, TypeOK
<1>1. CASE activeBuild.status = "failed"
  BY <1>0, <1>1 DEF FailParticipant, coordinator
<1>2. CASE activeBuild.status # "failed"
  <2> DEFINE a == IF IsTerminal THEN NewBuild({}) ELSE activeBuild
             b == [a EXCEPT !.dirty = @ \union {p}]
             c == [b EXCEPT !.status = IF @ = "open" THEN "failed" ELSE @]
  <2>1. /\ activeBuild' = c /\ Remember(b) /\ UNCHANGED <<localGenerations, lastSuccessful>>
        /\ nextLogicalGeneration' = nextLogicalGeneration + (IF IsTerminal THEN 1 ELSE 0)
    BY <1>2 DEF FailParticipant
  <2>2. a \in Build /\ a.status \in {"open", "uploading"}
    BY <1>0, NewBuildInv DEF BuildInv, IsTerminal, Build
  <2>3. ~ IsTerminal => a = activeBuild
    OBVIOUS
  <2>4. /\ b.dirty = a.dirty \union {p} /\ b.started = a.started /\ c.id = a.id
        /\ c.started = a.started /\ c.contributions = a.contributions /\ c.keys = a.keys
        /\ c.status = IF a.status = "open" THEN "failed" ELSE a.status
    <3> HIDE DEF a
    <3> QED
      BY <2>2 DEF Build
  <2>5. pendingRecovery' = pendingRecovery \union b.dirty \union b.started
    BY <2>1 DEF Remember
  <2>6. IsTerminal => a.status = "open"
    BY NewBuildInv
  <2> HIDE DEF a, b, c
  <2> QED
    BY <1>0, <2>1, <2>2, <2>3, <2>4, <2>5, <2>6 DEF IsTerminal, Build
<1> QED
  BY <1>1, <1>2

(* Lemma: an edit keeps freshness: nothing is under way. *)
LEMMA QuietEdit ==
  ASSUME Inv, QuietInv, mode # "busy", NEW f \in Files, Edit(f)
  PROVE  QuietInv'
<1>1. /\ rev' = rev + 1
      /\ edited' = [edited EXCEPT ![f] = rev + 1]
      /\ changed' = [p \in Participants |-> IF p \in Reads[f] THEN changed[p] \union {f}
                                                             ELSE changed[p]]
      /\ UNCHANGED <<compiler, activeBuild, nextLogicalGeneration, localGenerations,
                     pendingRecovery, lastSuccessful, reported, published, dropped>>
      /\ IsTerminal /\ \A p \in Participants : compiler[p] = "idle" /\ changed[p] = {}
  BY DEF Edit, Quiet, coordinator
<1>2. IsTerminal' /\ ~ Open' /\ ~ Uploading' /\ ~ Open /\ ~ Uploading
  BY <1>1 DEF IsTerminal, Open, Uploading
<1>3. UploadInv' /\ OwnInv' /\ JoinedInv' /\ UploadIsFresh'
  BY <1>1, <1>2 DEF QuietInv, UploadInv, OwnInv, JoinedInv, UploadIsFresh
<1>4. RoundInv'
  BY <1>1, Revisions DEF QuietInv, RoundInv
<1>5. \A p \in Participants : Behind(p)' => p \in pendingRecovery'
  BY <1>1, <1>2 DEF QuietInv, BehindInv, Behind
<1>6. BehindInv' /\ UntouchedInv'
  BY <1>5 DEF BehindInv, UntouchedInv
<1> QED
  BY <1>3, <1>4, <1>6 DEF QuietInv

(* Lemma: the report of the last edit keeps freshness: it makes everyone   *)
(* whom the edit concerns dirty, and the others who are behind recover.    *)
LEMMA QuietInvalidate ==
  ASSUME Inv, QuietInv, NEW p \in Participants, NEW f \in Files, InvalidateParticipant(p, f)
  PROVE  QuietInv'
<1>1. /\ compiler[p] = "idle" /\ f \in changed[p] /\ Goes(p, "waiting")
      /\ UNCHANGED <<rev, edited, changed, input, localGenerations, pendingRecovery,
                     lastSuccessful, dropped>>
  BY DEF InvalidateParticipant
<1>2. edited[f] = rev /\ rev # 0
  BY <1>1 DEF QuietInv, RoundInv
<1>3. compiler' = [compiler EXCEPT ![p] = "waiting"]
  BY <1>1 DEF Goes
<1>4. /\ \A q \in Participants : q # p => compiler'[q] = compiler[q]
      /\ compiler'[p] = "waiting"
  BY <1>3 DEF Inv, TypeOK
<1>5. /\ Reads[f] \subseteq Participants /\ Reads[f] \subseteq Affected(p, f)
      /\ p \in Affected(p, f) /\ Affected(p, f) \subseteq Participants
  BY CoordinatorAssumption DEF Affected
<1>6. /\ reported' \in [Participants -> Nat]
      /\ \A q \in Participants : reported'[q] = IF q \in Reads[f] THEN rev ELSE reported[q]
  BY <1>2, InvalidateEffect, Revisions
<1>7. RoundInv'
  BY <1>1, <1>4, <1>6, Revisions DEF QuietInv, RoundInv
<1>8. \A q \in Participants : Behind(q)' /\ q \notin Reads[f] => Behind(q)
  BY <1>1, <1>6 DEF Behind
<1>9. UntouchedInv'
  BY <1>1, <1>2, <1>8 DEF QuietInv, UntouchedInv, RoundInv
<1>10. \A q \in Participants : Behind(q)' /\ q \notin Reads[f] => q \in pendingRecovery'
  BY <1>1, <1>2, <1>8 DEF QuietInv, UntouchedInv
<1>11. CASE Opens(p, f)
  <2>1. /\ activeBuild'.status = "open" /\ activeBuild'.started = {} /\ ~ Uploading /\ ~ Uploading'
        /\ Open' /\ activeBuild'.id = nextLogicalGeneration /\ activeBuild'.keys = {f}
        /\ nextLogicalGeneration' = nextLogicalGeneration + 1
        /\ \A q \in Participants : activeBuild'.contributions[q] = NoOutput
        /\ \A q \in Affected(p, f) : q \in activeBuild'.dirty
    BY <1>11, InvalidateEffect DEF Uploading, Open
  <2>2. UploadInv'
    BY <1>4, <2>1 DEF QuietInv, UploadInv
  <2>3. OwnInv'
    <3>1. localGenerations \in [Participants -> [local: Int, logical: Int]]
      BY DEF Inv, TypeOK
    <3>2. \A q \in Participants : localGenerations[q].logical < nextLogicalGeneration
      BY DEF QuietInv, OwnInv
    <3> QED
      BY <1>1, <2>1, <3>1, <3>2, Revisions DEF OwnInv, IsStale
  <2>4. JoinedInv'
    BY <1>1, <1>2, <1>5, <1>6, <2>1, Revisions DEF JoinedInv, HasContributed
  <2>5. BehindInv'
    BY <1>5, <1>10, <2>1 DEF BehindInv
  <2>6. UploadIsFresh'
    BY <2>1 DEF UploadIsFresh
  <2> QED
    BY <1>7, <1>9, <2>2, <2>3, <2>4, <2>5, <2>6 DEF QuietInv
<1>12. CASE ~ Opens(p, f)
  <2>1. /\ ~ IsTerminal
        /\ activeBuild'.id = activeBuild.id
        /\ activeBuild'.status = activeBuild.status
        /\ activeBuild'.started = activeBuild.started
        /\ activeBuild'.contributions = activeBuild.contributions
        /\ activeBuild.dirty \subseteq activeBuild'.dirty
        /\ activeBuild'.keys = activeBuild.keys \union {f}
        /\ nextLogicalGeneration' = nextLogicalGeneration
        /\ Joins(f) \/ \A q \in Affected(p, f) : ~ HasContributed(activeBuild, q)
        /\ \A q \in Affected(p, f) :
             \/ q \in activeBuild'.dirty
             \/ Joins(f) /\ HasContributed(activeBuild, q)
    BY <1>12, InvalidateEffect
  <2>2. /\ (Uploading' <=> Uploading) /\ (Open' <=> Open) /\ (IsTerminal' <=> IsTerminal)
        /\ \A q \in Participants : HasContributed(activeBuild, q)' <=> HasContributed(activeBuild, q)
    BY <2>1 DEF Uploading, Open, IsTerminal, HasContributed
  <2>3. UploadInv'
    BY <1>4, <2>2 DEF QuietInv, UploadInv
  <2>4. OwnInv'
    BY <1>1, <2>1, <2>2 DEF QuietInv, OwnInv, IsStale
  <2>5. \A q \in Participants : reported[q] <= reported'[q]
    BY <1>2, <1>6, Revisions DEF QuietInv, RoundInv
  <2>6. JoinedInv'
    <3>1. \A q \in Participants :
            compiler'[q] = "waiting" \/ changed'[q] # {} => q \notin activeBuild'.started
      BY <1>1, <1>4, <2>1 DEF QuietInv, JoinedInv
    <3>2. ASSUME NEW g \in activeBuild'.keys, NEW q \in Reads[g]
          PROVE  reported'[q] >= edited'[g]
      <4>1. g \in Files /\ q \in Participants
        BY <2>1, Revisions, CoordinatorAssumption DEF Build
      <4>2. CASE g = f
        BY <1>1, <1>2, <1>6, <3>2, <4>1, <4>2, Revisions
      <4>3. CASE g # f
        <5>1. reported[q] >= edited[g]
          BY <2>1, <3>2, <4>3 DEF QuietInv, JoinedInv
        <5> QED
          BY <1>1, <1>6, <2>5, <4>1, <5>1, Revisions
      <4> QED
        BY <4>2, <4>3
    <3> QED
      BY <1>1, <2>1, <2>2, <3>1, <3>2 DEF QuietInv, JoinedInv
  <2>7. BehindInv'
    <3>1. ASSUME NEW q \in Participants, Behind(q)', q \in Reads[f]
          PROVE  \/ Open' /\ (q \in activeBuild'.dirty \/ HasContributed(activeBuild, q)')
                 \/ Uploading' /\ q \in activeBuild'.started
                 \/ q \in pendingRecovery'
      <4>1. CASE Open
        BY <1>5, <2>1, <2>2, <3>1, <4>1
      <4>2. CASE ~ Open
        <5>1. Uploading
          BY <2>1, <4>2, Revisions DEF Open, Uploading, IsTerminal, Build
        <5>2. \A r \in Participants : HasContributed(activeBuild, r)
          BY <5>1 DEF Inv, BuildInv, Uploading
        <5>3. Joins(f)
          BY <1>5, <2>1, <5>2
        <5>4. reported[q] >= rev
          BY <1>2, <2>1, <3>1, <5>3 DEF QuietInv, JoinedInv, Joins
        <5>5. reported'[q] = reported[q]
          BY <1>6, <3>1, <5>4, Revisions DEF QuietInv, RoundInv
        <5>6. Behind(q)
          BY <1>1, <3>1, <5>5 DEF Behind
        <5> QED
          BY <1>1, <2>1, <2>2, <4>2, <5>6 DEF QuietInv, BehindInv
      <4> QED
        BY <4>1, <4>2
    <3> QED
      BY <1>10, <3>1 DEF BehindInv
  <2>8. UploadIsFresh'
    <3> SUFFICES ASSUME Uploading', NEW q \in Participants, q \notin dropped'
                 PROVE  activeBuild'.contributions[q].rev >= reported'[q]
      BY DEF UploadIsFresh
    <3>1. activeBuild'.contributions[q].rev >= reported[q]
      BY <1>1, <2>1, <2>2 DEF QuietInv, UploadIsFresh
    <3>2. \A r \in Participants : HasContributed(activeBuild, r)
      BY <2>2 DEF Inv, BuildInv, Uploading
    <3>3. Joins(f)
      BY <1>5, <2>1, <3>2
    <3>4. q \in Reads[f] => reported[q] >= rev
      BY <1>2, <2>1, <3>3 DEF QuietInv, JoinedInv, Joins
    <3>5. reported'[q] = reported[q]
      BY <1>6, <3>4, Revisions DEF QuietInv, RoundInv
    <3> QED
      BY <3>1, <3>5
  <2> QED
    BY <1>7, <1>9, <2>3, <2>4, <2>6, <2>7, <2>8 DEF QuietInv
<1> QED
  BY <1>11, <1>12

(* Lemma: what the start of a compilation changes around the coordinator.  *)
LEMMA CompilesEffect ==
  ASSUME Inv, QuietInv, NEW p \in Participants, Compiles(p), compiler' \in [Participants ->
           {"idle", "waiting", "compiling", "uploading", "failing"}],
         \A q \in Participants : q # p => compiler'[q] = compiler[q],
         UNCHANGED reported
  PROVE  /\ RoundInv'
         /\ UNCHANGED <<rev, edited>>
         /\ ~ IsTerminal => p \notin activeBuild.started
         /\ \A q \in Participants : q # p => changed'[q] = changed[q]
         /\ changed'[p] = {}
<1>1. /\ compiler[p] = "waiting" /\ UNCHANGED <<rev, edited>>
      /\ input' = [input EXCEPT ![p] = rev] /\ changed' = [changed EXCEPT ![p] = {}]
  BY DEF Compiles
<1>2. /\ \A q \in Participants : q # p => changed'[q] = changed[q] /\ input'[q] = input[q]
      /\ changed'[p] = {} /\ input'[p] = rev
  BY <1>1 DEF Inv, TypeOK
<1>3. \A q \in Participants : changed'[q] \subseteq changed[q]
  BY <1>2
<1>4. RoundInv'
  BY <1>1, <1>2, <1>3 DEF QuietInv, RoundInv
<1>5. ~ IsTerminal => p \notin activeBuild.started
  BY <1>1 DEF QuietInv, JoinedInv
<1> QED
  BY <1>1, <1>2, <1>4, <1>5

(* Lemma: the start of a compilation keeps freshness: it joins the active  *)
(* build, or opens one that awaits whoever recovers.                       *)
LEMMA QuietBegin ==
  ASSUME Inv, QuietInv, NEW p \in Participants, BeginParticipant(p)
  PROVE  QuietInv'
<1>1. /\ Compiles(p) /\ Goes(p, "compiling")
      /\ UNCHANGED <<pendingRecovery, lastSuccessful, reported, dropped>>
  BY DEF BeginParticipant
<1>2. /\ \A q \in Participants : q # p => compiler'[q] = compiler[q]
      /\ compiler'[p] = "compiling"
      /\ compiler' \in [Participants ->
                          {"idle", "waiting", "compiling", "uploading", "failing"}]
  BY <1>1 DEF Goes, Inv, TypeOK
<1>3. /\ RoundInv' /\ UNCHANGED <<rev, edited>>
      /\ ~ IsTerminal => p \notin activeBuild.started
      /\ \A q \in Participants : q # p => changed'[q] = changed[q]
      /\ changed'[p] = {}
  BY <1>1, <1>2, CompilesEffect
<1>4. \A q \in Participants : Behind(q)' <=> Behind(q)
  BY <1>1 DEF Behind
<1>5. UntouchedInv'
  BY <1>1, <1>3, <1>4 DEF QuietInv, UntouchedInv
<1>6. /\ localGenerations \in [Participants -> [local: Int, logical: Int]]
      /\ \A q \in Participants : localGenerations[q].logical < nextLogicalGeneration
  BY DEF Inv, TypeOK, QuietInv, OwnInv
<1>7. /\ localGenerations'[p].logical = activeBuild'.id
      /\ \A q \in Participants : q # p => localGenerations'[q] = localGenerations[q]
  BY <1>3, <1>6, BeginEffect
<1>8. CASE IsTerminal
  <2>1. /\ activeBuild'.id = nextLogicalGeneration
        /\ activeBuild'.status = "open"
        /\ activeBuild'.started = {p}
        /\ \A q \in Participants : activeBuild'.contributions[q] = NoOutput
        /\ pendingRecovery \subseteq activeBuild'.dirty
        /\ activeBuild'.keys = {}
        /\ nextLogicalGeneration' = nextLogicalGeneration + 1
    BY <1>8, BeginEffect
  <2>2. ~ Open /\ ~ Uploading /\ Open' /\ ~ Uploading'
    BY <1>8, <2>1 DEF Open, Uploading, IsTerminal
  <2>3. UploadInv' /\ UploadIsFresh'
    BY <1>2, <2>2 DEF QuietInv, UploadInv, UploadIsFresh
  <2>4. OwnInv'
    BY <1>6, <1>7, <2>1, Revisions DEF OwnInv, IsStale
  <2>5. JoinedInv'
    BY <1>2, <1>3, <1>8, <2>1 DEF JoinedInv, HasContributed
  <2>6. BehindInv'
    BY <1>1, <1>4, <2>2 DEF QuietInv, BehindInv
  <2> QED
    BY <1>3, <1>5, <2>3, <2>4, <2>5, <2>6 DEF QuietInv
<1>9. CASE ~ IsTerminal
  <2>1. /\ activeBuild'.id = activeBuild.id
        /\ activeBuild'.status = activeBuild.status
        /\ activeBuild'.started = activeBuild.started \union {p}
        /\ activeBuild'.contributions = activeBuild.contributions
        /\ activeBuild.dirty \subseteq activeBuild'.dirty
        /\ activeBuild'.keys = activeBuild.keys
        /\ nextLogicalGeneration' = nextLogicalGeneration
    BY <1>3, <1>9, BeginEffect
  <2>2. /\ (Uploading' <=> Uploading) /\ (Open' <=> Open) /\ (IsTerminal' <=> IsTerminal)
        /\ \A q \in Participants : HasContributed(activeBuild, q)' <=> HasContributed(activeBuild, q)
    BY <2>1 DEF Uploading, Open, IsTerminal, HasContributed
  <2>3. UploadInv' /\ UploadIsFresh'
    BY <1>1, <1>2, <2>1, <2>2 DEF QuietInv, UploadInv, UploadIsFresh
  <2>4. OwnInv'
    <3>1. nextLogicalGeneration > activeBuild.id
      BY DEF Inv, TypeOK
    <3> QED
      BY <1>6, <1>7, <2>1, <2>2, <3>1 DEF QuietInv, OwnInv, IsStale
  <2>5. JoinedInv'
    BY <1>1, <1>2, <1>3, <1>9, <2>1, <2>2 DEF QuietInv, JoinedInv
  <2>6. BehindInv'
    BY <1>1, <1>4, <2>1, <2>2 DEF QuietInv, BehindInv
  <2> QED
    BY <1>3, <1>5, <2>3, <2>4, <2>5, <2>6 DEF QuietInv
<1> QED
  BY <1>8, <1>9

(* Lemma: a rejected compilation that aborts the active build keeps        *)
(* freshness: whoever the build awaited, or had an output of, is dropped.  *)
LEMMA QuietRejected ==
  ASSUME Inv, QuietInv, NEW p \in Participants, BeginRejected(p)
  PROVE  QuietInv'
<1>1. /\ Compiles(p) /\ (Goes(p, "failing") \/ Goes(p, "idle"))
      /\ UNCHANGED <<nextLogicalGeneration, localGenerations, pendingRecovery,
                     lastSuccessful, reported>>
      /\ dropped' = dropped \union (IF activeBuild.status = "open"
                                   THEN activeBuild.dirty \union activeBuild.started ELSE {})
  BY DEF BeginRejected
<1>2. /\ \A q \in Participants : q # p => compiler'[q] = compiler[q]
      /\ compiler'[p] \in {"failing", "idle"}
      /\ compiler' \in [Participants ->
                          {"idle", "waiting", "compiling", "uploading", "failing"}]
  BY <1>1 DEF Goes, Inv, TypeOK
<1>3. /\ RoundInv' /\ UNCHANGED <<rev, edited>>
      /\ \A q \in Participants : q # p => changed'[q] = changed[q]
      /\ changed'[p] = {}
  BY <1>1, <1>2, CompilesEffect
<1>4. /\ activeBuild' \in Build /\ activeBuild'.id = activeBuild.id
      /\ activeBuild'.contributions = activeBuild.contributions
      /\ activeBuild'.started = activeBuild.started /\ activeBuild'.keys = activeBuild.keys
      /\ activeBuild'.status = IF activeBuild.status = "open" THEN "aborted"
                               ELSE activeBuild.status
  BY DEF BeginRejected, Inv, TypeOK, Build
<1>5. ~ Open' /\ (Uploading' <=> Uploading) /\ (~ IsTerminal' => ~ IsTerminal)
  BY <1>4 DEF Open, Uploading, IsTerminal
<1>6. UploadInv'
  BY <1>2, <1>5 DEF QuietInv, UploadInv
<1>7. OwnInv'
  BY <1>1, <1>4, <1>5 DEF QuietInv, OwnInv, IsStale
<1>8. JoinedInv'
  BY <1>1, <1>2, <1>3, <1>4, <1>5 DEF QuietInv, JoinedInv
<1>9. \A q \in Participants : Behind(q)' => Behind(q)
  BY <1>1 DEF Behind
<1>10. UntouchedInv'
  BY <1>1, <1>3, <1>9 DEF QuietInv, UntouchedInv
<1>11. BehindInv'
  <2>1. ASSUME NEW q \in Participants, Behind(q)', Open
        PROVE  q \in pendingRecovery
    <3>1. q \notin activeBuild.dirty /\ q \notin activeBuild.started
      BY <1>1, <2>1 DEF Behind, Open
    <3>2. ~ HasContributed(activeBuild, q)
      BY <2>1, <3>1 DEF QuietInv, JoinedInv, Open, IsTerminal
    <3> QED
      BY <1>9, <2>1, <3>1, <3>2 DEF QuietInv, BehindInv, Open, Uploading
  <2> QED
    BY <1>1, <1>4, <1>5, <1>9, <2>1 DEF QuietInv, BehindInv
<1>12. UploadIsFresh'
  BY <1>1, <1>4, <1>5 DEF QuietInv, UploadIsFresh
<1> QED
  BY <1>3, <1>6, <1>7, <1>8, <1>10, <1>11, <1>12 DEF QuietInv

(* Lemma: a hook that is refused while an upload is under way keeps        *)
(* freshness.                                                              *)
LEMMA QuietRefused ==
  ASSUME Inv, QuietInv, NEW p \in Participants,
         BeginRefused(p) \/ \E f \in Files : InvalidateRefused(p, f)
  PROVE  QuietInv'
<1>1. ~ BeginRefused(p)
  BY DEF BeginRefused, Compiles, CreateRefused, QuietInv, JoinedInv, IsTerminal
<1>2. PICK f \in Files : InvalidateRefused(p, f)
  BY <1>1
<1>3. /\ compiler[p] = "idle" /\ f \in changed[p] /\ Goes(p, "waiting")
      /\ nextLogicalGeneration' = nextLogicalGeneration + 1
      /\ UNCHANGED <<rev, edited, changed, input, activeBuild, localGenerations,
                     pendingRecovery, lastSuccessful, reported, dropped>>
  BY <1>2 DEF InvalidateRefused
<1>4. /\ \A q \in Participants : q # p => compiler'[q] = compiler[q]
      /\ compiler'[p] = "waiting"
  BY <1>3 DEF Goes, Inv, TypeOK
<1>5. /\ (Uploading' <=> Uploading) /\ (Open' <=> Open) /\ (IsTerminal' <=> IsTerminal)
      /\ \A q \in Participants : HasContributed(activeBuild, q)' <=> HasContributed(activeBuild, q)
      /\ \A q \in Participants : Behind(q)' <=> Behind(q)
  BY <1>3 DEF Uploading, Open, IsTerminal, HasContributed, Behind
<1>6. UploadInv' /\ RoundInv' /\ UploadIsFresh'
  BY <1>3, <1>4, <1>5 DEF QuietInv, UploadInv, RoundInv, UploadIsFresh
<1>7. OwnInv'
  <2>1. localGenerations \in [Participants -> [local: Int, logical: Int]]
    BY DEF Inv, TypeOK
  <2> QED
    BY <1>3, <1>5, <2>1, Revisions DEF QuietInv, OwnInv, IsStale
<1>8. JoinedInv'
  BY <1>3, <1>4, <1>5 DEF QuietInv, JoinedInv
<1>9. BehindInv'
  BY <1>3, <1>5 DEF QuietInv, BehindInv
<1>10. UntouchedInv'
  BY <1>3, <1>5 DEF QuietInv, UntouchedInv
<1> QED
  BY <1>6, <1>7, <1>8, <1>9, <1>10 DEF QuietInv

(* Lemma: a contribution keeps freshness: nobody who is behind is          *)
(* represented by what was published before.                               *)
LEMMA QuietContribute ==
  ASSUME Inv, QuietInv, NEW p \in Participants, Contribute(p)
  PROVE  QuietInv'
<1> DEFINE b == Contributed(p)
           new == [rev |-> input[p], logical |-> activeBuild.id]
<1>1. /\ compiler[p] = "compiling" /\ ~ IsStale(p) /\ activeBuild.status = "open"
      /\ UNCHANGED <<rev, edited, changed, input, nextLogicalGeneration, localGenerations,
                     pendingRecovery, lastSuccessful, reported>>
      /\ dropped' = dropped \ {p}
  BY DEF Contribute
<1>2. /\ Open /\ ~ Uploading /\ ~ IsTerminal /\ input[p] = rev /\ p \in activeBuild.started
      /\ \A q \in Participants : compiler[q] # "uploading"
  BY <1>1 DEF QuietInv, OwnInv, RoundInv, UploadInv, Open, Uploading, IsTerminal
<1>3. /\ BuildInv(b, published, pendingRecovery) /\ b.id = activeBuild.id /\ b.status = "open"
      /\ b \in Build
  BY <1>1, ContributedInv DEF BuildInv
<1>4. /\ b.started = activeBuild.started /\ b.keys = activeBuild.keys
      /\ b.dirty = activeBuild.dirty \ {p}
      /\ b.contributions = [activeBuild.contributions EXCEPT ![p] = new]
  <2>1. activeBuild \in Build /\ new \in Output
    BY DEF Inv, TypeOK, Build, Output
  <2> QED
    BY <2>1 DEF Contributed, Build
<1>5. /\ b.contributions[p] = new /\ new # NoOutput /\ new.rev = rev
      /\ \A q \in Participants : q # p => b.contributions[q] = activeBuild.contributions[q]
  BY <1>2, <1>4, Revisions DEF Build, NoOutput
<1>6. \A q \in Participants : HasContributed(b, q) =>
        q \in activeBuild.started /\ b.contributions[q].rev = rev
  BY <1>2, <1>5 DEF QuietInv, JoinedInv, HasContributed
<1>7. \A q \in Participants : Behind(q)' => q = p \/ Behind(q)
  BY <1>1 DEF Behind
<1>8. HasContributed(b, p)
  BY <1>5 DEF HasContributed
<1>9. \A q \in Participants : Behind(q)' => q \in b.dirty \/ HasContributed(b, q)
  <2>1. \A q \in Participants : Behind(q)' =>
          q \in pendingRecovery \/ q \in b.dirty \/ HasContributed(b, q)
    BY <1>2, <1>4, <1>5, <1>7, <1>8 DEF QuietInv, BehindInv, HasContributed
  <2> QED
    BY <1>3, <2>1 DEF BuildInv
<1>10. RoundInv'
  <2>1. \A q \in Participants :
          compiler'[q] \in {"waiting", "compiling"} => compiler'[q] = compiler[q]
    BY DEF Contribute, Goes, Inv, TypeOK
  <2> QED
    BY <1>1, <2>1 DEF QuietInv, RoundInv
<1>11. UntouchedInv'
  <2>1. \A f \in Files : edited[f] = rev /\ rev # 0 => p \in Reads[f]
    BY <1>1 DEF QuietInv, RoundInv
  <2> QED
    BY <1>1, <1>7, <2>1 DEF QuietInv, UntouchedInv
<1>12. \A q \in Participants : /\ (q # p => compiler'[q] = compiler[q])
                               /\ compiler'[q] = "uploading" => q = p
                               /\ compiler'[q] = "waiting" => compiler[q] = "waiting"
  BY <1>2 DEF Contribute, Goes, Inv, TypeOK
<1> HIDE DEF b, new
<1>13. CASE MayPublish(b)
  <2>1. /\ activeBuild' = [WithCarried(b) EXCEPT !.status = "uploading"]
        /\ Goes(p, "uploading")
    BY <1>13 DEF Contribute, b
  <2>2. /\ activeBuild'.status = "uploading" /\ activeBuild'.id = activeBuild.id
        /\ activeBuild'.started = activeBuild.started /\ activeBuild'.keys = activeBuild.keys
        /\ activeBuild'.contributions =
             [q \in Participants |-> IF b.contributions[q] = NoOutput THEN lastSuccessful[q]
                                    ELSE b.contributions[q]]
    <3>1. WithCarried(b) \in Build
      BY <1>3, CarriedInv
    <3>2. /\ WithCarried(b).id = b.id /\ WithCarried(b).started = b.started
          /\ WithCarried(b).keys = b.keys
          /\ WithCarried(b).contributions =
               [q \in Participants |-> IF b.contributions[q] = NoOutput THEN lastSuccessful[q]
                                      ELSE b.contributions[q]]
      <4>1. [q \in Participants |-> IF b.contributions[q] = NoOutput THEN lastSuccessful[q]
                                   ELSE b.contributions[q]] \in [Participants -> Output]
        BY <1>3 DEF Build, Inv, TypeOK
      <4> QED
        BY <1>3, <4>1 DEF WithCarried, Build
    <3> QED
      BY <1>3, <1>4, <2>1, <3>1, <3>2 DEF Build
  <2>3. Uploading' /\ ~ Open' /\ ~ IsTerminal'
    BY <2>2 DEF Uploading, Open, IsTerminal
  <2>4. \A q \in Participants : Behind(q)' => HasContributed(b, q)
    BY <1>9, <1>13 DEF MayPublish
  <2>5. UploadIsFresh'
    <3> SUFFICES ASSUME NEW q \in Participants, q \notin dropped'
                 PROVE  activeBuild'.contributions[q].rev >= reported[q]
      BY <1>1 DEF UploadIsFresh
    <3>1. CASE HasContributed(b, q)
      BY <1>6, <2>2, <3>1, Revisions DEF HasContributed, QuietInv, RoundInv
    <3>2. CASE ~ HasContributed(b, q)
      <4>1. activeBuild'.contributions[q] = lastSuccessful[q]
        BY <2>2, <3>2 DEF HasContributed
      <4>2. lastSuccessful[q] # NoOutput
        BY <1>13, <2>1, <2>2, <3>2, <4>1, CarriedInv, <1>3
           DEF MayPublish, HasContributed, WithCarried, Build
      <4>3. ~ Behind(q)'
        BY <2>4, <3>2
      <4> QED
        BY <1>1, <4>1, <4>2, <4>3, Revisions DEF Behind
    <3> QED
      BY <3>1, <3>2
  <2>6. UploadInv'
    BY <1>12, <2>3 DEF UploadInv
  <2>7. OwnInv'
    BY <1>1, <1>2, <2>2, <2>3 DEF QuietInv, OwnInv, IsStale
  <2>8. JoinedInv'
    BY <1>1, <1>2, <1>12, <2>2, <2>3 DEF QuietInv, JoinedInv
  <2>9. BehindInv'
    BY <1>6, <2>2, <2>3, <2>4 DEF BehindInv
  <2> QED
    BY <1>10, <1>11, <2>5, <2>6, <2>7, <2>8, <2>9 DEF QuietInv
<1>14. CASE ~ MayPublish(b)
  <2>1. activeBuild' = b /\ Goes(p, "idle")
    BY <1>14 DEF Contribute, b
  <2>2. ~ Uploading' /\ Open' /\ ~ IsTerminal'
    BY <1>3, <2>1 DEF Uploading, Open, IsTerminal
  <2>3. \A q \in Participants : compiler'[q] # "uploading"
    BY <1>2, <2>1 DEF Goes, Inv, TypeOK
  <2>4. UploadInv' /\ UploadIsFresh'
    BY <2>2, <2>3 DEF UploadInv, UploadIsFresh
  <2>5. OwnInv'
    BY <1>1, <1>2, <1>3, <1>4, <2>1, <2>2 DEF QuietInv, OwnInv, IsStale
  <2>6. JoinedInv'
    BY <1>1, <1>2, <1>4, <1>6, <1>12, <2>1, <2>2 DEF QuietInv, JoinedInv, HasContributed
  <2>7. BehindInv'
    BY <1>9, <2>1, <2>2 DEF BehindInv, HasContributed
  <2> QED
    BY <1>10, <1>11, <2>4, <2>5, <2>6, <2>7 DEF QuietInv
<1> QED
  BY <1>13, <1>14

(* Lemma: a failure keeps freshness.  If it ends the active build, whoever *)
(* took part in the build recovers; otherwise it leaves the build alone.   *)
LEMMA QuietSettles ==
  ASSUME Inv, QuietInv, NEW p \in Participants, NEW to \in {"failing", "idle"}, Goes(p, to),
         UNCHANGED <<rev, edited, changed, input, localGenerations, lastSuccessful,
                     reported, dropped>>,
         pendingRecovery \subseteq pendingRecovery',
         nextLogicalGeneration' \in Nat, nextLogicalGeneration <= nextLogicalGeneration',
         \/ /\ activeBuild'.status \in {"none", "published", "failed", "aborted"}
            /\ Open => /\ activeBuild.dirty \subseteq pendingRecovery'
                       /\ activeBuild.started \subseteq pendingRecovery'
            /\ Uploading => /\ activeBuild.started \subseteq pendingRecovery'
                            /\ compiler[p] = "uploading"
         \/ /\ activeBuild'.id = activeBuild.id
            /\ activeBuild'.status = activeBuild.status
            /\ activeBuild'.started = activeBuild.started
            /\ activeBuild'.contributions = activeBuild.contributions
            /\ activeBuild'.keys = activeBuild.keys
            /\ Open => UNCHANGED activeBuild
  PROVE  QuietInv'
<1>1. /\ \A q \in Participants : q # p => compiler'[q] = compiler[q]
      /\ compiler'[p] = to
  BY DEF Goes, Inv, TypeOK
<1>2. RoundInv'
  BY <1>1 DEF QuietInv, RoundInv
<1>3. \A q \in Participants : Behind(q)' <=> Behind(q)
  BY DEF Behind
<1>4. UntouchedInv'
  BY <1>3 DEF QuietInv, UntouchedInv
<1>5. /\ localGenerations \in [Participants -> [local: Int, logical: Int]]
      /\ nextLogicalGeneration \in Nat
  BY DEF Inv, TypeOK
<1>6. CASE /\ activeBuild'.status \in {"none", "published", "failed", "aborted"}
           /\ Open => /\ activeBuild.dirty \subseteq pendingRecovery'
                      /\ activeBuild.started \subseteq pendingRecovery'
           /\ Uploading => /\ activeBuild.started \subseteq pendingRecovery'
                           /\ compiler[p] = "uploading"
  <2>1. IsTerminal' /\ ~ Uploading' /\ ~ Open'
    BY <1>6 DEF IsTerminal, Uploading, Open
  <2>2. UploadInv'
    <3>1. \A q \in Participants : q # p => compiler[q] # "uploading"
      BY <1>6 DEF QuietInv, UploadInv
    <3> QED
      BY <1>1, <3>1 DEF UploadInv
  <2>3. OwnInv'
    BY <1>5, <2>1 DEF QuietInv, OwnInv
  <2>4. JoinedInv' /\ UploadIsFresh'
    BY <2>1 DEF JoinedInv, UploadIsFresh
  <2>5. \A q \in Participants : Open /\ HasContributed(activeBuild, q) => q \in activeBuild.started
    BY DEF QuietInv, JoinedInv, Open, IsTerminal
  <2>6. BehindInv'
    BY <1>3, <1>6, <2>5 DEF QuietInv, BehindInv
  <2> QED
    BY <1>2, <1>4, <2>2, <2>3, <2>4, <2>6 DEF QuietInv
<1>7. CASE /\ activeBuild'.id = activeBuild.id
           /\ activeBuild'.status = activeBuild.status
           /\ activeBuild'.started = activeBuild.started
           /\ activeBuild'.contributions = activeBuild.contributions
           /\ activeBuild'.keys = activeBuild.keys
           /\ Open => UNCHANGED activeBuild
  <2>1. /\ (Uploading' <=> Uploading) /\ (Open' <=> Open) /\ (IsTerminal' <=> IsTerminal)
        /\ \A q \in Participants :
             HasContributed(activeBuild, q)' <=> HasContributed(activeBuild, q)
    BY <1>7 DEF Uploading, Open, IsTerminal, HasContributed
  <2>2. UploadInv' /\ UploadIsFresh'
    BY <1>1, <1>7, <2>1 DEF QuietInv, UploadInv, UploadIsFresh
  <2>3. OwnInv'
    BY <1>5, <1>7, <2>1 DEF QuietInv, OwnInv, IsStale
  <2>4. JoinedInv'
    BY <1>1, <1>7, <2>1 DEF QuietInv, JoinedInv
  <2>5. BehindInv'
    BY <1>3, <1>7, <2>1 DEF QuietInv, BehindInv
  <2> QED
    BY <1>2, <1>4, <2>2, <2>3, <2>4, <2>5 DEF QuietInv
<1> QED
  BY <1>6, <1>7

(* Lemma: whatever fails, freshness is kept. *)
LEMMA QuietFailure ==
  ASSUME Inv, QuietInv, NEW p \in Participants,
         \/ CompilationHasErrors(p) \/ CompilationBreaks(p) \/ Failed(p)
         \/ ContributeRejected(p) \/ PublishFails(p)
  PROVE  QuietInv'
<1>0. nextLogicalGeneration \in Nat /\ activeBuild \in Build
  BY DEF Inv, TypeOK
<1>1. CASE CompilationHasErrors(p) \/ Failed(p)
  <2>1. /\ FailParticipant(p)
        /\ UNCHANGED <<rev, edited, changed, input, reported, dropped>>
    BY <1>1 DEF CompilationHasErrors, Failed
  <2>2. PICK to \in {"failing", "idle"} : Goes(p, to)
    BY <1>1 DEF CompilationHasErrors, Failed
  <2>3. CASE Uploading
    BY <2>1, <2>2, <2>3, FailEffect, QuietSettles DEF Uploading, Open
  <2>4. CASE ~ Uploading
    BY <2>1, <2>2, <2>4, FailEffect, QuietSettles DEF Uploading, Open
  <2> QED
    BY <2>3, <2>4
<1>2. CASE CompilationBreaks(p)
  <2>1. /\ Goes(p, "failing")
        /\ UNCHANGED <<rev, edited, changed, input, localGenerations, lastSuccessful,
                       reported, dropped, activeBuild, pendingRecovery, nextLogicalGeneration>>
    BY <1>2 DEF CompilationBreaks, coordinator
  <2> QED
    BY <1>0, <2>1, QuietSettles
<1>3. CASE ContributeRejected(p)
  <2>1. /\ Goes(p, "failing")
        /\ UNCHANGED <<rev, edited, changed, input, localGenerations, lastSuccessful,
                       reported, dropped, activeBuild, nextLogicalGeneration>>
        /\ pendingRecovery \subseteq pendingRecovery'
    BY <1>3 DEF ContributeRejected, coordinator, Remember
  <2> QED
    BY <1>0, <2>1, QuietSettles
<1>4. CASE PublishFails(p)
  <2>1. /\ Goes(p, "failing") /\ compiler[p] = "uploading"
        /\ UNCHANGED <<rev, edited, changed, input, localGenerations, lastSuccessful,
                       reported, dropped, nextLogicalGeneration>>
        /\ pendingRecovery' = pendingRecovery \union activeBuild.dirty \union activeBuild.started
        /\ activeBuild'.status = "failed"
    BY <1>0, <1>4 DEF PublishFails, Remember, Build
  <2>2. pendingRecovery \subseteq pendingRecovery'
        /\ activeBuild.dirty \subseteq pendingRecovery'
        /\ activeBuild.started \subseteq pendingRecovery'
    BY <2>1
  <2> QED
    BY <1>0, <2>1, <2>2, QuietSettles
<1> QED
  BY <1>1, <1>2, <1>3, <1>4

(* Lemma: a publication leaves nobody behind. *)
LEMMA QuietPublish ==
  ASSUME Inv, QuietInv, NEW p \in Participants, PublishSucceeds(p)
  PROVE  QuietInv'
<1>1. /\ compiler[p] = "uploading" /\ Goes(p, "idle")
      /\ lastSuccessful' = activeBuild.contributions
      /\ UNCHANGED <<rev, edited, changed, input, localGenerations, nextLogicalGeneration,
                     reported, dropped>>
  BY DEF PublishSucceeds
<1>2. activeBuild'.status = "published"
  BY DEF PublishSucceeds, Inv, TypeOK, Build
<1>3. /\ \A q \in Participants : q # p => compiler'[q] = compiler[q]
      /\ compiler'[p] = "idle"
  BY <1>1 DEF Goes, Inv, TypeOK
<1>4. Uploading /\ \A q \in Participants : q # p => compiler[q] # "uploading"
  BY <1>1 DEF QuietInv, UploadInv
<1>5. IsTerminal' /\ ~ Uploading' /\ ~ Open'
  BY <1>2 DEF IsTerminal, Uploading, Open
<1>6. \A q \in Participants : ~ Behind(q)'
  BY <1>1, <1>4, Revisions DEF QuietInv, UploadIsFresh, Behind
<1>7. UploadInv' /\ RoundInv'
  BY <1>1, <1>3, <1>4 DEF QuietInv, UploadInv, RoundInv
<1>8. OwnInv' /\ JoinedInv' /\ UploadIsFresh'
  BY <1>1, <1>5 DEF QuietInv, OwnInv, JoinedInv, UploadIsFresh
<1>9. BehindInv' /\ UntouchedInv'
  BY <1>6 DEF BehindInv, UntouchedInv
<1> QED
  BY <1>7, <1>8, <1>9 DEF QuietInv

(* Lemma: every step keeps freshness while edits wait. *)
LEMMA NextFresh == Inv /\ FreshInv /\ [Next]_vars => FreshInv'
<1> SUFFICES ASSUME Inv, FreshInv, [Next]_vars, mode' # "busy" PROVE QuietInv'
  BY DEF FreshInv
<1>1. mode' = mode
  BY DEF Next, vars, external, Edit, Watcher, InvalidateParticipant, InvalidateRefused, Begins,
         BeginParticipant, BeginRejected, BeginRefused, Compiles, Finishes, Contribute,
         ContributeRejected, CompilationHasErrors, CompilationBreaks, PublishSucceeds,
         PublishFails, Failed
<1>2. QuietInv /\ mode # "busy"
  BY <1>1 DEF FreshInv
<1>3. CASE \E f \in Files : Edit(f)
  BY <1>2, <1>3, QuietEdit
<1>4. ASSUME NEW p \in Participants, Watcher(p) \/ Begins(p) PROVE QuietInv'
  BY <1>2, <1>4, QuietInvalidate, QuietBegin, QuietRejected, QuietRefused DEF Watcher, Begins
<1>5. ASSUME NEW p \in Participants, Finishes(p) \/ PublishSucceeds(p) PROVE QuietInv'
  BY <1>2, <1>5, QuietContribute, QuietFailure, QuietPublish DEF Finishes
<1>6. ASSUME NEW p \in Participants,
             CompilationHasErrors(p) \/ CompilationBreaks(p) \/ Failed(p) \/ PublishFails(p)
      PROVE  QuietInv'
  BY <1>2, <1>6, QuietFailure
<1>7. CASE UNCHANGED vars
  BY <1>2, <1>7 DEF vars, external, coordinator, QuietInv, UploadInv, OwnInv, RoundInv,
       JoinedInv, BehindInv, UntouchedInv, UploadIsFresh, IsTerminal, Uploading, Open,
       IsStale, Behind, HasContributed
<1> QED
  BY <1>3, <1>4, <1>5, <1>6, <1>7 DEF Next

(* Lemma: what is fresh at first. *)
LEMMA InitFresh == Init => FreshInv
<1> SUFFICES ASSUME Init PROVE QuietInv
  BY DEF FreshInv
<1>1. /\ activeBuild.status = "none" /\ rev = 0 /\ nextLogicalGeneration = 0
      /\ \A f \in Files : edited[f] = 0
      /\ \A p \in Participants :
           /\ compiler[p] = "waiting" /\ changed[p] = {} /\ reported[p] = 0
           /\ localGenerations[p].logical = -1 /\ lastSuccessful[p] = NoOutput
  BY DEF Init, NoBuild
<1>2. IsTerminal /\ ~ Uploading /\ \A p \in Participants : ~ Behind(p)
  BY <1>1 DEF IsTerminal, Uploading, Behind
<1> QED
  BY <1>1, <1>2 DEF QuietInv, UploadInv, OwnInv, RoundInv, JoinedInv, BehindInv,
       UntouchedInv, UploadIsFresh

(* Theorem: while edits wait for the compilers, whatever fails, nothing    *)
(* older than a reported change is published, except for compilers whose   *)
(* output or mark went with an aborted batch.                              *)
THEOREM QuietUploadsAreFresh == Spec => []QuietPublicationIsFresh
<1>1. FreshInv => QuietPublicationIsFresh
  BY DEF FreshInv, QuietInv, UploadIsFresh, QuietPublicationIsFresh
<1> QED
  BY <1>1, InitFresh, Invariance, NextFresh, PTL DEF Spec
-----------------------------------------------------------------------------
(* The order of builds. *)

(* Lemma: what a contribution does to the status of the active build.      *)
LEMMA ContributeStatus ==
  ASSUME Inv, NEW p \in Participants, Contribute(p)
  PROVE  /\ activeBuild.status = "open"
         /\ activeBuild'.id = activeBuild.id
         /\ \/ activeBuild'.status = "uploading" /\ Goes(p, "uploading")
            \/ activeBuild'.status = "open" /\ Goes(p, "idle")
<1> DEFINE b == Contributed(p)
<1>1. /\ BuildInv(b, published, pendingRecovery) /\ b.id = activeBuild.id /\ b.status = "open"
      /\ activeBuild.status = "open"
  BY ContributedInv DEF Contribute
<1>2. \/ activeBuild' = b /\ Goes(p, "idle")
      \/ activeBuild' = [WithCarried(b) EXCEPT !.status = "uploading"] /\ Goes(p, "uploading")
  BY DEF Contribute
<1> HIDE DEF b
<1>3. WithCarried(b) \in Build /\ WithCarried(b).id = b.id
  BY <1>1, CarriedInv
<1> QED
  BY <1>1, <1>2, <1>3 DEF Build

(* Lemma: failParticipant loses the open build, or records the failure in  *)
(* a new one that is lost at once; it leaves an upload alone.              *)
LEMMA FailStatus ==
  ASSUME Inv, NEW p \in Participants, FailParticipant(p)
  PROVE  \/ activeBuild'.id = activeBuild.id /\ activeBuild'.status = activeBuild.status
         \/ /\ activeBuild'.id = activeBuild.id
            /\ activeBuild.status = "open" /\ activeBuild'.status = "failed"
         \/ /\ IsTerminal
            /\ activeBuild'.id = nextLogicalGeneration /\ activeBuild'.status = "failed"
<1>1. CASE activeBuild.status = "failed"
  BY <1>1 DEF FailParticipant, coordinator
<1>2. CASE activeBuild.status # "failed"
  <2> DEFINE a == IF IsTerminal THEN NewBuild({}) ELSE activeBuild
             b == [a EXCEPT !.dirty = @ \union {p}]
  <2>1. activeBuild' = [b EXCEPT !.status = IF @ = "open" THEN "failed" ELSE @]
    BY <1>2 DEF FailParticipant
  <2>2. /\ a \in Build
        /\ IsTerminal => a.status = "open" /\ a.id = nextLogicalGeneration
        /\ ~ IsTerminal => a = activeBuild /\ a.status \in {"open", "uploading"}
    BY NewBuildInv DEF BuildInv, IsTerminal, Build, Inv, TypeOK
  <2> HIDE DEF a
  <2>3. /\ activeBuild'.id = a.id
        /\ activeBuild'.status = IF a.status = "open" THEN "failed" ELSE a.status
    BY <2>1, <2>2 DEF Build
  <2> QED
    BY <2>2, <2>3
<1> QED
  BY <1>1, <1>2

(* Lemma: beginParticipant joins the active build, or replaces one that is *)
(* not being uploaded.                                                     *)
LEMMA BeginStatus ==
  ASSUME Inv, NEW p \in Participants, BeginParticipant(p)
  PROVE  \/ activeBuild'.id = activeBuild.id /\ activeBuild'.status = activeBuild.status
         \/ /\ activeBuild.status # "uploading"
            /\ activeBuild'.id = nextLogicalGeneration /\ activeBuild'.status = "open"
<1> DEFINE again == ~ IsTerminal /\ p \in activeBuild.started
           opens == IsTerminal \/ again
           b == IF opens THEN NewBuild(IF again THEN activeBuild.dirty ELSE {}) ELSE activeBuild
<1>1. activeBuild' = [b EXCEPT !.dirty = @ \union {p}, !.started = @ \union {p}]
      /\ ~ (opens /\ CreateRefused)
  BY DEF BeginParticipant
<1>2. activeBuild \in Build /\ activeBuild.dirty \in SUBSET Participants
  BY DEF Inv, TypeOK, Build
<1>3. /\ b \in Build
      /\ opens => b.id = nextLogicalGeneration /\ b.status = "open"
      /\ ~ opens => b = activeBuild
  BY <1>2, NewBuildInv DEF BuildInv
<1> HIDE DEF b
<1>4. activeBuild'.id = b.id /\ activeBuild'.status = b.status
  BY <1>1, <1>3 DEF Build
<1> QED
  BY <1>1, <1>3, <1>4 DEF CreateRefused

(* Lemma: while an upload is under way no other begins, and one compiler   *)
(* awaits it, however its edits and failures come.                         *)
LEMMA UploadStep == Inv /\ UploadInv /\ [Next]_vars => UploadInv'
<1> SUFFICES ASSUME Inv, UploadInv, [Next]_vars PROVE UploadInv'
  OBVIOUS
<1> USE DEF UploadInv, Uploading
<1>0. compiler \in [Participants -> {"idle", "waiting", "compiling", "uploading", "failing"}]
      /\ activeBuild \in Build
  BY DEF Inv, TypeOK
<1>1. ASSUME NEW p \in Participants, NEW to \in {"idle", "waiting", "compiling", "failing"},
             Goes(p, to),
             activeBuild.status = "uploading" /\ compiler[p] # "uploading" =>
               activeBuild'.status = "uploading"
      PROVE  UploadInv'
  BY <1>0, <1>1 DEF Goes
<1>2. ASSUME NEW p \in Participants, NEW f \in Files, InvalidateParticipant(p, f)
      PROVE  UploadInv'
  BY <1>1, <1>2, InvalidateEffect DEF InvalidateParticipant
<1>3. ASSUME NEW p \in Participants, BeginParticipant(p) PROVE UploadInv'
  BY <1>1, <1>3, BeginStatus DEF BeginParticipant
<1>4. ASSUME NEW p \in Participants, BeginRejected(p) PROVE UploadInv'
  BY <1>0, <1>1, <1>4 DEF BeginRejected, Build
<1>5. ASSUME NEW p \in Participants, Contribute(p) PROVE UploadInv'
  BY <1>0, <1>5, ContributeStatus DEF Goes
<1>6. ASSUME NEW p \in Participants, PublishSucceeds(p) \/ PublishFails(p) PROVE UploadInv'
  <2>1. compiler[p] = "uploading" /\ (Goes(p, "idle") \/ Goes(p, "failing"))
    BY <1>6 DEF PublishSucceeds, PublishFails
  <2> QED
    BY <1>1, <2>1
<1>7. ASSUME NEW p \in Participants, CompilationHasErrors(p) \/ Failed(p) PROVE UploadInv'
  <2>1. FailParticipant(p) /\ (Goes(p, "idle") \/ Goes(p, "failing"))
    BY <1>7 DEF CompilationHasErrors, Failed
  <2> QED
    BY <1>1, <2>1, FailStatus DEF IsTerminal
<1>8. ASSUME NEW p \in Participants,
             \/ \E f \in Files : InvalidateRefused(p, f)
             \/ BeginRefused(p) \/ ContributeRejected(p) \/ CompilationBreaks(p)
      PROVE  UploadInv'
  <2>1. /\ UNCHANGED activeBuild
        /\ \E to \in {"idle", "waiting", "compiling", "failing"} : Goes(p, to)
    BY <1>8 DEF InvalidateRefused, BeginRefused, ContributeRejected, CompilationBreaks,
                coordinator
  <2> QED
    BY <1>1, <2>1
<1>9. CASE \E f \in Files : Edit(f)
  BY <1>9 DEF Edit, coordinator
<1>10. CASE UNCHANGED vars
  BY <1>10 DEF vars, external, coordinator
<1> QED
  BY <1>2, <1>3, <1>4, <1>5, <1>6, <1>7, <1>8, <1>9, <1>10
     DEF Next, Watcher, Begins, Finishes

(* Lemma: every step of the coordinator is one of BuildOrder, or leaves    *)
(* the generation and the status of the active build alone.                *)
LEMMA OrderStep == Inv /\ UploadInv /\ [Next]_vars => [Order!OrderNext]_(Order!orderVars)
<1> SUFFICES ASSUME Inv, UploadInv, [Next]_vars
             PROVE  Order!OrderNext \/ UNCHANGED Order!orderVars
  OBVIOUS
<1> USE DEF Order!OrderNext, Order!orderVars
<1>0. /\ activeBuild \in Build /\ activeBuild.id \in Int
      /\ nextLogicalGeneration \in Nat /\ activeBuild.id < nextLogicalGeneration
  BY DEF Inv, TypeOK, Build
<1>1. ASSUME activeBuild'.id = activeBuild.id, activeBuild'.status = activeBuild.status
      PROVE  UNCHANGED Order!orderVars
  BY <1>1
<1>2. ASSUME activeBuild.status # "uploading", activeBuild'.id = nextLogicalGeneration,
             activeBuild'.status \in {"open", "failed"}
      PROVE  Order!BeginBuild
  BY <1>0, <1>2 DEF Order!BeginBuild
<1>3. ASSUME activeBuild'.id = activeBuild.id, activeBuild.status \in {"open", "uploading"},
             activeBuild'.status \in {"failed", "aborted"}
      PROVE  Order!LoseBuild
  BY <1>3 DEF Order!LoseBuild
<1>4. ASSUME NEW p \in Participants, NEW f \in Files, InvalidateParticipant(p, f)
      PROVE  Order!BeginBuild \/ UNCHANGED Order!orderVars
  BY <1>1, <1>2, <1>4, InvalidateEffect
<1>5. ASSUME NEW p \in Participants, BeginParticipant(p)
      PROVE  Order!BeginBuild \/ UNCHANGED Order!orderVars
  BY <1>1, <1>2, <1>5, BeginStatus
<1>6. ASSUME NEW p \in Participants, BeginRejected(p)
      PROVE  Order!LoseBuild \/ UNCHANGED Order!orderVars
  BY <1>0, <1>1, <1>3, <1>6 DEF BeginRejected, Build
<1>7. ASSUME NEW p \in Participants, Contribute(p)
      PROVE  Order!CloseBuild \/ UNCHANGED Order!orderVars
  BY <1>1, <1>7, ContributeStatus DEF Order!CloseBuild
<1>8. ASSUME NEW p \in Participants, PublishSucceeds(p) PROVE Order!CommitBuild
  <2>1. activeBuild.status = "uploading"
    BY <1>8 DEF PublishSucceeds, UploadInv, Uploading
  <2> QED
    BY <1>0, <1>8, <2>1 DEF PublishSucceeds, Order!CommitBuild, Build
<1>9. ASSUME NEW p \in Participants, PublishFails(p) PROVE Order!LoseBuild
  <2>1. activeBuild.status = "uploading"
    BY <1>9 DEF PublishFails, UploadInv, Uploading
  <2> QED
    BY <1>0, <1>3, <1>9, <2>1 DEF PublishFails, Build
<1>10. ASSUME NEW p \in Participants, CompilationHasErrors(p) \/ Failed(p)
       PROVE  Order!OrderNext \/ UNCHANGED Order!orderVars
  <2>1. FailParticipant(p)
    BY <1>10 DEF CompilationHasErrors, Failed
  <2> QED
    BY <1>1, <1>2, <1>3, <2>1, FailStatus DEF IsTerminal
<1>11. ASSUME UNCHANGED activeBuild PROVE UNCHANGED Order!orderVars
  BY <1>1, <1>11
<1> QED
  BY <1>4, <1>5, <1>6, <1>7, <1>8, <1>9, <1>10, <1>11
     DEF Next, Watcher, Begins, Finishes, Edit, InvalidateRefused, BeginRefused,
         ContributeRejected, CompilationBreaks, coordinator, vars

(* Theorem: the coordinator's builds follow each other as BuildOrder says, *)
(* also when sources are edited at any moment: a generation that was lost  *)
(* is not published, and none begins over an upload.                       *)
THEOREM OrderedBuilds == Spec => KeepsBuildOrder
<1>1. Init => UploadInv /\ Order!OrderInit
  BY DEF Init, UploadInv, NoBuild, Order!OrderInit
<1>2. Inv /\ UploadInv /\ [Next]_vars => UploadInv'
  BY UploadStep
<1>3. Inv /\ UploadInv /\ [Next]_vars => [Order!OrderNext]_(Order!orderVars)
  BY OrderStep
<1> QED
  BY <1>1, <1>2, <1>3, Invariance, PTL DEF Spec, KeepsBuildOrder, Order!OrderSpec

-----------------------------------------------------------------------------
(* Progress without failures.  A compiler is at work while a change of its *)
(* sources is unreported, or its compilation is due or under way.          *)
AtWork(p) == compiler[p] \in {"waiting", "compiling"} \/ changed[p] # {}

(* What EditsArePublished rests on: if nothing fails, an open batch waits  *)
(* only for compilers that are at work, and for one at least; an upload is *)
(* awaited by a compiler; and when nobody is at work and no build under    *)
(* way, the latest edit of every file is published.                        *)
NothingIsStuck ==
  mode = "calm" =>
    /\ Open => /\ \E p \in Participants : AtWork(p)
               /\ \A p \in activeBuild.dirty : AtWork(p)
    /\ Uploading => \E p \in Participants : compiler[p] = "uploading"
    /\ IsTerminal /\ (\A p \in Participants : ~ AtWork(p)) =>
         \A f \in Files : \A p \in Reads[f] : lastSuccessful[p].rev >= edited[f]

(* f was edited last. *)
Last(f) == edited[f] = rev /\ rev # 0

(* Nothing has failed, and who compiles does so for the open build.        *)
SmoothInv ==
  /\ pendingRecovery = {}
  /\ activeBuild.status \in {"none", "open", "uploading", "published"}
  /\ \A p \in Participants :
       /\ rejectedLocalGenerations[p] = {}
       /\ compiler[p] # "failing"
       /\ compiler[p] = "compiling" =>
            Open /\ ~ IsStale(p) /\ p \in activeBuild.dirty

(* Everyone has published before the first edit. *)
FirstInv ==
  /\ \A p \in Participants :
       lastSuccessful[p] # NoOutput <=> rev # 0 \/ activeBuild.status = "published"
  /\ activeBuild.status = "none" =>
       rev = 0 /\ \A p \in Participants : compiler[p] = "waiting"
  /\ rev # 0 => \E f \in Files : Last(f)

(* The open batch awaits, or has an output of, everyone whom the last edit *)
(* concerns; once it is uploaded they have all been heard.                 *)
AwaitedInv ==
  /\ Open =>
       /\ \E p \in Participants : AtWork(p)
       /\ \A p \in activeBuild.dirty : AtWork(p)
       /\ rev = 0 => \A p \in Participants : HasContributed(activeBuild, p) \/ AtWork(p)
       /\ \A f \in Files : Last(f) =>
            /\ f \in activeBuild.keys
            /\ \A p \in Reads[f] : p \in activeBuild.dirty \/ HasContributed(activeBuild, p)
  /\ Uploading => /\ \E p \in Participants : compiler[p] = "uploading"
                  /\ \A p \in Participants : ~ AtWork(p)
  /\ activeBuild.status = "published" =>
       \A p \in Participants :
         /\ compiler[p] # "waiting"
         /\ \A f \in changed[p] : \A q \in Reads[f] : f \in changed[q]

(* What is uploaded is current, and so is what was published before the    *)
(* last edit. *)
CurrentInv ==
  \A f \in Files : \A p \in Reads[f] :
    /\ Uploading => activeBuild.contributions[p].rev >= edited[f]
    /\ edited[f] # rev \/ (activeBuild.status = "published" /\ f \notin changed[p]) =>
         lastSuccessful[p].rev >= edited[f]

CalmInv == SmoothInv /\ FirstInv /\ AwaitedInv /\ CurrentInv

(* Lemma: an edit comes when everything is published. *)
LEMMA CalmEdit ==
  ASSUME Inv, QuietInv, CalmInv, mode # "busy", NEW f \in Files, Edit(f)
  PROVE  CalmInv'
<1>1. /\ rev' = rev + 1
      /\ edited' = [edited EXCEPT ![f] = rev + 1]
      /\ changed' = [p \in Participants |-> IF p \in Reads[f] THEN changed[p] \union {f}
                                                             ELSE changed[p]]
      /\ UNCHANGED <<compiler, activeBuild, localGenerations, rejectedLocalGenerations,
                     pendingRecovery, lastSuccessful>>
      /\ IsTerminal /\ \A p \in Participants : compiler[p] = "idle" /\ changed[p] = {}
  BY DEF Edit, Quiet, coordinator
<1>2. activeBuild.status = "published"
  <2>1. PICK p \in Participants : TRUE
    BY CoordinatorAssumption
  <2> QED
    BY <1>1, <2>1 DEF CalmInv, SmoothInv, FirstInv, IsTerminal
<1>3. /\ edited'[f] = rev' /\ rev' # 0
      /\ \A g \in Files : g # f => edited'[g] = edited[g] /\ edited'[g] # rev'
  BY <1>1, Revisions DEF QuietInv, RoundInv
<1>4. SmoothInv'
  BY <1>1, <1>2 DEF CalmInv, SmoothInv, Open, IsStale
<1>5. FirstInv'
  BY <1>1, <1>2, <1>3 DEF CalmInv, FirstInv, Last
<1>6. AwaitedInv'
  BY <1>1, <1>2, CoordinatorAssumption DEF AwaitedInv, Open, Uploading
<1>7. CurrentInv'
  <2> SUFFICES ASSUME NEW g \in Files, NEW p \in Reads[g],
                      edited'[g] # rev' \/ f \notin changed'[p] \/ g \notin changed'[p]
               PROVE  g # f => lastSuccessful[p].rev >= edited[g]
    BY <1>1, <1>2, <1>3, CoordinatorAssumption DEF CurrentInv, Uploading
  <2>1. p \in Participants
    BY CoordinatorAssumption
  <2> QED
    BY <1>1, <1>2, <2>1 DEF CalmInv, CurrentInv
<1> QED
  BY <1>4, <1>5, <1>6, <1>7 DEF CalmInv

(* Lemma: whom the invalid hook makes dirty. *)
LEMMA InvalidateDirty ==
  ASSUME Inv, NEW p \in Participants, NEW f \in Files, InvalidateParticipant(p, f)
  PROVE  \A q \in activeBuild'.dirty :
           \/ Opens(p, f) /\ q \in pendingRecovery \union Affected(p, f)
           \/ ~ Opens(p, f) /\ q \in activeBuild.dirty
           \/ ~ Opens(p, f) /\ q \in Affected(p, f)
                            /\ ~ (Joins(f) /\ HasContributed(activeBuild, q))
<1> DEFINE b == IF Opens(p, f) THEN NewBuild({}) ELSE activeBuild
           E == {q \in Affected(p, f) : ~ (Joins(f) /\ HasContributed(b, q))}
<1>1. activeBuild' = [b EXCEPT !.keys = @ \union {f}, !.dirty = @ \union E]
  BY DEF InvalidateParticipant, OpenInvalidationBatch
<1>2. b \in Build
  BY NewBuildInv DEF BuildInv, Inv, TypeOK
<1>3. /\ Opens(p, f) => b.dirty = pendingRecovery
      /\ ~ Opens(p, f) => b = activeBuild
  BY DEF NewBuild, NoBuild
<1>4. \A q \in E : q \in Affected(p, f) /\ ~ (Joins(f) /\ HasContributed(b, q))
  OBVIOUS
<1> HIDE DEF b, E
<1>5. activeBuild'.dirty = b.dirty \union E
  BY <1>1, <1>2 DEF Build
<1> QED
  BY <1>3, <1>4, <1>5

(* Lemma: the first report of an edit opens a batch that awaits everyone   *)
(* whom it concerns, and the others join it.                               *)
LEMMA CalmInvalidate ==
  ASSUME Inv, QuietInv, CalmInv, NEW p \in Participants, NEW f \in Files,
         InvalidateParticipant(p, f)
  PROVE  CalmInv'
<1>1. /\ compiler[p] = "idle" /\ f \in changed[p] /\ Goes(p, "waiting")
      /\ UNCHANGED <<rev, edited, changed, localGenerations, rejectedLocalGenerations,
                     pendingRecovery, lastSuccessful>>
  BY DEF InvalidateParticipant
<1>2. /\ edited[f] = rev /\ rev # 0 /\ p \in Reads[f] /\ Last(f)
      /\ \A g \in Files : Last(g) => g = f
  BY <1>1 DEF QuietInv, RoundInv, Last
<1>3. /\ \A q \in Participants : q # p => compiler'[q] = compiler[q]
      /\ compiler'[p] = "waiting"
  BY <1>1 DEF Goes, Inv, TypeOK
<1>4. /\ Reads[f] \subseteq Participants /\ Affected(p, f) = Reads[f]
  BY <1>2, CoordinatorAssumption DEF Affected, CalmInv, FirstInv
<1>5. AtWork(p) /\ \A q \in Participants : AtWork(q)' <=> AtWork(q)
  BY <1>1, <1>3 DEF AtWork
<1>6. ~ Uploading /\ activeBuild.status \in {"open", "published"}
  BY <1>2, <1>5 DEF CalmInv, SmoothInv, FirstInv, AwaitedInv, Uploading
<1>7. CASE Open
  <2>1. Joins(f) /\ ~ Opens(p, f)
    BY <1>1, <1>2, <1>7 DEF Opens, Joins, CalmInv, AwaitedInv, QuietInv, JoinedInv, IsTerminal, Open
  <2>2. /\ activeBuild'.id = activeBuild.id /\ activeBuild'.status = activeBuild.status
        /\ activeBuild'.contributions = activeBuild.contributions
        /\ activeBuild.dirty \subseteq activeBuild'.dirty
        /\ activeBuild'.keys = activeBuild.keys \union {f}
    BY <2>1, InvalidateEffect
  <2>3. /\ Open' /\ ~ Uploading'
        /\ \A q \in Participants : HasContributed(activeBuild, q)' <=> HasContributed(activeBuild, q)
    BY <1>6, <1>7, <2>2 DEF Open, Uploading, HasContributed
  <2>4. activeBuild'.dirty = activeBuild.dirty
    <3>1. \A q \in Reads[f] : q \in activeBuild.dirty \/ HasContributed(activeBuild, q)
      BY <1>2, <1>7 DEF CalmInv, AwaitedInv
    <3> QED
      BY <1>4, <2>1, <2>2, <3>1, InvalidateDirty
  <2>5. SmoothInv'
    BY <1>1, <1>3, <1>7, <2>2, <2>3, <2>4 DEF CalmInv, SmoothInv, IsStale
  <2>6. FirstInv'
    BY <1>1, <1>2, <1>7, <2>2 DEF CalmInv, FirstInv, Last, Open
  <2>7. AwaitedInv'
    <3>1. activeBuild'.dirty \subseteq Participants
      BY <2>4 DEF Inv, TypeOK, Build
    <3>2. \A g \in Files : Last(g)' <=> Last(g)
      BY <1>1 DEF Last
    <3>3. activeBuild'.status # "published"
      BY <2>3 DEF Open
    <3>4. \A q \in activeBuild'.dirty : AtWork(q)'
      BY <1>5, <1>7, <2>4, <3>1 DEF CalmInv, AwaitedInv
    <3> QED
      BY <1>1, <1>2, <1>4, <1>5, <1>7, <2>2, <2>3, <2>4, <3>2, <3>3, <3>4
         DEF CalmInv, AwaitedInv
  <2>8. CurrentInv'
    BY <1>1, <1>7, <2>2, <2>3 DEF CalmInv, CurrentInv, Open
  <2> QED
    BY <2>5, <2>6, <2>7, <2>8 DEF CalmInv
<1>8. CASE activeBuild.status = "published"
  <2>1. Opens(p, f)
    BY <1>8 DEF Opens, IsTerminal
  <2>2. /\ activeBuild'.status = "open" /\ activeBuild'.keys = {f}
        /\ \A q \in Participants : activeBuild'.contributions[q] = NoOutput
        /\ \A q \in Reads[f] : q \in activeBuild'.dirty
    BY <1>4, <2>1, InvalidateEffect
  <2>3. Open' /\ ~ Uploading' /\ \A q \in Participants : ~ HasContributed(activeBuild, q)'
    BY <2>2 DEF Open, Uploading, HasContributed
  <2>4. activeBuild'.dirty \subseteq Reads[f]
    BY <1>4, <2>1, InvalidateDirty DEF CalmInv, SmoothInv
  <2>5. \A q \in Participants : compiler'[q] # "compiling"
    BY <1>3, <1>8 DEF CalmInv, SmoothInv, Open
  <2>6. SmoothInv'
    BY <1>1, <1>3, <2>2, <2>5 DEF CalmInv, SmoothInv
  <2>7. FirstInv'
    BY <1>1, <1>2, <2>2 DEF CalmInv, FirstInv, Last
  <2>8. AwaitedInv'
    <3>1. \A q \in Reads[f] : AtWork(q)'
      BY <1>1, <1>4, <1>5, <1>8 DEF CalmInv, AwaitedInv, AtWork
    <3>2. \A g \in Files : Last(g)' => g = f
      BY <1>1, <1>2 DEF Last
    <3> QED
      BY <1>1, <1>2, <1>4, <1>5, <2>2, <2>3, <2>4, <3>1, <3>2 DEF AwaitedInv
  <2>9. CurrentInv'
    BY <1>1, <2>2, <2>3 DEF CalmInv, CurrentInv
  <2> QED
    BY <2>6, <2>7, <2>8, <2>9 DEF CalmInv
<1> QED
  BY <1>6, <1>7, <1>8 DEF Open

(* Lemma: whom the start of a compilation makes dirty. *)
LEMMA BeginDirty ==
  ASSUME Inv, NEW p \in Participants, BeginParticipant(p),
         IsTerminal \/ p \notin activeBuild.started
  PROVE  activeBuild'.dirty =
           (IF IsTerminal THEN pendingRecovery ELSE activeBuild.dirty) \union {p}
<1> DEFINE b == IF IsTerminal THEN NewBuild({}) ELSE activeBuild
<1>1. activeBuild' = [b EXCEPT !.dirty = @ \union {p}, !.started = @ \union {p}]
  BY DEF BeginParticipant
<1>2. b \in Build
  BY NewBuildInv DEF BuildInv, Inv, TypeOK
<1>3. b.dirty = IF IsTerminal THEN pendingRecovery ELSE activeBuild.dirty
  BY DEF NewBuild, NoBuild
<1> HIDE DEF b
<1> QED
  BY <1>1, <1>2, <1>3 DEF Build

(* Lemma: a compilation that begins is awaited by the open build. *)
LEMMA CalmBegin ==
  ASSUME Inv, QuietInv, CalmInv, NEW p \in Participants, BeginParticipant(p)
  PROVE  CalmInv'
<1>1. /\ Compiles(p) /\ Goes(p, "compiling") /\ compiler[p] = "waiting"
      /\ UNCHANGED <<pendingRecovery, lastSuccessful, reported>>
      /\ rejectedLocalGenerations' = StillRejected(p)
  BY DEF BeginParticipant, Compiles
<1>2. /\ \A q \in Participants : q # p => compiler'[q] = compiler[q]
      /\ compiler'[p] = "compiling"
      /\ compiler' \in [Participants ->
                          {"idle", "waiting", "compiling", "uploading", "failing"}]
  BY <1>1 DEF Goes, Inv, TypeOK
<1>3. /\ UNCHANGED <<rev, edited>>
      /\ ~ IsTerminal => p \notin activeBuild.started
      /\ \A q \in Participants : q # p => changed'[q] = changed[q]
      /\ changed'[p] = {}
  BY <1>1, <1>2, CompilesEffect
<1>4. AtWork(p) /\ \A q \in Participants : AtWork(q)' <=> AtWork(q)
  BY <1>1, <1>2, <1>3 DEF AtWork
<1>5. \A q \in Participants : rejectedLocalGenerations'[q] = {}
  BY <1>1 DEF StillRejected, CalmInv, SmoothInv, Inv, TypeOK
<1>6. /\ localGenerations'[p].logical = activeBuild'.id
      /\ \A q \in Participants : q # p => localGenerations'[q] = localGenerations[q]
  <2>1. localGenerations \in [Participants -> [local: Int, logical: Int]]
    BY DEF Inv, TypeOK
  <2> QED
    BY <1>3, <2>1, BeginEffect
<1>7. ~ Uploading /\ activeBuild.status \in {"none", "open"}
  BY <1>1, <1>4 DEF CalmInv, SmoothInv, AwaitedInv, Uploading
<1>8. CASE activeBuild.status = "none"
  <2>1. IsTerminal /\ rev = 0 /\ \A q \in Participants : compiler[q] = "waiting"
    BY <1>8 DEF CalmInv, FirstInv, IsTerminal
  <2>2. /\ activeBuild'.status = "open"
        /\ \A q \in Participants : activeBuild'.contributions[q] = NoOutput
        /\ activeBuild'.dirty = {p}
    BY <2>1, BeginEffect, BeginDirty DEF CalmInv, SmoothInv
  <2>3. Open' /\ ~ Uploading'
    BY <2>2 DEF Open, Uploading
  <2>4. SmoothInv'
    BY <1>1, <1>2, <1>5, <1>6, <2>1, <2>2, <2>3 DEF CalmInv, SmoothInv, IsStale
  <2>5. FirstInv'
    BY <1>1, <1>3, <1>8, <2>1, <2>2 DEF CalmInv, FirstInv
  <2>6. AwaitedInv'
    BY <1>3, <1>4, <2>1, <2>2, <2>3 DEF AwaitedInv, Last, AtWork
  <2>7. CurrentInv'
    BY <1>1, <1>3, <2>2, <2>3 DEF CalmInv, CurrentInv
  <2> QED
    BY <2>4, <2>5, <2>6, <2>7 DEF CalmInv
<1>9. CASE activeBuild.status = "open"
  <2>1. /\ ~ IsTerminal /\ Open
    BY <1>9 DEF IsTerminal, Open
  <2>2. /\ activeBuild'.id = activeBuild.id /\ activeBuild'.status = "open"
        /\ activeBuild'.contributions = activeBuild.contributions
        /\ activeBuild'.keys = activeBuild.keys
        /\ activeBuild'.dirty = activeBuild.dirty \union {p}
    BY <1>3, <1>9, <2>1, BeginEffect, BeginDirty
  <2>3. /\ Open' /\ ~ Uploading'
        /\ \A q \in Participants : HasContributed(activeBuild, q)' <=> HasContributed(activeBuild, q)
    BY <2>2 DEF Open, Uploading, HasContributed
  <2>4. SmoothInv'
    BY <1>1, <1>2, <1>5, <1>6, <2>2, <2>3 DEF CalmInv, SmoothInv, IsStale
  <2>5. FirstInv'
    BY <1>1, <1>3, <1>9, <2>2 DEF CalmInv, FirstInv, Last
  <2>6. AwaitedInv'
    <3>1. activeBuild.dirty \subseteq Participants
      BY DEF Inv, TypeOK, Build
    <3>2. \A g \in Files : (Last(g)' <=> Last(g)) /\ Reads[g] \subseteq Participants
      BY <1>3, CoordinatorAssumption DEF Last
    <3> QED
      BY <1>3, <1>4, <2>1, <2>2, <2>3, <3>1, <3>2 DEF CalmInv, AwaitedInv
  <2>7. CurrentInv'
    BY <1>1, <1>3, <2>2, <2>3 DEF CalmInv, CurrentInv
  <2> QED
    BY <2>4, <2>5, <2>6, <2>7 DEF CalmInv
<1> QED
  BY <1>7, <1>8, <1>9

(* Lemma: a contribution leaves an open batch with somebody at work, or    *)
(* starts an upload when nobody is.                                        *)
LEMMA CalmContribute ==
  ASSUME Inv, QuietInv, CalmInv, NEW p \in Participants, Contribute(p)
  PROVE  CalmInv'
<1> DEFINE b == Contributed(p)
           new == [rev |-> input[p], logical |-> activeBuild.id]
<1>1. /\ compiler[p] = "compiling" /\ ~ IsStale(p) /\ activeBuild.status = "open"
      /\ UNCHANGED <<rev, edited, changed, localGenerations, rejectedLocalGenerations,
                     pendingRecovery, lastSuccessful>>
  BY DEF Contribute
<1>2. /\ Open /\ ~ IsTerminal /\ input[p] = rev /\ p \in activeBuild.started
      /\ changed[p] = {}
  BY <1>1 DEF QuietInv, OwnInv, RoundInv, JoinedInv, Open, IsTerminal
<1>3. /\ BuildInv(b, published, pendingRecovery) /\ b.id = activeBuild.id /\ b.status = "open"
      /\ b \in Build
  BY <1>1, ContributedInv DEF BuildInv
<1>4. /\ b.keys = activeBuild.keys /\ b.dirty = activeBuild.dirty \ {p}
      /\ b.contributions = [activeBuild.contributions EXCEPT ![p] = new]
  <2>1. activeBuild \in Build /\ new \in Output
    BY DEF Inv, TypeOK, Build, Output
  <2> QED
    BY <2>1 DEF Contributed, Build
<1>5. /\ b.contributions[p] = new /\ new # NoOutput /\ new.rev = rev
      /\ \A q \in Participants : q # p => b.contributions[q] = activeBuild.contributions[q]
  BY <1>2, <1>4, Revisions DEF Build, NoOutput
<1>6. /\ HasContributed(b, p)
      /\ \A q \in Participants : q # p =>
           (HasContributed(b, q) <=> HasContributed(activeBuild, q))
      /\ \A q \in Participants : HasContributed(b, q) => b.contributions[q].rev = rev
  BY <1>2, <1>5 DEF QuietInv, JoinedInv, HasContributed
<1>7. /\ \A q \in Participants : q # p => (AtWork(q)' <=> AtWork(q)) /\ compiler'[q] = compiler[q]
      /\ compiler'[p] \in {"idle", "uploading"}
  BY <1>1 DEF AtWork, Contribute, Goes, Inv, TypeOK
<1>8. /\ activeBuild.dirty \subseteq Participants
      /\ \A g \in Files : (Last(g)' <=> Last(g)) /\ Reads[g] \subseteq Participants
  BY <1>1, CoordinatorAssumption DEF Last, Inv, TypeOK, Build
<1> HIDE DEF b, new
<1>9. CASE ~ MayPublish(b)
  <2>1. activeBuild' = b /\ Open' /\ ~ Uploading'
    BY <1>3, <1>9 DEF Contribute, b, Open, Uploading
  <2>2. SmoothInv'
    BY <1>1, <1>3, <1>4, <1>7, <2>1 DEF CalmInv, SmoothInv, IsStale
  <2>3. FirstInv'
    BY <1>1, <1>3, <1>7, <2>1 DEF CalmInv, FirstInv, Last
  <2>4. \E q \in Participants : AtWork(q)'
    <3>1. CASE b.dirty # {}
      BY <1>2, <1>4, <1>7, <1>8, <3>1 DEF CalmInv, AwaitedInv
    <3>2. ASSUME NEW q \in Participants, ~ HasContributed(WithCarried(b), q)
          PROVE  AtWork(q)'
      <4>1. ~ HasContributed(b, q) /\ lastSuccessful[q] = NoOutput
        <5>1. WithCarried(b).contributions =
                [r \in Participants |-> IF b.contributions[r] = NoOutput THEN lastSuccessful[r]
                                       ELSE b.contributions[r]]
          BY <1>3 DEF WithCarried, Build
        <5> QED
          BY <3>2, <5>1 DEF HasContributed
      <4>2. rev = 0 /\ q # p /\ ~ HasContributed(activeBuild, q)
        BY <1>6, <4>1 DEF CalmInv, FirstInv
      <4> QED
        BY <1>2, <1>7, <4>2 DEF CalmInv, AwaitedInv
    <3> QED
      BY <1>9, <3>1, <3>2 DEF MayPublish
  <2>5. AwaitedInv'
    <3>1. \A q \in activeBuild'.dirty : AtWork(q)'
      BY <1>2, <1>4, <1>7, <1>8, <2>1 DEF CalmInv, AwaitedInv
    <3>2. rev' = 0 => \A q \in Participants : HasContributed(activeBuild, q)' \/ AtWork(q)'
      BY <1>1, <1>2, <1>6, <1>7, <2>1 DEF CalmInv, AwaitedInv, HasContributed
    <3>3. ASSUME NEW g \in Files, Last(g)
          PROVE  /\ g \in activeBuild'.keys
                 /\ \A q \in Reads[g] : q \in activeBuild'.dirty \/ HasContributed(activeBuild', q)
      BY <1>2, <1>4, <1>6, <1>8, <2>1, <3>3 DEF CalmInv, AwaitedInv
    <3>4. activeBuild'.status # "published"
      BY <2>1 DEF Open
    <3> QED
      BY <1>8, <2>1, <2>4, <3>1, <3>2, <3>3, <3>4 DEF AwaitedInv, HasContributed
  <2>6. CurrentInv'
    BY <1>1, <1>3, <2>1 DEF CalmInv, CurrentInv
  <2> QED
    BY <2>2, <2>3, <2>5, <2>6 DEF CalmInv
<1>10. CASE MayPublish(b)
  <2>1. /\ activeBuild' = [WithCarried(b) EXCEPT !.status = "uploading"]
        /\ Goes(p, "uploading")
    BY <1>10 DEF Contribute, b
  <2>2. /\ activeBuild'.status = "uploading"
        /\ activeBuild'.contributions =
             [q \in Participants |-> IF b.contributions[q] = NoOutput THEN lastSuccessful[q]
                                    ELSE b.contributions[q]]
        /\ WithCarried(b).contributions = activeBuild'.contributions
    <3>1. WithCarried(b) \in Build
      BY <1>3, CarriedInv
    <3>2. WithCarried(b).contributions =
            [q \in Participants |-> IF b.contributions[q] = NoOutput THEN lastSuccessful[q]
                                   ELSE b.contributions[q]]
      BY <1>3 DEF WithCarried, Build
    <3> QED
      BY <2>1, <3>1, <3>2 DEF Build
  <2>3. Uploading' /\ ~ Open' /\ compiler'[p] = "uploading"
    BY <2>1, <2>2 DEF Uploading, Open, Goes, Inv, TypeOK
  <2>4. \A g \in Files : Last(g) => \A q \in Reads[g] : HasContributed(b, q)
    <3>1. activeBuild.dirty \subseteq {p}
      BY <1>4, <1>10 DEF MayPublish
    <3> QED
      BY <1>2, <1>6, <1>8, <3>1 DEF CalmInv, AwaitedInv
  <2>5. \A q \in Participants : HasContributed(b, q) \/ (lastSuccessful[q] # NoOutput /\ rev # 0)
    BY <1>1, <1>10, <2>2 DEF MayPublish, HasContributed, CalmInv, FirstInv
  <2>6. ASSUME NEW q \in Participants PROVE ~ AtWork(q)'
    <3>1. CASE q = p
      BY <1>1, <1>2, <2>3, <3>1 DEF AtWork
    <3>2. CASE q # p
      <4>1. compiler[q] # "compiling"
        BY <1>4, <1>10, <3>2 DEF CalmInv, SmoothInv, MayPublish
      <4>2. ASSUME compiler[q] = "waiting" \/ changed[q] # {} PROVE FALSE
        <5>1. ~ HasContributed(b, q)
          BY <1>2, <1>6, <3>2, <4>2 DEF QuietInv, JoinedInv
        <5>2. PICK g \in Files : Last(g)
          BY <2>5, <5>1 DEF CalmInv, FirstInv
        <5>3. q \in Reads[g]
          BY <1>1, <4>2, <5>2 DEF QuietInv, RoundInv, Last, Inv, TypeOK
        <5> QED
          BY <2>4, <5>1, <5>2, <5>3
      <4> QED
        BY <1>7, <3>2, <4>1, <4>2 DEF AtWork
    <3> QED
      BY <3>1, <3>2
  <2>7. SmoothInv'
    <3>1. \A q \in Participants : compiler'[q] # "compiling" /\ compiler'[q] # "failing"
      BY <1>7, <2>6 DEF AtWork, CalmInv, SmoothInv
    <3> QED
      BY <1>1, <2>2, <3>1 DEF CalmInv, SmoothInv
  <2>8. FirstInv'
    BY <1>1, <2>2 DEF CalmInv, FirstInv, Last
  <2>9. AwaitedInv'
    BY <2>2, <2>3, <2>6 DEF AwaitedInv
  <2>10. CurrentInv'
    <3>1. ASSUME NEW g \in Files, NEW q \in Reads[g]
          PROVE  activeBuild'.contributions[q].rev >= edited[g]
      <4>0. q \in Participants /\ edited[g] <= rev
        BY <1>8 DEF QuietInv, RoundInv
      <4>1. CASE HasContributed(b, q)
        BY <1>6, <2>2, <4>0, <4>1, Revisions DEF HasContributed
      <4>2. CASE ~ HasContributed(b, q)
        <5>1. edited[g] # rev
          BY <2>4, <2>5, <4>0, <4>2 DEF Last
        <5> QED
          BY <2>2, <4>0, <4>2, <5>1 DEF HasContributed, CalmInv, CurrentInv
      <4> QED
        BY <4>1, <4>2
    <3> QED
      BY <1>1, <2>2, <3>1 DEF CalmInv, CurrentInv
  <2> QED
    BY <2>7, <2>8, <2>9, <2>10 DEF CalmInv
<1> QED
  BY <1>9, <1>10

(* Lemma: an upload publishes what is current. *)
LEMMA CalmPublish ==
  ASSUME Inv, QuietInv, CalmInv, NEW p \in Participants, PublishSucceeds(p)
  PROVE  CalmInv'
<1>1. /\ compiler[p] = "uploading" /\ Goes(p, "idle") /\ pendingRecovery' = {}
      /\ lastSuccessful' = activeBuild.contributions
      /\ UNCHANGED <<rev, edited, changed, localGenerations, rejectedLocalGenerations>>
  BY DEF PublishSucceeds
<1>2. activeBuild'.status = "published"
  BY DEF PublishSucceeds, Inv, TypeOK, Build
<1>3. Uploading /\ ~ Open' /\ ~ Uploading'
  BY <1>1, <1>2 DEF QuietInv, UploadInv, Open, Uploading
<1>4. \A q \in Participants :
        /\ compiler'[q] \notin {"waiting", "compiling", "failing"}
        /\ changed'[q] = {}
  BY <1>1, <1>3 DEF Goes, AtWork, CalmInv, SmoothInv, AwaitedInv, Inv, TypeOK
<1>5. \A q \in Participants : lastSuccessful'[q] # NoOutput
  BY <1>1, <1>3 DEF Inv, BuildInv, Uploading, HasContributed
<1>6. SmoothInv' /\ AwaitedInv'
  BY <1>1, <1>2, <1>3, <1>4 DEF CalmInv, SmoothInv, AwaitedInv
<1>7. FirstInv'
  BY <1>1, <1>2, <1>5 DEF CalmInv, FirstInv, Last
<1>8. CurrentInv'
  BY <1>1, <1>3 DEF CalmInv, CurrentInv
<1> QED
  BY <1>6, <1>7, <1>8 DEF CalmInv

(* Lemma: without failures every step keeps the batch going. *)
LEMMA NextCalm ==
  Inv /\ FreshInv /\ (mode = "calm" => CalmInv) /\ [Next]_vars => (mode = "calm" => CalmInv)'
<1> SUFFICES ASSUME Inv, FreshInv, mode = "calm" => CalmInv, [Next]_vars, mode' = "calm"
             PROVE  CalmInv'
  OBVIOUS
<1>1. mode' = mode
  BY DEF Next, vars, external, Edit, Watcher, InvalidateParticipant, InvalidateRefused, Begins,
         BeginParticipant, BeginRejected, BeginRefused, Compiles, Finishes, Contribute,
         ContributeRejected, CompilationHasErrors, CompilationBreaks, PublishSucceeds,
         PublishFails, Failed
<1>2. QuietInv /\ CalmInv /\ mode = "calm"
  BY <1>1 DEF FreshInv
<1>3. CASE \E f \in Files : Edit(f)
  BY <1>2, <1>3, CalmEdit
<1>4. ASSUME NEW p \in Participants, Watcher(p) PROVE CalmInv'
  <2>1. ASSUME NEW f \in Files, InvalidateRefused(p, f) PROVE FALSE
    BY <1>2, <2>1 DEF InvalidateRefused, CreateRefused, CalmInv, AwaitedInv, AtWork, Uploading
  <2> QED
    BY <1>2, <1>4, <2>1, CalmInvalidate DEF Watcher
<1>5. ASSUME NEW p \in Participants, Begins(p) PROVE CalmInv'
  <2>1. ~ BeginRejected(p)
    BY <1>2 DEF BeginRejected, CalmInv, SmoothInv
  <2>2. ~ BeginRefused(p)
    BY <1>2 DEF BeginRefused, Compiles, CreateRefused, CalmInv, AwaitedInv, AtWork, Uploading
  <2> QED
    BY <1>2, <1>5, <2>1, <2>2, CalmBegin DEF Begins
<1>6. ASSUME NEW p \in Participants, Finishes(p) PROVE CalmInv'
  <2>1. ~ ContributeRejected(p)
    BY <1>2 DEF ContributeRejected, IsTerminal, CalmInv, SmoothInv, Open
  <2> QED
    BY <1>2, <1>6, <2>1, CalmContribute DEF Finishes
<1>7. ASSUME NEW p \in Participants, PublishSucceeds(p) PROVE CalmInv'
  BY <1>2, <1>7, CalmPublish
<1>8. ASSUME NEW p \in Participants,
             CompilationHasErrors(p) \/ CompilationBreaks(p) \/ PublishFails(p) \/ Failed(p)
      PROVE  FALSE
  BY <1>2, <1>8 DEF CompilationHasErrors, CompilationBreaks, PublishFails, Failed,
                    CalmInv, SmoothInv
<1>9. CASE UNCHANGED vars
  BY <1>2, <1>9 DEF vars, external, coordinator, CalmInv, SmoothInv, FirstInv, AwaitedInv,
       CurrentInv, AtWork, Last, Open, Uploading, IsStale, HasContributed
<1> QED
  BY <1>3, <1>4, <1>5, <1>6, <1>7, <1>8, <1>9 DEF Next

(* Theorem: if nothing fails and edits wait for the compilers, a batch     *)
(* never waits for a compiler that has nothing to compile, and when all is *)
(* still the last edit of every file is published.                         *)
THEOREM CalmGoesOn == Spec => []NothingIsStuck
<1>1. Init => FreshInv
  BY InitFresh
<1>2. Init => CalmInv
  <2> SUFFICES ASSUME Init PROVE CalmInv
    OBVIOUS
  <2>1. /\ activeBuild.status = "none" /\ rev = 0 /\ pendingRecovery = {}
        /\ \A f \in Files : edited[f] = 0
        /\ \A p \in Participants :
             /\ compiler[p] = "waiting" /\ changed[p] = {} /\ lastSuccessful[p] = NoOutput
             /\ rejectedLocalGenerations[p] = {}
    BY DEF Init, NoBuild
  <2> QED
    BY <2>1 DEF CalmInv, SmoothInv, FirstInv, AwaitedInv, CurrentInv, Open, Uploading
<1>3. CalmInv => (mode = "calm" => CalmInv)
  OBVIOUS
<1>4. Inv /\ (mode = "calm" => CalmInv) => NothingIsStuck
  <2> SUFFICES ASSUME Inv, CalmInv PROVE NothingIsStuck
    BY DEF NothingIsStuck
  <2>1. ASSUME IsTerminal, \A p \in Participants : ~ AtWork(p), NEW f \in Files, NEW p \in Reads[f]
        PROVE  lastSuccessful[p].rev >= edited[f]
    <3>1. p \in Participants
      BY CoordinatorAssumption
    <3>2. activeBuild.status = "published" /\ changed[p] = {}
      BY <2>1, <3>1 DEF AtWork, CalmInv, SmoothInv, FirstInv, IsTerminal
    <3> QED
      BY <3>2 DEF CalmInv, CurrentInv
  <2> QED
    BY <2>1 DEF CalmInv, AwaitedInv, NothingIsStuck
<1>5. Inv /\ FreshInv /\ [Next]_vars => FreshInv'
  BY NextFresh
<1> QED
  BY <1>1, <1>2, <1>3, <1>4, <1>5, NextCalm, Invariance, PTL DEF Spec

=============================================================================
