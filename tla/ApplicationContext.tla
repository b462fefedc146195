------------------------- MODULE ApplicationContext -------------------------
(***************************************************************************)
(* The class ApplicationContext of zephyr-agent                            *)
(* (zephyr-engine/application-context.ts): it owns the successive build    *)
(* generations of one application and begins a newer one only after it     *)
(* ended the older.                                                        *)
(*                                                                         *)
(* Each generation is a BuildSession, used here through what module        *)
(* Publication promises of it.  Adapters keep references to superseded     *)
(* sessions and may still call them: a session's own steps are possible    *)
(* for every generation that was begun.                                    *)
(*                                                                         *)
(* beginBuild for the identity of the active session returns that session, *)
(* and every refusal throws before anything is assigned: neither changes   *)
(* the state.  Bug_X is X with a plausible slip, and no part of the model. *)
(***************************************************************************)
EXTENDS Integers, Sequences

CONSTANT Generations    \* the build generations, safe integers of the code

ASSUME GenerationAssumption == Generations \subseteq Nat

VARIABLES latestGeneration,   \* the generation of activeSession, -1 for none
          outcome,            \* of each generation, as in module Publication
          upload,             \* {g} once the upload of g began
          rollbacks,          \* how often the rollback of g ran
          rollbackFailed,     \* generations whose failure is a RollbackError
          uploads             \* history: the generations in the order of their uploads

vars == <<latestGeneration, outcome, upload, rollbacks, rollbackFailed, uploads>>

-----------------------------------------------------------------------------
Bug_Alive(g) == outcome[g] = "uploading"

(* The session is not terminal. *)
Alive(g) == outcome[g] \in {"open", "uploading"}

(* A session ends badly and runs its rollback, which may itself fail. *)
Lose(g) ==
  /\ outcome' = [outcome EXCEPT ![g] = "lost"]
  /\ rollbacks' = [rollbacks EXCEPT ![g] = @ + 1]
  /\ \/ UNCHANGED rollbackFailed
     \/ rollbackFailed' = rollbackFailed \union {g}
  /\ UNCHANGED upload

Bug_MayBegin(g) == g > latestGeneration

(* The refusals of beginBuild: a failed rollback and a stale generation. *)
MayBegin(g) ==
  /\ latestGeneration \notin rollbackFailed
  /\ g > latestGeneration

(* abort() of the open session that g replaces. *)
Superseding(g) ==
  /\ outcome[latestGeneration] = "open"
  /\ outcome' = [outcome EXCEPT ![latestGeneration] = "lost", ![g] = "open"]
  /\ rollbacks' = [rollbacks EXCEPT ![latestGeneration] = @ + 1]

-----------------------------------------------------------------------------
Init ==
  /\ latestGeneration = -1
  /\ outcome = [g \in Generations |-> "unborn"]
  /\ upload = [g \in Generations |-> {}]
  /\ rollbacks = [g \in Generations |-> 0]
  /\ rollbackFailed = {}
  /\ uploads = <<>>

(* beginBuild with nothing to supersede: no session yet, or a terminal one. *)
BeginFresh(g) ==
  /\ MayBegin(g)
  /\ latestGeneration \in Generations => ~ Alive(latestGeneration)
  /\ latestGeneration' = g
  /\ outcome' = [outcome EXCEPT ![g] = "open"]
  /\ UNCHANGED <<upload, rollbacks, rollbackFailed, uploads>>

(* beginBuild aborts the open session and replaces it. *)
BeginSuperseding(g) ==
  /\ MayBegin(g)
  /\ latestGeneration \in Generations
  /\ Alive(latestGeneration)
  /\ Superseding(g)
  /\ latestGeneration' = g
  /\ UNCHANGED <<upload, rollbackFailed, uploads>>

(* beginBuild aborts the open session but does not replace it: the rollback *)
(* fails, or the constructor of the replacement refuses its participants.   *)
BeginAbortsOnly(g) ==
  /\ MayBegin(g)
  /\ latestGeneration \in Generations
  /\ outcome[latestGeneration] = "open"
  /\ Lose(latestGeneration)
  /\ UNCHANGED <<latestGeneration, uploads>>

(* abortCurrent, from a wrapper or from the registry that disposes the     *)
(* context: it throws while the session is publishing.                     *)
AbortCurrent ==
  /\ latestGeneration \in Generations
  /\ outcome[latestGeneration] = "open"
  /\ Lose(latestGeneration)
  /\ UNCHANGED <<latestGeneration, uploads>>

(* runPublish of a session passes its barrier. *)
SessionCloses(g) ==
  /\ outcome[g] = "open"
  /\ outcome' = [outcome EXCEPT ![g] = "uploading"]
  /\ UNCHANGED <<latestGeneration, upload, rollbacks, rollbackFailed, uploads>>

Bug_SessionUploads(g) ==
  /\ outcome[g] \in {"uploading", "lost"}
  /\ upload[g] = {}
  /\ upload' = [upload EXCEPT ![g] = {g}]
  /\ uploads' = Append(uploads, g)
  /\ UNCHANGED <<latestGeneration, outcome, rollbacks, rollbackFailed>>

(* The session hands its publication to options.publish. *)
SessionUploads(g) ==
  /\ outcome[g] = "uploading"
  /\ upload[g] = {}
  /\ upload' = [upload EXCEPT ![g] = {g}]
  /\ uploads' = Append(uploads, g)
  /\ UNCHANGED <<latestGeneration, outcome, rollbacks, rollbackFailed>>

SessionCommits(g) ==
  /\ outcome[g] = "uploading"
  /\ upload[g] # {}
  /\ outcome' = [outcome EXCEPT ![g] = "published"]
  /\ UNCHANGED <<latestGeneration, upload, rollbacks, rollbackFailed, uploads>>

(* fail() or abort() by an adapter that holds the session, or the catch of *)
(* runPublish.                                                             *)
SessionLoses(g) ==
  /\ Alive(g)
  /\ Lose(g)
  /\ UNCHANGED <<latestGeneration, uploads>>

Session(g) ==
  \/ SessionCloses(g)
  \/ SessionUploads(g)
  \/ SessionCommits(g)
  \/ SessionLoses(g)

Next ==
  \/ \E g \in Generations :
       \/ BeginFresh(g)
       \/ BeginSuperseding(g)
       \/ BeginAbortsOnly(g)
       \/ Session(g)
  \/ AbortCurrent

Spec == Init /\ [][Next]_vars

-----------------------------------------------------------------------------
(* Properties.                                                             *)

TypeOK ==
  /\ latestGeneration \in Generations \union {-1}
  /\ outcome \in [Generations -> {"unborn", "open", "uploading", "published", "lost"}]
  /\ upload \in [Generations -> SUBSET Generations]
  /\ rollbacks \in [Generations -> Nat]
  /\ rollbackFailed \subseteq Generations
  /\ uploads \in Seq(Generations)

(* Only the newest generation can still publish: beginBuild ends the older *)
(* session before it returns the newer, or does not return one.            *)
OnlyLatestAlive ==
  \A g \in Generations : Alive(g) => g = latestGeneration

(* The uploads of one application start in the order of its generations,   *)
(* so that an older build is never deployed over a newer one, whatever the *)
(* adapters do with the sessions they hold.                                *)
UploadsInOrder ==
  \A i, j \in 1 .. Len(uploads) : i < j => uploads[i] < uploads[j]

(* While a generation is being uploaded, or after a rollback failed, no    *)
(* other build begins: the staged state the rollback left is not reused.   *)
NoUnsafeSupersession ==
  [][latestGeneration' # latestGeneration /\ latestGeneration \in Generations =>
       /\ outcome[latestGeneration] # "uploading"
       /\ latestGeneration \notin rollbackFailed
       /\ outcome'[latestGeneration] \in {"published", "lost"}]_vars

(* The generations follow each other as BuildOrder says, whatever adapters *)
(* do with the sessions of older ones: they change nothing of the latest.  *)
Order == INSTANCE BuildOrder
  WITH latest <- latestGeneration,
       phase  <- IF latestGeneration \in Generations THEN outcome[latestGeneration]
                 ELSE "none"

KeepsBuildOrder == Order!OrderSpec

=============================================================================
