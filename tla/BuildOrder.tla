----------------------------- MODULE BuildOrder -----------------------------
(***************************************************************************)
(* What an application promises of its successive builds, whoever keeps    *)
(* track of them: each has a higher generation than the one before, none   *)
(* begins while another is uploaded, and the latest one alone is published *)
(* or lost, once.  ApplicationContext and XPackCoordinator implement it;   *)
(* a build of the coordinator is a generation of the context.              *)
(***************************************************************************)
EXTENDS Integers

VARIABLES latest,   \* the generation of the latest build, -1 before the first
          phase     \* "none", "open", "uploading", "published" or "lost"

orderVars == <<latest, phase>>

OrderInit == latest = -1 /\ phase = "none"

(* A build begins, and ends the open one before it.  It may be lost at     *)
(* once, if it is begun to record a failure.                               *)
BeginBuild ==
  /\ phase # "uploading"
  /\ latest' \in Nat
  /\ latest' > latest
  /\ phase' \in {"open", "lost"}

CloseBuild == phase = "open" /\ phase' = "uploading" /\ UNCHANGED latest

CommitBuild == phase = "uploading" /\ phase' = "published" /\ UNCHANGED latest

LoseBuild == phase \in {"open", "uploading"} /\ phase' = "lost" /\ UNCHANGED latest

OrderNext == BeginBuild \/ CloseBuild \/ CommitBuild \/ LoseBuild

OrderSpec == OrderInit /\ [][OrderNext]_orderVars

=============================================================================
