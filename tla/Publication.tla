----------------------------- MODULE Publication -----------------------------
(***************************************************************************)
(* What a build session promises to the application context that owns it,  *)
(* without participants, barrier or promises: the build is open, then it   *)
(* is uploading one frozen publication, then it is published; or it is     *)
(* lost, and its rollback ran when it was.  A build that was published or  *)
(* lost stays so.                                                          *)
(***************************************************************************)
EXTENDS Naturals

CONSTANT Publications   \* what may be uploaded

VARIABLES outcome,      \* "open", "uploading", "published" or "lost"
          upload,       \* {} or the singleton of what is being or was uploaded
          rollbacks     \* how often the rollback ran

absVars == <<outcome, upload, rollbacks>>

AbsInit ==
  /\ outcome = "open"
  /\ upload = {}
  /\ rollbacks = 0

(* The build closes: nothing more is accepted into it. *)
Close ==
  /\ outcome = "open"
  /\ outcome' = "uploading"
  /\ UNCHANGED <<upload, rollbacks>>

(* The callback gets the one publication. *)
Upload ==
  /\ outcome = "uploading"
  /\ upload = {}
  /\ \E publication \in upload' :
       publication \in Publications /\ upload' = {publication}
  /\ UNCHANGED <<outcome, rollbacks>>

Commit ==
  /\ outcome = "uploading"
  /\ upload # {}
  /\ outcome' = "published"
  /\ UNCHANGED <<upload, rollbacks>>

Lose ==
  /\ outcome \in {"open", "uploading"}
  /\ outcome' = "lost"
  /\ rollbacks' = rollbacks + 1
  /\ UNCHANGED upload

AbsNext ==
  \/ Close
  \/ Upload
  \/ Commit
  \/ Lose

AbsSpec == AbsInit /\ [][AbsNext]_absVars

=============================================================================
