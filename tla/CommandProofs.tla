---------------------------- MODULE CommandProofs ----------------------------
(***************************************************************************)
(* Theorems about the processes a developer keeps on one machine:          *)
(* WatchPublisher, the watch command, for every set of files, every number *)
(* of writes, and whether or not anything fails; and Authentication, the   *)
(* login they share, for every set of processes and all circumstances.     *)
(*                                                                         *)
(* The properties of the command rest on Inv, those of the login on        *)
(* LoginInv, at the end of the module.                                     *)
(***************************************************************************)
EXTENDS WatchPublisher, Authentication, TLAPS

(* A run is in progress exactly while its promise is kept, and at the end  *)
(* of collecting every file was read. *)
RunInv ==
  /\ active <=> run # "none"
  /\ run = "uploading" => \A f \in Files : taken[f] # -1

(* Nobody has asked for more than was written.  What was read since the    *)
(* run began is as new as the latest request, unless one came later.       *)
RequestInv ==
  /\ \A f \in Files : content[f] <= writes /\ asked[f] <= content[f]
  /\ \A f \in Files : taken[f] <= content[f] /\ published[f] <= content[f]
  /\ active /\ ~ followUpRequested =>
       \A f \in Files : taken[f] # -1 => taken[f] >= asked[f]

(* A change the watcher saw is asked for, or about to be; before there is  *)
(* a watcher nothing is seen. *)
EventInv ==
  /\ command = "baseline" => ~ noticed
  /\ command = "watching" /\ noticed /\ ~ notified /\ ~ timer =>
       \A f \in Directory : asked[f] = content[f]

Inv == TypeOK /\ RunInv /\ RequestInv /\ EventInv /\ RequestsAreHonoured

-----------------------------------------------------------------------------
(* Lemma: the command starts in a state of the invariant. *)
LEMMA InitInv == Init => Inv
<1> SUFFICES ASSUME Init PROVE Inv
  OBVIOUS
<1>1. TypeOK
  BY DEF Init, TypeOK, Unread
<1>2. RunInv /\ RequestInv /\ EventInv /\ RequestsAreHonoured
  BY DEF Init, Unread, RunInv, RequestInv, EventInv, RequestsAreHonoured
<1> QED
  BY <1>1, <1>2 DEF Inv

(* Lemma: a build that writes a file keeps the invariant. *)
LEMMA WriteStep == ASSUME Inv, NEW f \in Files, Write(f) PROVE Inv'
<1> USE DEF Inv, Write, output, publisher
<1>1. TypeOK'
  <2>1. writes' \in Nat /\ content' \in [Files -> Nat]
    BY DEF TypeOK
  <2>2. notified' \in BOOLEAN /\ noticed' \in BOOLEAN
    BY DEF TypeOK
  <2> QED
    BY <2>1, <2>2 DEF TypeOK
<1>2. \A g \in Files : content'[g] = IF g = f THEN writes + 1 ELSE content[g]
  BY DEF TypeOK
<1>3. RunInv'
  BY DEF RunInv
<1>4. RequestInv'
  BY <1>2 DEF TypeOK, RequestInv
<1>5. EventInv'
  BY <1>2, WatchAssumption DEF TypeOK, EventInv
<1>6. RequestsAreHonoured'
  BY DEF RequestsAreHonoured
<1> QED
  BY <1>1, <1>3, <1>4, <1>5, <1>6

(* Lemma: an event that sets the timer keeps the invariant. *)
LEMMA ScheduleStep == ASSUME Inv, SchedulePublication PROVE Inv'
BY DEF Inv, SchedulePublication, output, publisher, TypeOK, RunInv, RequestInv, EventInv,
       RequestsAreHonoured

(* Lemma: what a request starts has read nothing yet, and a request that   *)
(* starts nothing asks for a follow-up. *)
LEMMA TimerStep == ASSUME Inv, TimerFires PROVE Inv'
<1> USE DEF Inv, TimerFires, Request, output
<1>1. TypeOK'
  BY DEF TypeOK, Unread
<1>2. RunInv'
  BY DEF RunInv, TypeOK
<1>3. RequestInv'
  BY DEF TypeOK, RequestInv, Unread
<1>4. EventInv'
  BY WatchAssumption DEF EventInv
<1>5. active'
  OBVIOUS
<1> QED
  BY <1>1, <1>2, <1>3, <1>4, <1>5 DEF RequestsAreHonoured

(* Lemma: a file that is read is as new as any request so far. *)
LEMMA ReadStep == ASSUME Inv, NEW f \in Files, Read(f) PROVE Inv'
<1> USE DEF Inv, Read, output
<1>1. TypeOK'
  BY DEF TypeOK
<1>2. \A g \in Files : taken'[g] = IF g = f THEN content[g] ELSE taken[g]
  BY DEF TypeOK
<1>3. RunInv'
  BY <1>2 DEF RunInv, TypeOK, Files
<1>4. RequestInv'
  BY <1>2 DEF RequestInv, TypeOK
<1>5. EventInv' /\ RequestsAreHonoured'
  BY DEF EventInv, RequestsAreHonoured
<1> QED
  BY <1>1, <1>3, <1>4, <1>5

(* Lemma: a publication has what was asked for, or is followed by one.  *)
LEMMA SuccessStep == ASSUME Inv, PublishSucceeds PROVE Inv'
<1> USE DEF Inv, PublishSucceeds, RunEnds, output
<1>1. TypeOK'
  BY DEF TypeOK, Unread, Running
<1>2. RunInv'
  BY DEF RunInv
<1>3. RequestInv'
  BY DEF RequestInv, TypeOK, Unread
<1>4. EventInv'
  <2>1. CASE command = "watching"
    BY <2>1 DEF EventInv
  <2>2. CASE command # "watching"
    BY <2>2 DEF EventInv, Running
  <2> QED
    BY <2>1, <2>2
<1>5. RequestsAreHonoured'
  BY DEF RequestsAreHonoured, RequestInv, RunInv
<1> QED
  BY <1>1, <1>2, <1>3, <1>4, <1>5

(* Lemma: a run that is rejected leaves the rest of the invariant alone. *)
LEMMA FailureStep == ASSUME Inv, PublishFails PROVE Inv'
<1> USE DEF Inv, PublishFails, RunEnds, output
<1>1. TypeOK'
  BY DEF TypeOK, Running
<1>2. RunInv'
  BY DEF RunInv
<1>3. RequestInv'
  BY DEF RequestInv, TypeOK
<1>4. EventInv'
  BY DEF EventInv, Running
<1>5. RequestsAreHonoured'
  BY DEF RequestsAreHonoured
<1> QED
  BY <1>1, <1>2, <1>3, <1>4, <1>5

(* Lemma: a command that stops or exits leaves the publisher alone. *)
LEMMA EndStep == ASSUME Inv, Stop \/ Exit \/ UNCHANGED vars PROVE Inv'
<1> USE DEF Inv, output, publisher
<1>1. CASE Stop
  BY <1>1 DEF Stop, TypeOK, RunInv, RequestInv, EventInv, RequestsAreHonoured
<1>2. CASE Exit
  BY <1>2 DEF Exit, TypeOK, RunInv, RequestInv, EventInv, RequestsAreHonoured
<1>3. CASE UNCHANGED vars
  BY <1>3 DEF vars, TypeOK, RunInv, RequestInv, EventInv, RequestsAreHonoured
<1> QED
  BY <1>1, <1>2, <1>3

-----------------------------------------------------------------------------
(* Theorem: the invariant holds in every reachable state. *)
THEOREM Invariance == Spec => []Inv
<1>1. Inv /\ [Next]_vars => Inv'
  <2> SUFFICES ASSUME Inv, [Next]_vars PROVE Inv'
    OBVIOUS
  <2> QED
    BY WriteStep, ScheduleStep, TimerStep, ReadStep, SuccessStep, FailureStep, EndStep
       DEF Next, Publish
<1> QED
  BY <1>1, InitInv, PTL DEF Spec

(* Theorem: every variable keeps its type. *)
THEOREM TypeCorrect == Spec => []TypeOK
<1>1. Inv => TypeOK
  BY DEF Inv
<1> QED
  BY <1>1, Invariance, PTL

(* Theorem: a run that is not rejected publishes every file at least as it *)
(* was at the latest request: SequentialPublisher drops no request.        *)
THEOREM NoRequestDropped == Spec => []RequestsAreHonoured
<1>1. Inv => RequestsAreHonoured
  BY DEF Inv
<1> QED
  BY <1>1, Invariance, PTL

(* Theorem: when everything has settled after a change the watcher saw,    *)
(* the newest snapshot is the output of the build.                         *)
THEOREM SettledOutput == Spec => []SettledIsCurrent
<1>1. Inv => SettledIsCurrent
  <2> SUFFICES ASSUME Inv,
                      command = "watching", noticed, ~ notified, ~ timer, ~ active, ~ failed,
                      NEW f \in Directory
               PROVE  published[f] = content[f]
    BY DEF SettledIsCurrent
  <2>1. f \in Files
    BY WatchAssumption
  <2>2. published[f] >= asked[f] /\ published[f] <= content[f]
    BY <2>1 DEF Inv, RequestsAreHonoured, RequestInv
  <2>3. asked[f] = content[f]
    BY DEF Inv, EventInv
  <2> QED
    BY <2>1, <2>2, <2>3 DEF Inv, TypeOK
<1> QED
  BY <1>1, Invariance, PTL

-----------------------------------------------------------------------------
(* The login.  What the owner of the session lock does, it does before it  *)
(* unlocks, and a token is removed under the storage lock. *)
LockInv ==
  \A p \in Processes :
    /\ pc[p] \in {"writing_key", "filling_key", "listening", "saving", "saved"} =>
         sessionLock = p
    /\ pc[p] \in {"deleting_expired", "deleting_rejected", "deleting_all"} =>
         storageLock = p
    /\ pc[p] = "deleting_rejected" => stored = seen[p]

(* Who asks for a login page owns the session or waits for its owner.      *)
WaitInv ==
  \A p \in Processes :
    /\ pc[p] \in {"reading_key", "reading_again", "waiting", "rechecking", "unauthorized"} =>
         waitsFor[p] # None
    /\ pc[p] = "asks_url" => waitsFor[p] # None \/ sessionLock = p

(* Where no token is lost: it is there once a process has it, and an owner *)
(* is waited for until it has ended, with a token or without. *)
TokenInv ==
  ~ setting.expired /\ ~ setting.rejects =>
  \A p \in Processes :
    /\ pc[p] \notin {"removing", "deleting_expired", "cleaning", "deleting_rejected",
                     "cleaning_all", "deleting_all"}
    /\ pc[p] \in {"saved", "authorized"} => stored # 0
    /\ waitsFor[p] # None => sessionLock = waitsFor[p] \/ pc[waitsFor[p]] \in Ended
    /\ pc[p] = "rechecking" => pc[waitsFor[p]] \in Ended
    /\ pc[p] = "unauthorized" => pc[waitsFor[p]] \in Ended \ {"authorized"}

LoginInv == LoginTypeOK /\ LockInv /\ WaitInv /\ TokenInv

(* Lemma: checkAuth is called in a state of the invariant. *)
LEMMA LoginInitInv == LoginInit => LoginInv
<1> SUFFICES ASSUME LoginInit PROVE LoginInv
  OBVIOUS
<1>1. LoginTypeOK
  BY DEF LoginInit, LoginTypeOK, Ended
<1>2. LockInv /\ WaitInv /\ TokenInv
  BY DEF LoginInit, LockInv, WaitInv, TokenInv
<1> QED
  BY <1>1, <1>2 DEF LoginInv

(* Lemma: every step of a login keeps the types. *)
LEMMA LoginTypeStep == LoginTypeOK /\ [LoginNext]_loginVars => LoginTypeOK'
<1> SUFFICES ASSUME LoginTypeOK, [LoginNext]_loginVars PROVE LoginTypeOK'
  OBVIOUS
<1> USE DEF LoginTypeOK, Ended, locks
<1>1. ASSUME NEW p \in Processes, CheckToken(p) PROVE LoginTypeOK'
  BY <1>1 DEF CheckToken, StorageFree, Goes, Expired
<1>2. ASSUME NEW p \in Processes, BeginRemoval(p) PROVE LoginTypeOK'
  BY <1>2 DEF BeginRemoval, StorageFree, Goes
<1>3. ASSUME NEW p \in Processes, FinishRemoval(p) PROVE LoginTypeOK'
  BY <1>3 DEF FinishRemoval, Goes, Release
<1>4. ASSUME NEW p \in Processes, LockSession(p) PROVE LoginTypeOK'
  BY <1>4 DEF LockSession, Goes
<1>5. ASSUME NEW p \in Processes, TruncateKey(p) PROVE LoginTypeOK'
  BY <1>5 DEF TruncateKey, Goes
<1>6. ASSUME NEW p \in Processes, FillKey(p) PROVE LoginTypeOK'
  BY <1>6 DEF FillKey, Goes
<1>7. ASSUME NEW p \in Processes, FindLocked(p) PROVE LoginTypeOK'
  BY <1>7 DEF FindLocked, Goes
<1>8. ASSUME NEW p \in Processes, ReadKey(p) PROVE LoginTypeOK'
  BY <1>8 DEF ReadKey, Goes
<1>9. ASSUME NEW p \in Processes, UrlArrives(p) PROVE LoginTypeOK'
  BY <1>9 DEF UrlArrives, Goes
<1>10. ASSUME NEW p \in Processes, UrlFails(p) PROVE LoginTypeOK'
  BY <1>10 DEF UrlFails, Goes, Release
<1>11. ASSUME NEW p \in Processes, ListeningFails(p) PROVE LoginTypeOK'
  BY <1>11 DEF ListeningFails, Goes, Release
<1>12. ASSUME NEW p \in Processes, SaveToken(p) PROVE LoginTypeOK'
  BY <1>12 DEF SaveToken, StorageFree, Goes
<1>13. ASSUME NEW p \in Processes, OwnerEnds(p) PROVE LoginTypeOK'
  BY <1>13 DEF OwnerEnds, Goes, Release
<1>14. ASSUME NEW p \in Processes, SeeUnlock(p) PROVE LoginTypeOK'
  BY <1>14 DEF SeeUnlock, Goes
<1>15. ASSUME NEW p \in Processes, Recheck(p) PROVE LoginTypeOK'
  BY <1>15 DEF Recheck, StorageFree, Goes
<1>16. ASSUME NEW p \in Processes, TokenArrives(p) PROVE LoginTypeOK'
  BY <1>16 DEF TokenArrives, Goes
<1>17. ASSUME NEW p \in Processes, RequestRejected(p) PROVE LoginTypeOK'
  BY <1>17 DEF RequestRejected, StorageFree, Goes
<1>18. ASSUME NEW p \in Processes, Crash(p) PROVE LoginTypeOK'
  BY <1>18 DEF Crash
<1>19. CASE LocksBecomeStale
  BY <1>19 DEF LocksBecomeStale, Held
<1>20. CASE UNCHANGED loginVars
  BY <1>20 DEF loginVars
<1> QED
  BY <1>1, <1>2, <1>3, <1>4, <1>5, <1>6, <1>7, <1>8, <1>9, <1>10, <1>11,
     <1>12, <1>13, <1>14, <1>15, <1>16, <1>17, <1>18, <1>19, <1>20
     DEF LoginNext, Step

(* Lemma: the two locks are held for as long as they are relied on. *)
LEMMA LockStep == LoginTypeOK /\ LockInv /\ [LoginNext]_loginVars => LockInv'
<1> SUFFICES ASSUME LoginTypeOK, LockInv, [LoginNext]_loginVars PROVE LockInv'
  OBVIOUS
<1> USE AuthenticationAssumption DEF LoginTypeOK, LockInv, Ended, locks
<1>1. ASSUME NEW p \in Processes, CheckToken(p) PROVE LockInv'
  BY <1>1 DEF CheckToken, StorageFree, Goes, Expired
<1>2. ASSUME NEW p \in Processes, BeginRemoval(p) PROVE LockInv'
  BY <1>2 DEF BeginRemoval, StorageFree, Goes
<1>3. ASSUME NEW p \in Processes, FinishRemoval(p) PROVE LockInv'
  BY <1>3 DEF FinishRemoval, Goes, Release
<1>4. ASSUME NEW p \in Processes, LockSession(p) PROVE LockInv'
  BY <1>4 DEF LockSession, Goes
<1>5. ASSUME NEW p \in Processes, TruncateKey(p) PROVE LockInv'
  BY <1>5 DEF TruncateKey, Goes
<1>6. ASSUME NEW p \in Processes, FillKey(p) PROVE LockInv'
  BY <1>6 DEF FillKey, Goes
<1>7. ASSUME NEW p \in Processes, FindLocked(p) PROVE LockInv'
  BY <1>7 DEF FindLocked, Goes
<1>8. ASSUME NEW p \in Processes, ReadKey(p) PROVE LockInv'
  BY <1>8 DEF ReadKey, Goes
<1>9. ASSUME NEW p \in Processes, UrlArrives(p) PROVE LockInv'
  BY <1>9 DEF UrlArrives, Goes
<1>10. ASSUME NEW p \in Processes, UrlFails(p) PROVE LockInv'
  BY <1>10 DEF UrlFails, Goes, Release
<1>11. ASSUME NEW p \in Processes, ListeningFails(p) PROVE LockInv'
  BY <1>11 DEF ListeningFails, Goes, Release
<1>12. ASSUME NEW p \in Processes, SaveToken(p) PROVE LockInv'
  BY <1>12 DEF SaveToken, StorageFree, Goes
<1>13. ASSUME NEW p \in Processes, OwnerEnds(p) PROVE LockInv'
  BY <1>13 DEF OwnerEnds, Goes, Release
<1>14. ASSUME NEW p \in Processes, SeeUnlock(p) PROVE LockInv'
  BY <1>14 DEF SeeUnlock, Goes
<1>15. ASSUME NEW p \in Processes, Recheck(p) PROVE LockInv'
  BY <1>15 DEF Recheck, StorageFree, Goes
<1>16. ASSUME NEW p \in Processes, TokenArrives(p) PROVE LockInv'
  BY <1>16 DEF TokenArrives, Goes
<1>17. ASSUME NEW p \in Processes, RequestRejected(p) PROVE LockInv'
  BY <1>17 DEF RequestRejected, StorageFree, Goes
<1>18. ASSUME NEW p \in Processes, Crash(p) PROVE LockInv'
  BY <1>18 DEF Crash
<1>19. CASE LocksBecomeStale
  BY <1>19 DEF LocksBecomeStale, Held
<1>20. CASE UNCHANGED loginVars
  BY <1>20 DEF loginVars
<1> QED
  BY <1>1, <1>2, <1>3, <1>4, <1>5, <1>6, <1>7, <1>8, <1>9, <1>10, <1>11,
     <1>12, <1>13, <1>14, <1>15, <1>16, <1>17, <1>18, <1>19, <1>20
     DEF LoginNext, Step

(* Lemma: whoever waits remembers an owner. *)
LEMMA WaitStep ==
  LoginTypeOK /\ LockInv /\ WaitInv /\ [LoginNext]_loginVars => WaitInv'
<1> SUFFICES ASSUME LoginTypeOK, LockInv, WaitInv, [LoginNext]_loginVars PROVE WaitInv'
  OBVIOUS
<1> USE AuthenticationAssumption DEF LoginTypeOK, LockInv, WaitInv, Ended, locks
<1>1. ASSUME NEW p \in Processes, CheckToken(p) PROVE WaitInv'
  BY <1>1 DEF CheckToken, StorageFree, Goes, Expired
<1>2. ASSUME NEW p \in Processes, BeginRemoval(p) PROVE WaitInv'
  BY <1>2 DEF BeginRemoval, StorageFree, Goes
<1>3. ASSUME NEW p \in Processes, FinishRemoval(p) PROVE WaitInv'
  BY <1>3 DEF FinishRemoval, Goes, Release
<1>4. ASSUME NEW p \in Processes, LockSession(p) PROVE WaitInv'
  BY <1>4 DEF LockSession, Goes
<1>5. ASSUME NEW p \in Processes, TruncateKey(p) PROVE WaitInv'
  BY <1>5 DEF TruncateKey, Goes
<1>6. ASSUME NEW p \in Processes, FillKey(p) PROVE WaitInv'
  BY <1>6 DEF FillKey, Goes
<1>7. ASSUME NEW p \in Processes, FindLocked(p) PROVE WaitInv'
  BY <1>7 DEF FindLocked, Goes
<1>8. ASSUME NEW p \in Processes, ReadKey(p) PROVE WaitInv'
  BY <1>8 DEF ReadKey, Goes
<1>9. ASSUME NEW p \in Processes, UrlArrives(p) PROVE WaitInv'
  BY <1>9 DEF UrlArrives, Goes
<1>10. ASSUME NEW p \in Processes, UrlFails(p) PROVE WaitInv'
  BY <1>10 DEF UrlFails, Goes, Release
<1>11. ASSUME NEW p \in Processes, ListeningFails(p) PROVE WaitInv'
  BY <1>11 DEF ListeningFails, Goes, Release
<1>12. ASSUME NEW p \in Processes, SaveToken(p) PROVE WaitInv'
  BY <1>12 DEF SaveToken, StorageFree, Goes
<1>13. ASSUME NEW p \in Processes, OwnerEnds(p) PROVE WaitInv'
  BY <1>13 DEF OwnerEnds, Goes, Release
<1>14. ASSUME NEW p \in Processes, SeeUnlock(p) PROVE WaitInv'
  BY <1>14 DEF SeeUnlock, Goes
<1>15. ASSUME NEW p \in Processes, Recheck(p) PROVE WaitInv'
  BY <1>15 DEF Recheck, StorageFree, Goes
<1>16. ASSUME NEW p \in Processes, TokenArrives(p) PROVE WaitInv'
  BY <1>16 DEF TokenArrives, Goes
<1>17. ASSUME NEW p \in Processes, RequestRejected(p) PROVE WaitInv'
  BY <1>17 DEF RequestRejected, StorageFree, Goes
<1>18. ASSUME NEW p \in Processes, Crash(p) PROVE WaitInv'
  BY <1>18 DEF Crash
<1>19. CASE LocksBecomeStale
  BY <1>19 DEF LocksBecomeStale, Held
<1>20. CASE UNCHANGED loginVars
  BY <1>20 DEF loginVars
<1> QED
  BY <1>1, <1>2, <1>3, <1>4, <1>5, <1>6, <1>7, <1>8, <1>9, <1>10, <1>11,
     <1>12, <1>13, <1>14, <1>15, <1>16, <1>17, <1>18, <1>19, <1>20
     DEF LoginNext, Step

(* Lemma: where no token is lost, an owner ends before it is given up. *)
LEMMA TokenStep == LoginInv /\ [LoginNext]_loginVars => TokenInv'
<1> SUFFICES ASSUME LoginInv, [LoginNext]_loginVars PROVE TokenInv'
  OBVIOUS
<1> USE AuthenticationAssumption
    DEF LoginInv, LoginTypeOK, LockInv, WaitInv, TokenInv, Ended, locks
<1>1. ASSUME NEW p \in Processes, CheckToken(p) PROVE TokenInv'
  BY <1>1 DEF CheckToken, StorageFree, Goes, Expired
<1>2. ASSUME NEW p \in Processes, BeginRemoval(p) PROVE TokenInv'
  BY <1>2 DEF BeginRemoval, StorageFree, Goes
<1>3. ASSUME NEW p \in Processes, FinishRemoval(p) PROVE TokenInv'
  BY <1>3 DEF FinishRemoval, Goes, Release
<1>4. ASSUME NEW p \in Processes, LockSession(p) PROVE TokenInv'
  BY <1>4 DEF LockSession, Goes
<1>5. ASSUME NEW p \in Processes, TruncateKey(p) PROVE TokenInv'
  BY <1>5 DEF TruncateKey, Goes
<1>6. ASSUME NEW p \in Processes, FillKey(p) PROVE TokenInv'
  BY <1>6 DEF FillKey, Goes
<1>7. ASSUME NEW p \in Processes, FindLocked(p) PROVE TokenInv'
  BY <1>7 DEF FindLocked, Goes
<1>8. ASSUME NEW p \in Processes, ReadKey(p) PROVE TokenInv'
  BY <1>8 DEF ReadKey, Goes
<1>9. ASSUME NEW p \in Processes, UrlArrives(p) PROVE TokenInv'
  BY <1>9 DEF UrlArrives, Goes
<1>10. ASSUME NEW p \in Processes, UrlFails(p) PROVE TokenInv'
  BY <1>10 DEF UrlFails, Goes, Release
<1>11. ASSUME NEW p \in Processes, ListeningFails(p) PROVE TokenInv'
  BY <1>11 DEF ListeningFails, Goes, Release
<1>12. ASSUME NEW p \in Processes, SaveToken(p) PROVE TokenInv'
  BY <1>12 DEF SaveToken, StorageFree, Goes
<1>13. ASSUME NEW p \in Processes, OwnerEnds(p) PROVE TokenInv'
  BY <1>13 DEF OwnerEnds, Goes, Release
<1>14. ASSUME NEW p \in Processes, SeeUnlock(p) PROVE TokenInv'
  BY <1>14 DEF SeeUnlock, Goes
<1>15. ASSUME NEW p \in Processes, Recheck(p) PROVE TokenInv'
  BY <1>15 DEF Recheck, StorageFree, Goes
<1>16. ASSUME NEW p \in Processes, TokenArrives(p) PROVE TokenInv'
  BY <1>16 DEF TokenArrives, Goes
<1>17. ASSUME NEW p \in Processes, RequestRejected(p) PROVE TokenInv'
  BY <1>17 DEF RequestRejected, StorageFree, Goes
<1>18. ASSUME NEW p \in Processes, Crash(p) PROVE TokenInv'
  BY <1>18 DEF Crash
<1>19. CASE LocksBecomeStale
  BY <1>19 DEF LocksBecomeStale, Held
<1>20. CASE UNCHANGED loginVars
  BY <1>20 DEF loginVars
<1> QED
  BY <1>1, <1>2, <1>3, <1>4, <1>5, <1>6, <1>7, <1>8, <1>9, <1>10, <1>11,
     <1>12, <1>13, <1>14, <1>15, <1>16, <1>17, <1>18, <1>19, <1>20
     DEF LoginNext, Step

(* Theorem: the processes that log in never leave the invariant. *)
THEOREM LoginInvariance == LoginSpec => []LoginInv
<1>1. LoginInv /\ [LoginNext]_loginVars => LoginInv'
  BY LoginTypeStep, LockStep, WaitStep, TokenStep DEF LoginInv
<1> QED
  BY <1>1, LoginInitInv, PTL DEF LoginSpec

(* Theorem: the shared token, both locks, the key file and the memory of   *)
(* every process keep their types. *)
THEOREM LoginTypeCorrect == LoginSpec => []LoginTypeOK
BY LoginInvariance, PTL DEF LoginInv

(* Theorem: only the owner of the session lock listens for a token or      *)
(* stores one (login.ts:107), however processes die and locks go stale.     *)
THEOREM SoleLogin == LoginSpec => []OneLogin
<1>1. LoginInv => OneLogin
  BY DEF LoginInv, LockInv, OneLogin
<1> QED
  BY <1>1, LoginInvariance, PTL

(* Theorem: where no token expires or is rejected, checkAuth tells nobody  *)
(* "No token found" whose owner completed its login.                       *)
THEOREM TokenReachesWaiters == LoginSpec => []WaitersGetTheToken
<1>1. LoginInv => WaitersGetTheToken
  BY DEF LoginInv, TokenInv, WaitersGetTheToken, WaitersAuthorized
<1> QED
  BY <1>1, LoginInvariance, PTL

(* Theorem: after a 401 to a request that named its token (credentialToken *)
(* in http-request.ts) removeToken removes that token, never one another   *)
(* process stored meanwhile (token.ts:95), although requests that named    *)
(* none and checkAuth may remove any token at any time between.            *)
THEOREM ExactNamedRejection == LoginSpec => NamedRejectionIsExact
<1>1. LoginInv /\ [LoginNext]_loginVars =>
        [\A p \in Processes :
           pc[p] = "deleting_rejected" /\ stored # 0 /\ stored' = 0 =>
             stored = seen[p]]_loginVars
  BY DEF LoginInv, LockInv
<1> QED
  BY <1>1, LoginInvariance, PTL DEF LoginSpec, NamedRejectionIsExact

-----------------------------------------------------------------------------
(* What EveryLoginEnds rests on: whoever holds the session lock is on its  *)
(* way to release it, needs no other lock for that than the storage lock,  *)
(* and whoever holds the storage lock needs none; or it was killed, and    *)
(* its lock becomes stale. *)
LocksAreHeld ==
  \A p \in Processes :
    /\ sessionLock = p =>
         pc[p] \in {"writing_key", "filling_key", "asks_url", "listening",
                    "saving", "saved", "cleaning_all", "deleting_all", "crashed"}
    /\ storageLock = p =>
         pc[p] \in {"deleting_expired", "deleting_rejected", "deleting_all", "crashed"}

(* Lemma: no lock outlives its use, except that of a killed process. *)
LEMMA HeldStep == LoginTypeOK /\ LocksAreHeld /\ [LoginNext]_loginVars => LocksAreHeld'
<1> SUFFICES ASSUME LoginTypeOK, LocksAreHeld, [LoginNext]_loginVars PROVE LocksAreHeld'
  OBVIOUS
<1> USE AuthenticationAssumption DEF LoginTypeOK, LocksAreHeld, Ended, locks
<1>1. ASSUME NEW p \in Processes, CheckToken(p) PROVE LocksAreHeld'
  BY <1>1 DEF CheckToken, StorageFree, Goes, Expired
<1>2. ASSUME NEW p \in Processes, BeginRemoval(p) PROVE LocksAreHeld'
  BY <1>2 DEF BeginRemoval, StorageFree, Goes
<1>3. ASSUME NEW p \in Processes, FinishRemoval(p) PROVE LocksAreHeld'
  BY <1>3 DEF FinishRemoval, Goes, Release
<1>4. ASSUME NEW p \in Processes, LockSession(p) PROVE LocksAreHeld'
  BY <1>4 DEF LockSession, Goes
<1>5. ASSUME NEW p \in Processes, TruncateKey(p) PROVE LocksAreHeld'
  BY <1>5 DEF TruncateKey, Goes
<1>6. ASSUME NEW p \in Processes, FillKey(p) PROVE LocksAreHeld'
  BY <1>6 DEF FillKey, Goes
<1>7. ASSUME NEW p \in Processes, FindLocked(p) PROVE LocksAreHeld'
  BY <1>7 DEF FindLocked, Goes
<1>8. ASSUME NEW p \in Processes, ReadKey(p) PROVE LocksAreHeld'
  BY <1>8 DEF ReadKey, Goes
<1>9. ASSUME NEW p \in Processes, UrlArrives(p) PROVE LocksAreHeld'
  BY <1>9 DEF UrlArrives, Goes
<1>10. ASSUME NEW p \in Processes, UrlFails(p) PROVE LocksAreHeld'
  BY <1>10 DEF UrlFails, Goes, Release
<1>11. ASSUME NEW p \in Processes, ListeningFails(p) PROVE LocksAreHeld'
  BY <1>11 DEF ListeningFails, Goes, Release
<1>12. ASSUME NEW p \in Processes, SaveToken(p) PROVE LocksAreHeld'
  BY <1>12 DEF SaveToken, StorageFree, Goes
<1>13. ASSUME NEW p \in Processes, OwnerEnds(p) PROVE LocksAreHeld'
  BY <1>13 DEF OwnerEnds, Goes, Release
<1>14. ASSUME NEW p \in Processes, SeeUnlock(p) PROVE LocksAreHeld'
  BY <1>14 DEF SeeUnlock, Goes
<1>15. ASSUME NEW p \in Processes, Recheck(p) PROVE LocksAreHeld'
  BY <1>15 DEF Recheck, StorageFree, Goes
<1>16. ASSUME NEW p \in Processes, TokenArrives(p) PROVE LocksAreHeld'
  BY <1>16 DEF TokenArrives, Goes
<1>17. ASSUME NEW p \in Processes, RequestRejected(p) PROVE LocksAreHeld'
  BY <1>17 DEF RequestRejected, StorageFree, Goes
<1>18. ASSUME NEW p \in Processes, Crash(p) PROVE LocksAreHeld'
  BY <1>18 DEF Crash
<1>19. CASE LocksBecomeStale
  BY <1>19 DEF LocksBecomeStale, Held
<1>20. CASE UNCHANGED loginVars
  BY <1>20 DEF loginVars
<1> QED
  BY <1>1, <1>2, <1>3, <1>4, <1>5, <1>6, <1>7, <1>8, <1>9, <1>10, <1>11,
     <1>12, <1>13, <1>14, <1>15, <1>16, <1>17, <1>18, <1>19, <1>20
     DEF LoginNext, Step

(* Theorem: however checkAuth ends, it leaves no lock behind (session-lock.ts, *)
(* token.ts): there is no lock that nobody will release or refresh, and no *)
(* two processes that wait for each other's. *)
THEOREM NoLockLeftBehind == LoginSpec => []LocksAreHeld
<1>1. LoginInit => LocksAreHeld
  BY AuthenticationAssumption DEF LoginInit, LocksAreHeld
<1>2. LoginInv /\ LocksAreHeld /\ [LoginNext]_loginVars => LocksAreHeld'
  BY HeldStep DEF LoginInv
<1> QED
  BY <1>1, <1>2, LoginInvariance, PTL DEF LoginSpec

=============================================================================
