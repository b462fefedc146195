--------------------------- MODULE Authentication ---------------------------
(***************************************************************************)
(* The login of zephyr-agent (auth/login.ts, node-persist/session-lock.ts, *)
(* node-persist/token.ts), run by several processes of one machine that    *)
(* share the stored token, the session lock and the file with the session  *)
(* key.                                                                    *)
(*                                                                         *)
(* Every process calls checkAuth once; later the platform may answer one   *)
(* of its requests with 401, which cleans the stored token: that of the    *)
(* request where the caller named it (credentialToken), any token where it *)
(* did not.  A token operation holds the storage lock 'auth-token' from    *)
(* its first access to its last.  Tokens are numbers, in the order they    *)
(* are issued.  Tokens from the environment, from CI and    *)
(* from a server principal, which need no login, are left out.             *)
(*                                                                         *)
(* Bug_X is X with a plausible slip, and no part of the model.             *)
(***************************************************************************)
EXTENDS Naturals

CONSTANTS Processes,
          Settings   \* the circumstances to consider: is an expired token of an
                     \* earlier login stored at the start, may the platform
                     \* answer 401, may a process be killed?

None == "none"          \* no process holds the lock

ASSUME AuthenticationAssumption ==
  /\ {None, "earlier"} \intersect Processes = {}
  /\ Settings \subseteq [expired: BOOLEAN, rejects: BOOLEAN, crashes: BOOLEAN]

VARIABLES setting,       \* one of Settings, which never changes
          stored,        \* the token in the storage, 0 for none
          issued,        \* the number of the newest token
          storageLock,   \* holder of the storage lock 'auth-token'
          sessionLock,   \* holder of the session lock
          sessionFile,   \* owner of the key in ZE_SESSION_LOCK, or None
          pc,            \* where each process stands
          session,       \* the key a process shows, by its owner
          waitsFor,      \* history: the owner a waiter found
          seen           \* the token a process has read, and may name to remove

locks     == <<storageLock, sessionLock, sessionFile>>
loginVars == <<setting, stored, issued, locks, pc, session, waitsFor, seen>>

-----------------------------------------------------------------------------
(* The token of the earlier login is number 1. *)
Expired(t) == setting.expired /\ t = 1

Goes(p, from, to) == pc[p] = from /\ pc' = [pc EXCEPT ![p] = to]

Ended == {"authorized", "unauthorized", "failed", "crashed"}

StorageFree == storageLock = None

Bug_Release(p) == sessionLock' = None

(* using sessionKey: the owner unlocks however checkAuth ends. *)
Release(p) == sessionLock' = IF sessionLock = p THEN None ELSE sessionLock

LoginInit ==
  /\ setting \in Settings
  /\ stored = (IF setting.expired THEN 1 ELSE 0)
  /\ issued = stored
  /\ storageLock = None
  /\ sessionLock = None
  /\ sessionFile \in {None, "earlier"}
  /\ pc = [p \in Processes |-> "start"]
  /\ session = [p \in Processes |-> None]
  /\ waitsFor = [p \in Processes |-> None]
  /\ seen = [p \in Processes |-> 0]

-----------------------------------------------------------------------------
(* getToken and what checkAuth makes of it. *)
CheckToken(p) ==
  /\ StorageFree
  /\ \/ stored # 0 /\ ~ Expired(stored) /\ Goes(p, "start", "authorized")
     \/ Expired(stored) /\ Goes(p, "start", "removing")
     \/ stored = 0 /\ Goes(p, "start", "needs_login")
  /\ seen' = [seen EXCEPT ![p] = stored]
  /\ UNCHANGED <<setting, stored, issued, locks, session, waitsFor>>

Bug_BeginRemoval(p) ==
  /\ StorageFree
  /\ \/ Goes(p, "removing", "deleting_expired")
     \/ Goes(p, "cleaning", "deleting_rejected")
     \/ Goes(p, "cleaning_all", "deleting_all")
  /\ storageLock' = p
  /\ UNCHANGED <<setting, stored, issued, sessionLock, sessionFile, session, waitsFor, seen>>

(* removeToken reads the stored token under the lock.  checkAuth and a     *)
(* rejected request that named no token remove whatever is there, one that *)
(* named its token only that.                                              *)
BeginRemoval(p) ==
  /\ StorageFree
  /\ \/ Goes(p, "removing", "deleting_expired") /\ storageLock' = p
     \/ Goes(p, "cleaning_all", "deleting_all") /\ storageLock' = p
     \/ stored = seen[p] /\ Goes(p, "cleaning", "deleting_rejected") /\ storageLock' = p
     \/ stored # seen[p] /\ Goes(p, "cleaning", "failed") /\ UNCHANGED storageLock
  /\ UNCHANGED <<setting, stored, issued, sessionLock, sessionFile, session, waitsFor, seen>>

(* nodePersist.removeItem, still under the lock; a rejected request then   *)
(* fails, and with it checkAuth if it was the one for the login URL.       *)
FinishRemoval(p) ==
  /\ \/ Goes(p, "deleting_expired", "needs_login") /\ UNCHANGED sessionLock
     \/ Goes(p, "deleting_rejected", "failed") /\ UNCHANGED sessionLock
     \/ Goes(p, "deleting_all", "failed") /\ Release(p)
  /\ stored' = 0
  /\ storageLock' = None
  /\ UNCHANGED <<setting, issued, sessionFile, session, waitsFor, seen>>

(* getSessionKey takes the lock ...                                        *)
LockSession(p) ==
  /\ sessionLock = None
  /\ Goes(p, "needs_login", "writing_key")
  /\ sessionLock' = p
  /\ UNCHANGED <<setting, stored, issued, storageLock, sessionFile, session, waitsFor, seen>>

(* ... and then writes its key into the file, which a write truncates      *)
(* before it fills it.                                                     *)
TruncateKey(p) ==
  /\ Goes(p, "writing_key", "filling_key")
  /\ sessionFile' = None
  /\ UNCHANGED <<setting, stored, issued, storageLock, sessionLock, session, waitsFor, seen>>

FillKey(p) ==
  /\ Goes(p, "filling_key", "asks_url")
  /\ sessionFile' = p
  /\ session' = [session EXCEPT ![p] = p]
  /\ UNCHANGED <<setting, stored, issued, storageLock, sessionLock, waitsFor, seen>>

(* Or it finds the lock taken and reads the key of the owner.              *)
FindLocked(p) ==
  /\ sessionLock # None
  /\ Goes(p, "needs_login", "reading_key")
  /\ waitsFor' = [waitsFor EXCEPT ![p] = sessionLock]
  /\ UNCHANGED <<setting, stored, issued, locks, session, seen>>

(* A key of the wrong length is read once more.                            *)
ReadKey(p) ==
  /\ \/ sessionFile = None /\ Goes(p, "reading_key", "reading_again")
     \/ sessionFile # None /\ Goes(p, "reading_key", "asks_url")
     \/ Goes(p, "reading_again", "asks_url")
  /\ session' = [session EXCEPT ![p] = sessionFile]
  /\ UNCHANGED <<setting, stored, issued, locks, waitsFor, seen>>

(* getAuthenticationURL; then the owner listens for the token and everyone *)
(* else polls the session lock.                                            *)
UrlArrives(p) ==
  /\ \/ sessionLock = p /\ Goes(p, "asks_url", "listening")
     \/ sessionLock # p /\ Goes(p, "asks_url", "waiting")
  /\ UNCHANGED <<setting, stored, issued, locks, session, waitsFor, seen>>

(* makeRequest reports an error and checkAuth throws; after a 401, which   *)
(* names no token, it cleans first, the session still locked by its owner. *)
UrlFails(p) ==
  /\ \/ Goes(p, "asks_url", "failed") /\ Release(p)
     \/ setting.rejects /\ Goes(p, "asks_url", "cleaning_all") /\ UNCHANGED sessionLock
  /\ UNCHANGED <<setting, stored, issued, storageLock, sessionFile, session, waitsFor, seen>>

(* The user logs in on the page of p.                                      *)
TokenArrives(p) ==
  /\ Goes(p, "listening", "saving")
  /\ UNCHANGED <<setting, stored, issued, locks, session, waitsFor, seen>>

(* waitForToken gives up, or its connection breaks.                        *)
ListeningFails(p) ==
  /\ Goes(p, "listening", "failed")
  /\ Release(p)
  /\ UNCHANGED <<setting, stored, issued, storageLock, sessionFile, session, waitsFor, seen>>

(* saveToken, under the storage lock.                                      *)
SaveToken(p) ==
  /\ StorageFree
  /\ Goes(p, "saving", "saved")
  /\ issued' = issued + 1
  /\ stored' = issued + 1
  /\ UNCHANGED <<setting, locks, session, waitsFor, seen>>

(* The owner leaves checkAuth, which unlocks the session.                  *)
OwnerEnds(p) ==
  /\ Goes(p, "saved", "authorized")
  /\ Release(p)
  /\ UNCHANGED <<setting, stored, issued, storageLock, sessionFile, session, waitsFor, seen>>

Bug_SeeUnlock(p) ==
  /\ Goes(p, "waiting", "rechecking")
  /\ UNCHANGED <<setting, stored, issued, locks, session, waitsFor, seen>>

(* waitForUnlock polls.                                                    *)
SeeUnlock(p) ==
  /\ sessionLock = None
  /\ Goes(p, "waiting", "rechecking")
  /\ UNCHANGED <<setting, stored, issued, locks, session, waitsFor, seen>>

(* The waiter's getToken; without a token it gives up.                     *)
Recheck(p) ==
  /\ StorageFree
  /\ \/ stored # 0 /\ Goes(p, "rechecking", "authorized")
     \/ stored = 0 /\ Goes(p, "rechecking", "unauthorized")
  /\ UNCHANGED <<setting, stored, issued, locks, session, waitsFor, seen>>

(* A request with the stored token is answered 401: cleanTokens, of this   *)
(* token or, for a caller without credentialToken (uploadFile and others), *)
(* of any.                                                                 *)
RequestRejected(p) ==
  /\ setting.rejects
  /\ stored # 0
  /\ StorageFree
  /\ Goes(p, "authorized", "cleaning") \/ Goes(p, "authorized", "cleaning_all")
  /\ seen' = [seen EXCEPT ![p] = stored]
  /\ UNCHANGED <<setting, stored, issued, locks, session, waitsFor>>

Crash(p) ==
  /\ setting.crashes
  /\ pc[p] \notin Ended
  /\ pc' = [pc EXCEPT ![p] = "crashed"]
  /\ UNCHANGED <<setting, stored, issued, locks, session, waitsFor, seen>>

Held(p) == p # None /\ pc[p] # "crashed"

Bug_LocksBecomeStale ==
  /\ storageLock # None /\ ~ Held(storageLock)
  /\ storageLock' = None
  /\ UNCHANGED <<setting, stored, issued, sessionLock, sessionFile, pc, session, waitsFor, seen>>

(* proper-lockfile: a lock nobody refreshes any more counts as free.       *)
LocksBecomeStale ==
  /\ \/ /\ storageLock # None /\ ~ Held(storageLock)
        /\ storageLock' = None
        /\ UNCHANGED sessionLock
     \/ /\ sessionLock # None /\ ~ Held(sessionLock)
        /\ sessionLock' = None
        /\ UNCHANGED storageLock
  /\ UNCHANGED <<setting, stored, issued, sessionFile, pc, session, waitsFor, seen>>

(* Everything p does by itself. *)
Step(p) ==
  \/ CheckToken(p) \/ BeginRemoval(p) \/ FinishRemoval(p)
  \/ LockSession(p) \/ TruncateKey(p) \/ FillKey(p)
  \/ FindLocked(p) \/ ReadKey(p)
  \/ UrlArrives(p) \/ UrlFails(p)
  \/ ListeningFails(p) \/ SaveToken(p) \/ OwnerEnds(p)
  \/ SeeUnlock(p) \/ Recheck(p)

LoginNext ==
  \/ \E p \in Processes : Step(p) \/ TokenArrives(p) \/ RequestRejected(p) \/ Crash(p)
  \/ LocksBecomeStale

(* A process that can go on does: requests are answered or fail, listening *)
(* ends with a token or with its timeout, an unlock is noticed.  The lock  *)
(* of a dead process becomes stale.  Nobody has to log in.                 *)
LoginProgress ==
  /\ \A p \in Processes : WF_loginVars(Step(p))
  /\ WF_loginVars(LocksBecomeStale)

LoginSpec == LoginInit /\ [][LoginNext]_loginVars /\ LoginProgress

-----------------------------------------------------------------------------
(* Properties.                                                             *)

LoginTypeOK ==
  /\ setting \in Settings
  /\ stored \in 0 .. issued
  /\ issued \in Nat
  /\ storageLock \in Processes \union {None}
  /\ sessionLock \in Processes \union {None}
  /\ sessionFile \in Processes \union {None, "earlier"}
  /\ pc \in [Processes -> Ended \union
               {"start", "removing", "deleting_expired", "needs_login", "writing_key",
                "filling_key", "reading_key", "reading_again", "asks_url", "listening",
                "saving", "saved", "waiting", "rechecking", "cleaning", "deleting_rejected",
                "cleaning_all", "deleting_all"}]
  /\ session \in [Processes -> Processes \union {None, "earlier"}]
  /\ waitsFor \in [Processes -> Processes \union {None}]
  /\ seen \in [Processes -> Nat]

(* A waiter is told "No token found" only if its login was not completed.  *)
WaitersAuthorized ==
  \A p \in Processes : pc[p] = "unauthorized" => pc[waitsFor[p]] # "authorized"

(* The same where no token can be lost on the way: nothing but the login   *)
(* itself, or the death of its owner, keeps the token from a waiter.       *)
WaitersGetTheToken ==
  ~ setting.expired /\ ~ setting.rejects => WaitersAuthorized

(* An answer 401 to a request that named its token never costs a newer     *)
(* one, whatever the others store or remove between the two; one to a      *)
(* request that named none may.                                            *)
NamedRejectionIsExact ==
  [][\A p \in Processes : pc[p] = "deleting_rejected" /\ stored # 0 /\ stored' = 0 =>
       stored = seen[p]]_loginVars

(* Only the owner of the session lock listens for a token or stores one.   *)
OneLogin ==
  \A p \in Processes : pc[p] \in {"listening", "saving", "saved"} => sessionLock = p

(* Every checkAuth ends, with crashed owners and without a user at hand.   *)
EveryLoginEnds == \A p \in Processes : <>(pc[p] \in Ended)

=============================================================================
