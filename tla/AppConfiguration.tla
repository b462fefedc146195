-------------------------- MODULE AppConfiguration --------------------------
(***************************************************************************)
(* The application configuration of zephyr-agent                           *)
(* (lib/edge-requests/get-application-configuration.ts, with the record of *)
(* lib/node-persist/application-configuration.ts): the edge and the        *)
(* credentials of an application, which everything that uploads asks for.  *)
(*                                                                         *)
(* Callers of one process ask at the same time.  A configuration is found  *)
(* in the process's cache, with a request that is already in flight, on    *)
(* disk, or with the platform, and is kept under the principal and the     *)
(* application it is for.  The stored token may be replaced by a login of  *)
(* another process at any time, and goes when the platform refuses it.     *)
(*                                                                         *)
(* Endpoints and environment, which belong to the identity too, do not     *)
(* change while a process runs.  The disk is quick: the clock stands still *)
(* while a caller can go on.  The request itself is FetchRetries.          *)
(***************************************************************************)
EXTENDS FetchRetries

CONSTANTS
  Tokens,          \* what a login may store
  Applications,
  ApplicationOf,   \* the application each caller asks for
  TTL,             \* APPLICATION_CONFIG_TTL_MS
  Lives,           \* how long the credentials in an answer may be valid
  None

Callers    == Requests
Principals == Tokens \union {None}
Identities == Principals \X Applications

Configs == [principal : Principals, application : Applications,
            fetched : 0 .. MaxClock, life : Lives]

ASSUME ConfigurationAssumption ==
  /\ ApplicationOf \in [Callers -> Applications]
  /\ TTL \in Nat /\ Lives \subseteq Nat
  /\ None \notin Tokens /\ None \notin Callers /\ None \notin Configs

VARIABLES
  token,       \* the stored one
  disk,        \* the record of each identity, or None
  cache,       \* cachedConfigByIdentity
  inFlight,    \* inFlightByIdentity: the caller whose request it is
  pc,          \* where each caller stands
  principal,   \* the token it was given
  flight,      \* the caller whose request it awaits
  result,      \* the configuration it has, or None if it failed
  started      \* history: when it called, until it ends

shared == <<token, disk, cache, inFlight>>
caller == <<pc, principal, flight, result, started>>
vars   == <<shared, caller, httpVars>>

-----------------------------------------------------------------------------
Bug_Identity(c) == <<None, ApplicationOf[c]>>

Identity(c) == <<principal[c], ApplicationOf[c]>>

Ended == {"answered", "failed"}

(* The steps between a caller's start of a request and its end. *)
Flying == {"reading", "loading", "saving", "settling", "finishing"}

(* isValidConfig *)
Valid(config, application) ==
  /\ config # None
  /\ config.application = application
  /\ clock < config.fetched + config.life
  /\ clock - config.fetched <= TTL

Answers(c, config) ==
  /\ pc' = [pc EXCEPT ![c] = "answered"]
  /\ result' = [result EXCEPT ![c] = config]
  /\ started' = [started EXCEPT ![c] = 0]

Fails(c) ==
  /\ pc' = [pc EXCEPT ![c] = "failed"]
  /\ result' = [result EXCEPT ![c] = None]
  /\ started' = [started EXCEPT ![c] = 0]

Goto(c, where) == pc' = [pc EXCEPT ![c] = where]

Init ==
  /\ HttpInit
  /\ token \in Principals
  /\ disk \in [Identities -> {None}] \union
       {[i \in Identities |-> IF i = j THEN [principal |-> j[1], application |-> j[2],
                                             fetched |-> 0, life |-> l]
                              ELSE None] : j \in Identities, l \in Lives}
  /\ cache = [i \in Identities |-> None]
  /\ inFlight = [i \in Identities |-> None]
  /\ pc = [c \in Callers |-> "idle"]
  /\ principal = [c \in Callers |-> None]
  /\ flight = [c \in Callers |-> None]
  /\ result = [c \in Callers |-> None]
  /\ started = [c \in Callers |-> 0]

-----------------------------------------------------------------------------
(* getApplicationConfiguration begins with getToken. *)
Call(c) ==
  /\ pc[c] = "idle"
  /\ pc' = [pc EXCEPT ![c] = "called"]
  /\ started' = [started EXCEPT ![c] = clock]
  /\ UNCHANGED <<shared, principal, flight, result, httpVars>>

GetToken(c) ==
  /\ pc[c] = "called"
  /\ Goto(c, "lookup")
  /\ principal' = [principal EXCEPT ![c] = token]
  /\ UNCHANGED <<shared, flight, result, started, httpVars>>

(* The fast path: a valid configuration is cached. *)
Hit(c) ==
  /\ pc[c] = "lookup"
  /\ Valid(cache[Identity(c)], ApplicationOf[c])
  /\ Answers(c, cache[Identity(c)])
  /\ UNCHANGED <<shared, principal, flight, httpVars>>

Misses(c) ==
  /\ pc[c] = "lookup"
  /\ ~ Valid(cache[Identity(c)], ApplicationOf[c])
  /\ cache' = [cache EXCEPT ![Identity(c)] = None]

Join(c) ==
  /\ Misses(c)
  /\ inFlight[Identity(c)] # None
  /\ flight' = [flight EXCEPT ![c] = inFlight[Identity(c)]]
  /\ Goto(c, "joined")
  /\ UNCHANGED <<token, disk, inFlight, principal, result, started, httpVars>>

Start(c) ==
  /\ Misses(c)
  /\ inFlight[Identity(c)] = None
  /\ inFlight' = [inFlight EXCEPT ![Identity(c)] = c]
  /\ Goto(c, "reading")
  /\ UNCHANGED <<token, disk, principal, flight, result, started, httpVars>>

-----------------------------------------------------------------------------
(* The request: from the disk if what lies there is valid, or from the     *)
(* platform, whose answer is then stored.                                  *)

ReadDisk(c) ==
  /\ pc[c] = "reading"
  /\ IF Valid(disk[Identity(c)], ApplicationOf[c])
     THEN /\ result' = [result EXCEPT ![c] = disk[Identity(c)]]
          /\ Goto(c, "settling")
          /\ UNCHANGED httpVars
     ELSE /\ Goto(c, "loading")
          /\ HttpSend(c)
          /\ UNCHANGED result
  /\ UNCHANGED <<shared, principal, flight, started>>

Attempt(c) ==
  /\ pc[c] = "loading"
  /\ HttpStep(c)
  /\ UNCHANGED <<shared, caller>>

(* The platform's answer may be for another application. *)
Load(c) ==
  /\ pc[c] = "loading"
  /\ phase[c] = "ok"
  /\ \E application \in Applications, life \in Lives :
       IF application = ApplicationOf[c]
       THEN /\ result' = [result EXCEPT ![c] =
                 [principal |-> principal[c], application |-> application,
                  fetched |-> clock, life |-> life]]
            /\ Goto(c, "saving")
       ELSE UNCHANGED result /\ Goto(c, "settling")
  /\ UNCHANGED <<shared, principal, flight, started, httpVars>>

(* makeHttpRequest: a token that is refused is removed, if it is the one   *)
(* that is stored.  A caller that had none names none, and removes any.    *)
LoadFails(c) ==
  LET removes == phase[c] = "unauthorized" /\ principal[c] \in {None, token} IN
  /\ pc[c] = "loading"
  /\ phase[c] \in Outcomes \ {"ok"}
  /\ token' = IF removes THEN None ELSE token
  /\ Goto(c, "settling")
  /\ UNCHANGED <<disk, cache, inFlight, principal, flight, result, started, httpVars>>

Save(c) ==
  /\ pc[c] = "saving"
  /\ disk' = [disk EXCEPT ![Identity(c)] = result[c]]
  /\ Goto(c, "settling")
  /\ UNCHANGED <<token, cache, inFlight, principal, flight, result, started, httpVars>>

SaveFails(c) ==
  /\ pc[c] = "saving"
  /\ result' = [result EXCEPT ![c] = None]
  /\ Goto(c, "settling")
  /\ UNCHANGED <<shared, principal, flight, started, httpVars>>

(* .then: what was found is cached. *)
Settle(c) ==
  /\ pc[c] = "settling"
  /\ cache' = [cache EXCEPT ![Identity(c)] = IF result[c] # None THEN result[c] ELSE @]
  /\ Goto(c, "finishing")
  /\ UNCHANGED <<token, disk, inFlight, principal, flight, result, started, httpVars>>

Bug_Finish(c) ==
  /\ pc[c] = "finishing"
  /\ IF result[c] # None
     THEN /\ Answers(c, result[c])
          /\ inFlight' = [inFlight EXCEPT ![Identity(c)] = None]
     ELSE Fails(c) /\ UNCHANGED inFlight
  /\ UNCHANGED <<token, disk, cache, principal, flight, httpVars>>

(* .finally: however it went, nobody joins it any more. *)
Finish(c) ==
  /\ pc[c] = "finishing"
  /\ inFlight' = [inFlight EXCEPT ![Identity(c)] = IF @ = c THEN None ELSE @]
  /\ IF result[c] # None THEN Answers(c, result[c]) ELSE Fails(c)
  /\ UNCHANGED <<token, disk, cache, principal, flight, httpVars>>

(* Whoever joined a request ends as it does. *)
Joined(c) ==
  /\ pc[c] = "joined"
  /\ pc[flight[c]] \in Ended
  /\ IF result[flight[c]] # None THEN Answers(c, result[flight[c]]) ELSE Fails(c)
  /\ UNCHANGED <<shared, principal, flight, httpVars>>

-----------------------------------------------------------------------------
(* invalidateApplicationConfigCache *)
Invalidate(application) ==
  /\ \E i \in Identities : i[2] = application /\ cache[i] # None
  /\ cache' = [i \in Identities |-> IF i[2] = application THEN None ELSE cache[i]]
  /\ UNCHANGED <<token, disk, inFlight, caller, httpVars>>

(* Another process stores the token of a new login. *)
Login(t) ==
  /\ t # token
  /\ token' = t
  /\ UNCHANGED <<disk, cache, inFlight, caller, httpVars>>

(* Nothing but a request takes time. *)
CanGoOn(c) ==
  \/ pc[c] \in {"called", "lookup", "reading", "saving", "settling", "finishing"}
  \/ pc[c] = "loading" /\ phase[c] \in Outcomes
  \/ pc[c] = "joined" /\ pc[flight[c]] \in Ended

TimePasses ==
  /\ \A c \in Callers : ~ CanGoOn(c)
  /\ Tick
  /\ UNCHANGED <<shared, caller>>

CallerStep(c) ==
  \/ Call(c) \/ GetToken(c) \/ Hit(c) \/ Join(c) \/ Start(c)
  \/ ReadDisk(c) \/ Attempt(c) \/ Load(c) \/ LoadFails(c) \/ Save(c) \/ SaveFails(c)
  \/ Settle(c) \/ Finish(c) \/ Joined(c)

Next ==
  \/ \E c \in Callers : CallerStep(c)
  \/ \E application \in Applications : Invalidate(application)
  \/ \E t \in Tokens : Login(t)
  \/ TimePasses

Spec == Init /\ [][Next]_vars

-----------------------------------------------------------------------------
(* Properties.                                                             *)

TypeOK ==
  /\ clock \in 0 .. MaxClock
  /\ attempt \in [Requests -> 0 .. MaxRetries]
  /\ phase \in [Requests -> Outcomes \union {"idle", "sent", "waiting"}]
  /\ timer \in [Requests -> Nat]
  /\ deadline \in [Requests -> Nat]
  /\ token \in Principals
  /\ disk \in [Identities -> Configs \union {None}]
  /\ cache \in [Identities -> Configs \union {None}]
  /\ inFlight \in [Identities -> Callers \union {None}]
  /\ pc \in [Callers -> Flying \union Ended \union {"idle", "called", "lookup", "joined"}]
  /\ principal \in [Callers -> Principals]
  /\ flight \in [Callers -> Callers \union {None}]
  /\ result \in [Callers -> Configs \union {None}]
  /\ started \in [Callers -> Nat]

(* "A rotated principal cannot hit a previous principal's memory cache,    *)
(* single-flight request, or persisted record" (line 110): whatever way an *)
(* answer came, it was issued for the caller's own token and application,  *)
(* and when it is given it is not older than the time to live.             *)
AnswerIsOwn ==
  [][\A c \in Callers : pc[c] # "answered" /\ pc'[c] = "answered" =>
       /\ result'[c].principal = principal[c]
       /\ result'[c].application = ApplicationOf[c]
       /\ clock - result'[c].fetched <= TTL]_vars

(* A request that runs is the one others join, and a request that has      *)
(* ended is joined by nobody: no identity has two at once, and a failure   *)
(* is never handed to a call that came after it.                           *)
FlightIsShared ==
  \A i \in Identities, c \in Callers :
    inFlight[i] = c <=> pc[c] \in Flying /\ Identity(c) = i

(* However often its request is retried, and whatever pauses the server    *)
(* asks for, no call waits beyond the deadline of one request.             *)
EndsInTime ==
  \A c \in Callers : pc[c] \notin Ended \union {"idle"} => clock <= started[c] + Deadline

=============================================================================
