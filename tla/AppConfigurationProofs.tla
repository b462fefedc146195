----------------------- MODULE AppConfigurationProofs -----------------------
(***************************************************************************)
(* Proofs about AppConfiguration and FetchRetries, for any callers,        *)
(* tokens, applications, times and number of retries.                      *)
(*                                                                         *)
(* What a caller is told depends on where its configuration was found, so  *)
(* the invariant follows it: what lies on disk and in the cache belongs to *)
(* its identity (StoredInv), what a request found belongs to its caller    *)
(* and is fresh while time can not pass (ResultInv), whoever joined a      *)
(* request has its identity and came after it (JoinInv), a request that    *)
(* runs is the one that others join (FlightIsShared), and the timers of an *)
(* attempt stay within the deadline, which is that of a caller who has     *)
(* waited no longer than its request (TimeInv).                            *)
(***************************************************************************)
EXTENDS AppConfiguration, TLAPS

OwnConfig(config, i) ==
  config # None => config.principal = i[1] /\ config.application = i[2]

(* Of an identity. *)
Stored(i) == OwnConfig(disk[i], i) /\ OwnConfig(cache[i], i)

Fresh(config) == clock - config.fetched <= TTL

(* Of a caller. *)
Result(c) ==
  /\ pc[c] \in {"idle", "called", "lookup", "joined", "reading", "loading", "failed"} =>
       result[c] = None
  /\ pc[c] \in {"saving", "answered"} => result[c] # None
  /\ OwnConfig(result[c], Identity(c))
  /\ pc[c] \in {"saving", "settling", "finishing"} /\ result[c] # None => Fresh(result[c])

JoinedTo(c, f) ==
  /\ f \in Callers
  /\ Identity(f) = Identity(c)
  /\ pc[f] \in Flying \union Ended
  /\ pc[f] \in Flying => started[f] <= started[c]
  /\ pc[f] = "answered" => Fresh(result[f])

(* What FetchRetries keeps of a request. *)
FetchTypeOK ==
  /\ clock \in 0 .. MaxClock
  /\ attempt \in [Requests -> 0 .. MaxRetries]
  /\ phase \in [Requests -> Outcomes \union {"idle", "sent", "waiting"}]
  /\ timer \in [Requests -> Nat]
  /\ deadline \in [Requests -> Nat]

Running(r) == phase[r] \in {"sent", "waiting"}

Http(r) ==
  /\ Running(r) => clock <= timer[r] /\ timer[r] <= deadline[r]
  /\ phase[r] = "waiting" => attempt[r] < Retries(r)

Time(c) ==
  /\ Running(c) => pc[c] = "loading" /\ deadline[c] <= started[c] + Deadline
  /\ pc[c] = "loading" => phase[c] # "idle"
  /\ pc[c] \in {"called", "lookup", "reading"} => started[c] = clock
  /\ pc[c] \notin Ended \union {"idle"} => started[c] <= clock

StoredInv == \A i \in Identities : Stored(i)
ResultInv == \A c \in Callers : Result(c)
JoinInv   == \A c \in Callers : pc[c] = "joined" => JoinedTo(c, flight[c])
HttpInv   == \A r \in Requests : Http(r)
TimeInv   == \A c \in Callers : Time(c)

Inv ==
  /\ TypeOK /\ StoredInv /\ ResultInv /\ JoinInv
  /\ FlightIsShared /\ HttpInv /\ TimeInv /\ EndsInTime

-----------------------------------------------------------------------------
(* Lemmas about identities.                                                *)

(* Lemma: a caller has an identity; it changes only with its principal. *)
LEMMA IdentityType ==
  ASSUME TypeOK, NEW c \in Callers PROVE Identity(c) \in Identities
BY ConfigurationAssumption DEF TypeOK, Identity, Identities

LEMMA IdentityKept ==
  ASSUME NEW c \in Callers, principal'[c] = principal[c] PROVE Identity(c)' = Identity(c)
BY DEF Identity

(* Lemma: what belongs to the identity of a caller is the caller's own. *)
LEMMA OwnIsOwn ==
  ASSUME NEW c \in Callers, NEW config, config # None, OwnConfig(config, Identity(c))
  PROVE  config.principal = principal[c] /\ config.application = ApplicationOf[c]
BY DEF OwnConfig, Identity

-----------------------------------------------------------------------------
(* Lemmas: each step of a caller keeps the invariant.                      *)

(* Lemma: a caller calls. *)
LEMMA CallStep == ASSUME Inv, NEW d \in Callers, Call(d) PROVE Inv'
<1> USE ConfigurationAssumption, FetchAssumption DEF Inv, Call, shared, Callers, httpVars, request, Flying, Ended
<1>1. \A c \in Callers : Identity(c)' = Identity(c) /\ Identity(c) \in Identities
  BY IdentityType, IdentityKept
<1>2. TypeOK'
  BY <1>1 DEF TypeOK
<1>3. StoredInv'
  BY <1>1 DEF TypeOK, StoredInv, Stored, OwnConfig
<1>4. ResultInv'
  BY <1>1 DEF TypeOK, ResultInv, Result, OwnConfig, Fresh
<1>5. JoinInv'
  BY <1>1 DEF TypeOK, JoinInv, JoinedTo, Fresh
<1>6. FlightIsShared'
  BY <1>1 DEF TypeOK, FlightIsShared
<1>7. HttpInv'
  BY <1>1 DEF TypeOK, HttpInv, Http, Running, Retries
<1>8. TimeInv'
  BY <1>1 DEF TypeOK, TimeInv, Time, Running
<1>9. EndsInTime'
  BY <1>1 DEF TypeOK, EndsInTime
<1> QED
  BY <1>2, <1>3, <1>4, <1>5, <1>6, <1>7, <1>8, <1>9

(* Lemma: a caller gets its token. *)
LEMMA GetTokenStep == ASSUME Inv, NEW d \in Callers, GetToken(d) PROVE Inv'
<1> USE ConfigurationAssumption, FetchAssumption DEF Inv, GetToken, shared, Goto, Callers, httpVars, request, Flying, Ended
<1>1. /\ \A c \in Callers : c # d => Identity(c)' = Identity(c)
      /\ \A c \in Callers : Identity(c) \in Identities
  BY IdentityType, IdentityKept DEF TypeOK
<1>2. TypeOK'
  BY <1>1 DEF TypeOK
<1>3. StoredInv'
  BY <1>1 DEF TypeOK, StoredInv, Stored, OwnConfig
<1>4. ResultInv'
  <2>1. Result(d)'
    BY <1>1 DEF TypeOK, ResultInv, Result, OwnConfig, Fresh
  <2>2. ASSUME NEW c \in Callers, c # d PROVE Result(c)'
    <3>1. pc'[c] = pc[c] /\ result'[c] = result[c] /\ clock' = clock
      BY <2>2 DEF TypeOK
    <3>2. Result(c)
      BY DEF ResultInv
    <3> QED
      BY ONLY <1>1, <2>2, <3>1, <3>2 DEF Result, OwnConfig, Fresh
  <2> QED
    BY <2>1, <2>2 DEF ResultInv
<1>5. JoinInv'
  BY <1>1 DEF TypeOK, JoinInv, JoinedTo, Fresh
<1>6. FlightIsShared'
  BY <1>1 DEF TypeOK, FlightIsShared
<1>7. HttpInv'
  BY <1>1 DEF TypeOK, HttpInv, Http, Running, Retries
<1>8. TimeInv'
  BY <1>1 DEF TypeOK, TimeInv, Time, Running
<1>9. EndsInTime'
  BY <1>1 DEF TypeOK, EndsInTime
<1> QED
  BY <1>2, <1>3, <1>4, <1>5, <1>6, <1>7, <1>8, <1>9

(* Lemma: a cached configuration answers. *)
LEMMA HitStep == ASSUME Inv, NEW d \in Callers, Hit(d) PROVE Inv'
<1> USE ConfigurationAssumption, FetchAssumption DEF Inv, Hit, shared, Answers, Valid, Callers, httpVars, request, Flying, Ended
<1>1. \A c \in Callers : Identity(c)' = Identity(c) /\ Identity(c) \in Identities
  BY IdentityType, IdentityKept
<1>2. TypeOK'
  BY <1>1 DEF TypeOK
<1>3. StoredInv'
  BY <1>1 DEF TypeOK, StoredInv, Stored, OwnConfig
<1>4. ResultInv'
  <2>1. Result(d)'
    BY <1>1 DEF TypeOK, ResultInv, Result, OwnConfig, Fresh, StoredInv, Stored
  <2>2. ASSUME NEW c \in Callers, c # d PROVE Result(c)'
    <3>1. pc'[c] = pc[c] /\ result'[c] = result[c] /\ clock' = clock
      BY <2>2 DEF TypeOK
    <3>2. Result(c)
      BY DEF ResultInv
    <3> QED
      BY ONLY <1>1, <2>2, <3>1, <3>2 DEF Result, OwnConfig, Fresh
  <2> QED
    BY <2>1, <2>2 DEF ResultInv
<1>5. JoinInv'
  <2> SUFFICES ASSUME NEW c \in Callers, pc'[c] = "joined" PROVE JoinedTo(c, flight[c])'
    BY DEF JoinInv
  <2>1. c # d /\ pc[c] = "joined" /\ flight'[c] = flight[c]
    BY DEF TypeOK
  <2>2. CASE flight[c] = d
    BY <1>1, <2>1, <2>2 DEF TypeOK, JoinInv, JoinedTo, Fresh
  <2>3. CASE flight[c] # d
    BY <1>1, <2>1, <2>3 DEF TypeOK, JoinInv, JoinedTo, Fresh
  <2> QED
    BY <2>2, <2>3
<1>6. FlightIsShared'
  BY <1>1 DEF TypeOK, FlightIsShared
<1>7. HttpInv'
  BY <1>1 DEF TypeOK, HttpInv, Http, Running, Retries
<1>8. TimeInv'
  BY <1>1 DEF TypeOK, TimeInv, Time, Running
<1>9. EndsInTime'
  BY <1>1 DEF TypeOK, EndsInTime
<1> QED
  BY <1>2, <1>3, <1>4, <1>5, <1>6, <1>7, <1>8, <1>9

(* Lemma: a caller joins a request. *)
LEMMA JoinStep == ASSUME Inv, NEW d \in Callers, Join(d) PROVE Inv'
<1> USE ConfigurationAssumption, FetchAssumption DEF Inv, Join, Misses, Goto, Callers, httpVars, request, Flying, Ended
<1>1. \A c \in Callers : Identity(c)' = Identity(c) /\ Identity(c) \in Identities
  BY IdentityType, IdentityKept
<1>2. TypeOK'
  BY <1>1 DEF TypeOK
<1>3. StoredInv'
  BY <1>1 DEF TypeOK, StoredInv, Stored, OwnConfig
<1>4. ResultInv'
  BY <1>1 DEF TypeOK, ResultInv, Result, OwnConfig, Fresh
<1>5. JoinInv'
  <2>1. JoinedTo(d, flight[d])'
    <3> DEFINE f == inFlight[Identity(d)]
    <3>1. /\ f \in Callers /\ pc[f] \in Flying /\ Identity(f) = Identity(d)
          /\ flight'[d] = f /\ f # d
      BY <1>1 DEF TypeOK, FlightIsShared
    <3>2. started[f] <= started[d]
      BY <3>1 DEF TimeInv, Time
    <3> QED
      BY <1>1, <3>1, <3>2 DEF TypeOK, JoinedTo
  <2>2. ASSUME NEW c \in Callers, c # d, pc[c] = "joined" PROVE JoinedTo(c, flight[c])'
    BY <1>1, <2>2 DEF TypeOK, JoinInv, JoinedTo, Fresh
  <2> QED
    BY <2>1, <2>2 DEF TypeOK, JoinInv
<1>6. FlightIsShared'
  BY <1>1 DEF TypeOK, FlightIsShared
<1>7. HttpInv'
  BY <1>1 DEF TypeOK, HttpInv, Http, Running, Retries
<1>8. TimeInv'
  BY <1>1 DEF TypeOK, TimeInv, Time, Running
<1>9. EndsInTime'
  BY <1>1 DEF TypeOK, EndsInTime
<1> QED
  BY <1>2, <1>3, <1>4, <1>5, <1>6, <1>7, <1>8, <1>9

(* Lemma: a caller starts a request. *)
LEMMA StartStep == ASSUME Inv, NEW d \in Callers, Start(d) PROVE Inv'
<1> USE ConfigurationAssumption, FetchAssumption DEF Inv, Start, Misses, Goto, Callers, httpVars, request, Flying, Ended
<1>1. \A c \in Callers : Identity(c)' = Identity(c) /\ Identity(c) \in Identities
  BY IdentityType, IdentityKept
<1>2. TypeOK'
  BY <1>1 DEF TypeOK
<1>3. StoredInv'
  BY <1>1 DEF TypeOK, StoredInv, Stored, OwnConfig
<1>4. ResultInv'
  BY <1>1 DEF TypeOK, ResultInv, Result, OwnConfig, Fresh
<1>5. JoinInv'
  BY <1>1 DEF TypeOK, JoinInv, JoinedTo, Fresh
<1>6. FlightIsShared'
  BY <1>1 DEF TypeOK, FlightIsShared
<1>7. HttpInv'
  BY <1>1 DEF TypeOK, HttpInv, Http, Running, Retries
<1>8. TimeInv'
  BY <1>1 DEF TypeOK, TimeInv, Time, Running
<1>9. EndsInTime'
  BY <1>1 DEF TypeOK, EndsInTime
<1> QED
  BY <1>2, <1>3, <1>4, <1>5, <1>6, <1>7, <1>8, <1>9

(* Lemma: a request finds its answer on disk or is sent. *)
LEMMA ReadDiskStep == ASSUME Inv, NEW d \in Callers, ReadDisk(d) PROVE Inv'
<1> USE ConfigurationAssumption, FetchAssumption DEF Inv, ReadDisk, Goto, HttpSend, shared, Timeout, Larger, Valid, Callers, httpVars, request, Flying, Ended
<1>1. \A c \in Callers : Identity(c)' = Identity(c) /\ Identity(c) \in Identities
  BY IdentityType, IdentityKept
<1>2. TypeOK'
  BY <1>1 DEF TypeOK
<1>3. StoredInv'
  BY <1>1 DEF TypeOK, StoredInv, Stored, OwnConfig
<1>4. ResultInv'
  <2>1. Result(d)'
    BY <1>1 DEF TypeOK, ResultInv, Result, OwnConfig, Fresh, StoredInv, Stored
  <2>2. ASSUME NEW c \in Callers, c # d PROVE Result(c)'
    <3>1. pc'[c] = pc[c] /\ result'[c] = result[c] /\ clock' = clock
      BY <2>2 DEF TypeOK
    <3>2. Result(c)
      BY DEF ResultInv
    <3> QED
      BY ONLY <1>1, <2>2, <3>1, <3>2 DEF Result, OwnConfig, Fresh
  <2> QED
    BY <2>1, <2>2 DEF ResultInv
<1>5. JoinInv'
  BY <1>1 DEF TypeOK, JoinInv, JoinedTo, Fresh
<1>6. FlightIsShared'
  BY <1>1 DEF TypeOK, FlightIsShared
<1>7. HttpInv'
  BY <1>1 DEF TypeOK, HttpInv, Http, Running, Retries
<1>8. TimeInv'
  BY <1>1 DEF TypeOK, TimeInv, Time, Running
<1>9. EndsInTime'
  BY <1>1 DEF TypeOK, EndsInTime
<1> QED
  BY <1>2, <1>3, <1>4, <1>5, <1>6, <1>7, <1>8, <1>9

(* Lemma: a step of a request that was sent keeps its times within its     *)
(* deadline, which stays what it is until the request ends.                *)
LEMMA HttpStepKeeps ==
  ASSUME FetchTypeOK, NEW d \in Requests, Http(d), HttpStep(d)
  PROVE  /\ FetchTypeOK' /\ Http(d)'
         /\ UNCHANGED clock
         /\ Running(d) /\ phase'[d] # "idle"
         /\ Running(d)' => deadline'[d] = deadline[d]
         /\ \A r \in Requests \ {d} :
              /\ attempt'[r] = attempt[r] /\ phase'[r] = phase[r]
              /\ timer'[r] = timer[r] /\ deadline'[r] = deadline[r]
<1> USE FetchAssumption DEF FetchTypeOK, Http, Running, Outcomes, Retries
<1>1. ASSUME NEW outcome \in Outcomes, HttpOver(d, outcome)
      PROVE  /\ attempt' \in [Requests -> 0 .. MaxRetries]
             /\ phase' \in [Requests -> Outcomes \union {"idle", "sent", "waiting"}]
             /\ timer' \in [Requests -> Nat] /\ deadline' \in [Requests -> Nat]
             /\ phase'[d] = outcome
             /\ \A r \in Requests \ {d} :
                  /\ attempt'[r] = attempt[r] /\ phase'[r] = phase[r]
                  /\ timer'[r] = timer[r] /\ deadline'[r] = deadline[r]
  BY <1>1 DEF HttpOver
<1>2. CASE HttpEnds(d)
  BY <1>1, <1>2 DEF HttpEnds
<1>3. ASSUME NEW after \in Nat, phase[d] = "sent", Wait(d, after)
      PROVE  /\ FetchTypeOK' /\ Http(d)' /\ UNCHANGED clock /\ phase'[d] # "idle"
             /\ Running(d)' => deadline'[d] = deadline[d]
             /\ \A r \in Requests \ {d} :
                  /\ attempt'[r] = attempt[r] /\ phase'[r] = phase[r]
                  /\ timer'[r] = timer[r] /\ deadline'[r] = deadline[r]
  <2>1. CASE attempt[d] < Retries(d) /\ Delay(d, after) > 0
    <3>1. 2 ^ attempt[d] \in Nat
      OBVIOUS
    <3>2. Delay(d, after) \in Nat /\ Delay(d, after) <= deadline[d] - clock - 1
      BY <2>1, <3>1 DEF Delay, Smaller, Larger
    <3> QED
      BY <1>3, <2>1, <3>2 DEF Wait
  <2>2. CASE ~ (attempt[d] < Retries(d) /\ Delay(d, after) > 0)
    <3>1. HttpOver(d, "unavailable") /\ UNCHANGED clock
      BY <1>3, <2>2 DEF Wait
    <3> QED
      BY <1>1, <3>1
  <2> QED
    BY <2>1, <2>2
<1>4. CASE HttpFails(d)
  BY <1>3, <1>4 DEF HttpFails
<1>5. CASE HttpTimesOut(d)
  BY <1>3, <1>5 DEF HttpTimesOut
<1>6. CASE HttpRetries(d)
  <2>1. CASE clock < deadline[d]
    BY <1>6, <2>1 DEF HttpRetries, Timeout, Larger
  <2>2. CASE ~ (clock < deadline[d])
    <3>1. HttpOver(d, "unavailable") /\ UNCHANGED clock /\ phase[d] = "waiting"
      BY <1>6, <2>2 DEF HttpRetries
    <3> QED
      BY <1>1, <3>1
  <2> QED
    BY <2>1, <2>2
<1> QED
  BY <1>2, <1>4, <1>5, <1>6 DEF HttpStep

(* Lemma: a step of a request that was sent keeps the invariant. *)
LEMMA AttemptStep == ASSUME Inv, NEW d \in Callers, Attempt(d) PROVE Inv'
<1> USE DEF Inv, Attempt, Callers
<1>1. /\ FetchTypeOK' /\ Http(d)'
      /\ UNCHANGED clock
      /\ Running(d) /\ phase'[d] # "idle"
      /\ Running(d)' => deadline'[d] = deadline[d]
      /\ \A r \in Requests \ {d} :
           /\ attempt'[r] = attempt[r] /\ phase'[r] = phase[r]
           /\ timer'[r] = timer[r] /\ deadline'[r] = deadline[r]
  BY HttpStepKeeps DEF TypeOK, FetchTypeOK, HttpInv
<1>2. UNCHANGED <<shared, caller>>
  OBVIOUS
<1>3. \A c \in Callers : Identity(c)' = Identity(c)
  BY <1>2, IdentityKept DEF caller
<1>4. TypeOK'
  BY <1>1, <1>2 DEF TypeOK, FetchTypeOK, shared, caller
<1>5. StoredInv'
  BY <1>2 DEF StoredInv, Stored, OwnConfig, shared
<1>6. ResultInv'
  BY <1>1, <1>2, <1>3 DEF ResultInv, Result, OwnConfig, Fresh, caller
<1>7. JoinInv'
  BY <1>1, <1>2, <1>3 DEF JoinInv, JoinedTo, Fresh, caller
<1>8. FlightIsShared'
  BY <1>2, <1>3 DEF FlightIsShared, shared, caller
<1>9. HttpInv'
  BY <1>1 DEF HttpInv, Http, Running, Retries
<1>10. TimeInv'
  BY <1>1, <1>2 DEF TimeInv, Time, Running, caller
<1>11. EndsInTime'
  BY <1>1, <1>2 DEF EndsInTime, caller
<1> QED
  BY <1>4, <1>5, <1>6, <1>7, <1>8, <1>9, <1>10, <1>11

(* Lemma: the platform answers. *)
LEMMA LoadStep == ASSUME Inv, NEW d \in Callers, Load(d) PROVE Inv'
<1> USE ConfigurationAssumption, FetchAssumption DEF Inv, Load, Goto, shared, Callers, httpVars, request, Flying, Ended
<1>1. \A c \in Callers : Identity(c)' = Identity(c) /\ Identity(c) \in Identities
  BY IdentityType, IdentityKept
<1>2. TypeOK'
  <2>1. PICK application \in Applications, life \in Lives :
          /\ result' = IF application = ApplicationOf[d]
                       THEN [result EXCEPT ![d] =
                         [principal |-> principal[d], application |-> application,
                          fetched |-> clock, life |-> life]]
                       ELSE result
          /\ pc' = [pc EXCEPT ![d] = IF application = ApplicationOf[d]
                                     THEN "saving" ELSE "settling"]
    OBVIOUS
  <2>2. [principal |-> principal[d], application |-> application,
         fetched |-> clock, life |-> life] \in Configs
    BY DEF TypeOK, Configs
  <2>3. result' \in [Callers -> Configs \union {None}]
    BY <2>1, <2>2 DEF TypeOK
  <2> QED
    BY <2>1, <2>3 DEF TypeOK
<1>3. StoredInv'
  BY <1>1 DEF TypeOK, StoredInv, Stored, OwnConfig
<1>4. ResultInv'
  <2>1. Result(d)'
    BY <1>1 DEF TypeOK, ResultInv, Result, OwnConfig, Fresh, Identity, Configs, Principals
  <2>2. ASSUME NEW c \in Callers, c # d PROVE Result(c)'
    <3>1. pc'[c] = pc[c] /\ result'[c] = result[c] /\ clock' = clock
      BY <2>2 DEF TypeOK
    <3>2. Result(c)
      BY DEF ResultInv
    <3> QED
      BY ONLY <1>1, <2>2, <3>1, <3>2 DEF Result, OwnConfig, Fresh
  <2> QED
    BY <2>1, <2>2 DEF ResultInv
<1>5. JoinInv'
  BY <1>1 DEF TypeOK, JoinInv, JoinedTo, Fresh
<1>6. FlightIsShared'
  BY <1>1 DEF TypeOK, FlightIsShared
<1>7. HttpInv'
  BY <1>1 DEF TypeOK, HttpInv, Http, Running, Retries
<1>8. TimeInv'
  BY <1>1 DEF TypeOK, TimeInv, Time, Running
<1>9. EndsInTime'
  BY <1>1 DEF TypeOK, EndsInTime
<1> QED
  BY <1>2, <1>3, <1>4, <1>5, <1>6, <1>7, <1>8, <1>9

(* Lemma: a request fails. *)
LEMMA LoadFailsStep == ASSUME Inv, NEW d \in Callers, LoadFails(d) PROVE Inv'
<1> USE ConfigurationAssumption, FetchAssumption DEF Inv, LoadFails, Goto, Callers, httpVars, request, Flying, Ended
<1>1. \A c \in Callers : Identity(c)' = Identity(c) /\ Identity(c) \in Identities
  BY IdentityType, IdentityKept
<1>2. TypeOK'
  BY <1>1 DEF TypeOK, Principals
<1>3. StoredInv'
  BY <1>1 DEF TypeOK, StoredInv, Stored, OwnConfig
<1>4. ResultInv'
  BY <1>1 DEF TypeOK, ResultInv, Result, OwnConfig, Fresh
<1>5. JoinInv'
  BY <1>1 DEF TypeOK, JoinInv, JoinedTo, Fresh
<1>6. FlightIsShared'
  BY <1>1 DEF TypeOK, FlightIsShared
<1>7. HttpInv'
  BY <1>1 DEF TypeOK, HttpInv, Http, Running, Retries
<1>8. TimeInv'
  BY <1>1 DEF TypeOK, TimeInv, Time, Running, Outcomes
<1>9. EndsInTime'
  BY <1>1 DEF TypeOK, EndsInTime
<1> QED
  BY <1>2, <1>3, <1>4, <1>5, <1>6, <1>7, <1>8, <1>9

(* Lemma: what was loaded is stored. *)
LEMMA SaveStep == ASSUME Inv, NEW d \in Callers, Save(d) PROVE Inv'
<1> USE ConfigurationAssumption, FetchAssumption DEF Inv, Save, Goto, Callers, httpVars, request, Flying, Ended
<1>1. \A c \in Callers : Identity(c)' = Identity(c) /\ Identity(c) \in Identities
  BY IdentityType, IdentityKept
<1>2. TypeOK'
  BY <1>1 DEF TypeOK
<1>3. StoredInv'
  BY <1>1 DEF TypeOK, StoredInv, Stored, OwnConfig, ResultInv, Result
<1>4. ResultInv'
  BY <1>1 DEF TypeOK, ResultInv, Result, OwnConfig, Fresh
<1>5. JoinInv'
  BY <1>1 DEF TypeOK, JoinInv, JoinedTo, Fresh
<1>6. FlightIsShared'
  BY <1>1 DEF TypeOK, FlightIsShared
<1>7. HttpInv'
  BY <1>1 DEF TypeOK, HttpInv, Http, Running, Retries
<1>8. TimeInv'
  BY <1>1 DEF TypeOK, TimeInv, Time, Running
<1>9. EndsInTime'
  BY <1>1 DEF TypeOK, EndsInTime
<1> QED
  BY <1>2, <1>3, <1>4, <1>5, <1>6, <1>7, <1>8, <1>9

(* Lemma: it can not be stored. *)
LEMMA SaveFailsStep == ASSUME Inv, NEW d \in Callers, SaveFails(d) PROVE Inv'
<1> USE ConfigurationAssumption, FetchAssumption DEF Inv, SaveFails, shared, Goto, Callers, httpVars, request, Flying, Ended
<1>1. \A c \in Callers : Identity(c)' = Identity(c) /\ Identity(c) \in Identities
  BY IdentityType, IdentityKept
<1>2. TypeOK'
  BY <1>1 DEF TypeOK
<1>3. StoredInv'
  BY <1>1 DEF TypeOK, StoredInv, Stored, OwnConfig
<1>4. ResultInv'
  BY <1>1 DEF TypeOK, ResultInv, Result, OwnConfig, Fresh
<1>5. JoinInv'
  BY <1>1 DEF TypeOK, JoinInv, JoinedTo, Fresh
<1>6. FlightIsShared'
  BY <1>1 DEF TypeOK, FlightIsShared
<1>7. HttpInv'
  BY <1>1 DEF TypeOK, HttpInv, Http, Running, Retries
<1>8. TimeInv'
  BY <1>1 DEF TypeOK, TimeInv, Time, Running
<1>9. EndsInTime'
  BY <1>1 DEF TypeOK, EndsInTime
<1> QED
  BY <1>2, <1>3, <1>4, <1>5, <1>6, <1>7, <1>8, <1>9

(* Lemma: what was found is cached. *)
LEMMA SettleStep == ASSUME Inv, NEW d \in Callers, Settle(d) PROVE Inv'
<1> USE ConfigurationAssumption, FetchAssumption DEF Inv, Settle, Goto, Callers, httpVars, request, Flying, Ended
<1>1. \A c \in Callers : Identity(c)' = Identity(c) /\ Identity(c) \in Identities
  BY IdentityType, IdentityKept
<1>2. TypeOK'
  BY <1>1 DEF TypeOK
<1>3. StoredInv'
  BY <1>1 DEF TypeOK, StoredInv, Stored, OwnConfig, ResultInv, Result
<1>4. ResultInv'
  BY <1>1 DEF TypeOK, ResultInv, Result, OwnConfig, Fresh
<1>5. JoinInv'
  BY <1>1 DEF TypeOK, JoinInv, JoinedTo, Fresh
<1>6. FlightIsShared'
  BY <1>1 DEF TypeOK, FlightIsShared
<1>7. HttpInv'
  BY <1>1 DEF TypeOK, HttpInv, Http, Running, Retries
<1>8. TimeInv'
  BY <1>1 DEF TypeOK, TimeInv, Time, Running
<1>9. EndsInTime'
  BY <1>1 DEF TypeOK, EndsInTime
<1> QED
  BY <1>2, <1>3, <1>4, <1>5, <1>6, <1>7, <1>8, <1>9

(* Lemma: a request ends. *)
LEMMA FinishStep == ASSUME Inv, NEW d \in Callers, Finish(d) PROVE Inv'
<1> USE ConfigurationAssumption, FetchAssumption DEF Inv, Finish, Answers, Fails, Callers, httpVars, request, Flying, Ended
<1>1. \A c \in Callers : Identity(c)' = Identity(c) /\ Identity(c) \in Identities
  BY IdentityType, IdentityKept
<1>2. TypeOK'
  BY <1>1 DEF TypeOK
<1>3. StoredInv'
  BY <1>1 DEF TypeOK, StoredInv, Stored, OwnConfig
<1>4. ResultInv'
  BY <1>1 DEF TypeOK, ResultInv, Result, OwnConfig, Fresh
<1>5. JoinInv'
  <2> SUFFICES ASSUME NEW c \in Callers, pc'[c] = "joined" PROVE JoinedTo(c, flight[c])'
    BY DEF JoinInv
  <2>1. c # d /\ pc[c] = "joined" /\ flight'[c] = flight[c]
    BY DEF TypeOK
  <2>2. CASE flight[c] = d
    BY <1>1, <2>1, <2>2 DEF TypeOK, JoinInv, JoinedTo, Fresh, ResultInv, Result
  <2>3. CASE flight[c] # d
    BY <1>1, <2>1, <2>3 DEF TypeOK, JoinInv, JoinedTo, Fresh
  <2> QED
    BY <2>2, <2>3
<1>6. FlightIsShared'
  BY <1>1 DEF TypeOK, FlightIsShared
<1>7. HttpInv'
  BY <1>1 DEF TypeOK, HttpInv, Http, Running, Retries
<1>8. TimeInv'
  BY <1>1 DEF TypeOK, TimeInv, Time, Running
<1>9. EndsInTime'
  BY <1>1 DEF TypeOK, EndsInTime
<1> QED
  BY <1>2, <1>3, <1>4, <1>5, <1>6, <1>7, <1>8, <1>9

(* Lemma: who joined a request ends with it. *)
LEMMA JoinedStep == ASSUME Inv, NEW d \in Callers, Joined(d) PROVE Inv'
<1> USE ConfigurationAssumption, FetchAssumption DEF Inv, Joined, shared, Answers, Fails, Callers, httpVars, request, Flying, Ended
<1>1. \A c \in Callers : Identity(c)' = Identity(c) /\ Identity(c) \in Identities
  BY IdentityType, IdentityKept
<1>2. TypeOK'
  BY <1>1 DEF TypeOK, JoinInv, JoinedTo
<1>3. StoredInv'
  BY <1>1 DEF TypeOK, StoredInv, Stored, OwnConfig
<1>4. ResultInv'
  <2>1. Result(d)'
    BY <1>1 DEF TypeOK, ResultInv, Result, OwnConfig, Fresh, JoinInv, JoinedTo
  <2>2. ASSUME NEW c \in Callers, c # d PROVE Result(c)'
    <3>1. pc'[c] = pc[c] /\ result'[c] = result[c] /\ clock' = clock
      BY <2>2 DEF TypeOK
    <3>2. Result(c)
      BY DEF ResultInv
    <3> QED
      BY ONLY <1>1, <2>2, <3>1, <3>2 DEF Result, OwnConfig, Fresh
  <2> QED
    BY <2>1, <2>2 DEF ResultInv
<1>5. JoinInv'
  BY <1>1 DEF TypeOK, JoinInv, JoinedTo, Fresh
<1>6. FlightIsShared'
  BY <1>1 DEF TypeOK, FlightIsShared
<1>7. HttpInv'
  BY <1>1 DEF TypeOK, HttpInv, Http, Running, Retries
<1>8. TimeInv'
  BY <1>1 DEF TypeOK, TimeInv, Time, Running
<1>9. EndsInTime'
  BY <1>1 DEF TypeOK, EndsInTime
<1> QED
  BY <1>2, <1>3, <1>4, <1>5, <1>6, <1>7, <1>8, <1>9

-----------------------------------------------------------------------------
(* The invariant, and what follows from it.                                *)

(* Lemma: it holds at the start. *)
LEMMA InitInv == Init => Inv
<1> SUFFICES ASSUME Init PROVE Inv
  OBVIOUS
<1> USE ConfigurationAssumption, FetchAssumption DEF Init, HttpInit, Callers, Flying, Ended
<1>1. TypeOK
  <2>1. disk \in [Identities -> Configs \union {None}]
    <3>1. \A j \in Identities, l \in Lives :
            [principal |-> j[1], application |-> j[2], fetched |-> 0, life |-> l] \in Configs
      BY DEF Configs, Identities
    <3>2. CASE disk \in [Identities -> {None}]
      BY <3>2
    <3>3. CASE disk \notin [Identities -> {None}]
      <4>1. PICK j \in Identities, l \in Lives :
              disk = [i \in Identities |->
                       IF i = j THEN [principal |-> j[1], application |-> j[2],
                                      fetched |-> 0, life |-> l]
                       ELSE None]
        BY <3>3
      <4> QED
        BY <3>1, <4>1
    <3> QED
      BY <3>2, <3>3
  <2> QED
    BY <2>1 DEF TypeOK, Outcomes, Principals
<1>2. StoredInv
  BY DEF StoredInv, Stored, OwnConfig, Identities, Principals
<1>3. ResultInv
  BY DEF ResultInv, Result, OwnConfig
<1>4. JoinInv
  BY DEF JoinInv
<1>5. FlightIsShared
  BY DEF FlightIsShared
<1>6. HttpInv /\ TimeInv /\ EndsInTime
  BY DEF HttpInv, Http, Running, TimeInv, Time, EndsInTime
<1> QED
  BY <1>1, <1>2, <1>3, <1>4, <1>5, <1>6 DEF Inv

(* Lemma: an application's configurations are invalidated. *)
LEMMA InvalidateStep ==
  ASSUME Inv, NEW application \in Applications, Invalidate(application) PROVE Inv'
<1> USE DEF Inv, Invalidate, caller, httpVars, request
<1>1. \A c \in Callers : Identity(c)' = Identity(c)
  BY IdentityKept
<1>2. TypeOK' /\ StoredInv'
  BY ConfigurationAssumption DEF TypeOK, StoredInv, Stored, OwnConfig
<1>3. ResultInv' /\ JoinInv'
  BY <1>1 DEF ResultInv, Result, JoinInv, JoinedTo, OwnConfig, Fresh
<1>4. FlightIsShared' /\ HttpInv' /\ TimeInv' /\ EndsInTime'
  BY <1>1 DEF FlightIsShared, HttpInv, Http, Running, Retries, TimeInv, Time, EndsInTime
<1> QED
  BY <1>2, <1>3, <1>4

(* Lemma: another process logs in. *)
LEMMA LoginStep == ASSUME Inv, NEW t \in Tokens, Login(t) PROVE Inv'
<1> USE DEF Inv, Login, caller, httpVars, request
<1>1. \A c \in Callers : Identity(c)' = Identity(c)
  BY IdentityKept
<1>2. TypeOK' /\ StoredInv'
  BY DEF TypeOK, StoredInv, Stored, OwnConfig, Principals
<1>3. ResultInv' /\ JoinInv'
  BY <1>1 DEF ResultInv, Result, JoinInv, JoinedTo, OwnConfig, Fresh
<1>4. FlightIsShared' /\ HttpInv' /\ TimeInv' /\ EndsInTime'
  BY <1>1 DEF FlightIsShared, HttpInv, Http, Running, Retries, TimeInv, Time, EndsInTime
<1> QED
  BY <1>2, <1>3, <1>4

(* Lemma: time passes.  A caller who waits has a request that is not due,  *)
(* or has joined one that is not.                                          *)
LEMMA TimeStep == ASSUME Inv, TimePasses PROVE Inv'
<1> USE DEF Inv, TimePasses, Tick, shared, caller, request, Callers
<1>1. \A c \in Callers : Identity(c)' = Identity(c)
  BY IdentityKept
<1>2. TypeOK' /\ StoredInv'
  BY FetchAssumption DEF TypeOK, StoredInv, Stored, OwnConfig
<1>3. \A c \in Callers : pc[c] \in {"idle", "loading", "joined"} \union Ended
  BY DEF CanGoOn, TypeOK, Flying, Ended
<1>4. \A c \in Callers : pc[c] = "loading" => Running(c) /\ clock < timer[c]
  BY DEF CanGoOn, TypeOK, TimeInv, Time, Running, Due
<1>5. \A c \in Callers : pc[c] = "joined" =>
        flight[c] \in Callers /\ pc[flight[c]] = "loading" /\ started[flight[c]] <= started[c]
  BY <1>3 DEF CanGoOn, JoinInv, JoinedTo, Flying, Ended
<1>6. ResultInv'
  BY <1>1, <1>3 DEF ResultInv, Result, OwnConfig, Fresh, Ended
<1>7. JoinInv'
  BY <1>1, <1>5 DEF JoinInv, JoinedTo, Ended
<1>8. FlightIsShared'
  BY <1>1 DEF FlightIsShared
<1>9. HttpInv'
  BY FetchAssumption DEF TypeOK, HttpInv, Http, Running, Retries, Due
<1>10. TimeInv'
  BY <1>3, FetchAssumption DEF TypeOK, TimeInv, Time, Running, Ended
<1>11. EndsInTime'
  <2>1. \A c \in Callers : pc[c] = "loading" => clock < started[c] + Deadline
    BY <1>4, FetchAssumption DEF TypeOK, HttpInv, Http, TimeInv, Time, Running
  <2>2. \A c \in Callers : pc[c] = "joined" => clock < started[c] + Deadline
    BY <1>5, <2>1, FetchAssumption DEF TypeOK
  <2> QED
    BY <1>3, <2>1, <2>2, FetchAssumption DEF TypeOK, EndsInTime, Ended
<1> QED
  BY <1>2, <1>6, <1>7, <1>8, <1>9, <1>10, <1>11

(* Lemma: every step keeps the invariant. *)
LEMMA NextInv == Inv /\ [Next]_vars => Inv'
<1> SUFFICES ASSUME Inv, [Next]_vars PROVE Inv'
  OBVIOUS
<1>1. ASSUME NEW c \in Callers, CallerStep(c) PROVE Inv'
  BY <1>1, CallStep, GetTokenStep, HitStep, JoinStep, StartStep, ReadDiskStep,
     AttemptStep, LoadStep, LoadFailsStep, SaveStep, SaveFailsStep, SettleStep,
     FinishStep, JoinedStep DEF CallerStep
<1>2. CASE UNCHANGED vars
  <2> USE <1>2 DEF Inv, vars, shared, caller, httpVars, request
  <2>1. \A c \in Callers : Identity(c)' = Identity(c)
    BY IdentityKept
  <2>2. TypeOK' /\ StoredInv'
    BY DEF TypeOK, StoredInv, Stored, OwnConfig
  <2>3. ResultInv' /\ JoinInv'
    BY <2>1 DEF ResultInv, Result, JoinInv, JoinedTo, OwnConfig, Fresh
  <2>4. FlightIsShared' /\ HttpInv' /\ TimeInv' /\ EndsInTime'
    BY <2>1 DEF FlightIsShared, HttpInv, Http, Running, Retries, TimeInv, Time, EndsInTime
  <2> QED
    BY <2>2, <2>3, <2>4
<1> QED
  BY <1>1, <1>2, InvalidateStep, LoginStep, TimeStep DEF Next

(* Theorem: the invariant holds. *)
THEOREM Invariance == Spec => []Inv
<1> QED
  BY InitInv, NextInv, PTL DEF Spec

(* Theorem: the types are right. *)
THEOREM TypeCorrect == Spec => []TypeOK
<1>1. Inv => TypeOK
  BY DEF Inv
<1> QED
  BY <1>1, Invariance, PTL

(* Theorem: however callers, logins and invalidations interleave, the      *)
(* request that others join is the only one of its identity that runs.     *)
THEOREM OneFlight == Spec => []FlightIsShared
<1>1. Inv => FlightIsShared
  BY DEF Inv
<1> QED
  BY <1>1, Invariance, PTL

(* Theorem: whatever number of retries and pauses, no call waits beyond    *)
(* the deadline of one request.                                            *)
THEOREM InTime == Spec => []EndsInTime
<1>1. Inv => EndsInTime
  BY DEF Inv
<1> QED
  BY <1>1, Invariance, PTL

-----------------------------------------------------------------------------
(* The answers.                                                            *)

AnswersOwn(c) ==
  /\ result'[c].principal = principal[c]
  /\ result'[c].application = ApplicationOf[c]
  /\ clock - result'[c].fetched <= TTL

(* Lemma: a step gives a caller only an answer of its own. *)
LEMMA StepAnswersOwn ==
  ASSUME Inv, Next, NEW c \in Callers, pc[c] # "answered", pc'[c] = "answered"
  PROVE  AnswersOwn(c)
<1> USE DEF Inv, TypeOK, Answers, Fails, Goto, Callers
<1>1. ASSUME NEW d \in Callers, CallerStep(d) PROVE AnswersOwn(c)
  <2>1. CASE Hit(d)
    <3>1. c = d /\ result'[c] = cache[Identity(c)] /\ cache[Identity(c)] # None
      BY <2>1, ConfigurationAssumption DEF Hit, Valid
    <3>2. OwnConfig(cache[Identity(c)], Identity(c))
      BY IdentityType DEF StoredInv, Stored
    <3>3. clock - cache[Identity(c)].fetched <= TTL
      BY <2>1, <3>1 DEF Hit, Valid
    <3> QED
      BY <3>1, <3>2, <3>3, OwnIsOwn DEF AnswersOwn
  <2>2. CASE Finish(d)
    <3>1. c = d /\ result'[c] = result[c] /\ result[c] # None /\ pc[c] = "finishing"
      BY <2>2 DEF Finish
    <3>2. OwnConfig(result[c], Identity(c)) /\ Fresh(result[c])
      BY <3>1 DEF ResultInv, Result
    <3> QED
      BY <3>1, <3>2, OwnIsOwn DEF AnswersOwn, Fresh
  <2>3. CASE Joined(d)
    <3> DEFINE f == flight[c]
    <3>1. /\ c = d /\ pc[c] = "joined" /\ result'[c] = result[f] /\ result[f] # None
          /\ pc[f] \in Ended
      BY <2>3 DEF Joined
    <3>2. JoinedTo(c, f)
      BY <3>1 DEF JoinInv
    <3>3. OwnConfig(result[f], Identity(c)) /\ Fresh(result[f])
      BY <3>1, <3>2 DEF ResultInv, Result, JoinedTo, Ended
    <3> QED
      BY <3>1, <3>3, OwnIsOwn DEF AnswersOwn, Fresh
  <2>4. CASE ~ (Hit(d) \/ Finish(d) \/ Joined(d))
    BY <1>1, <2>4 DEF CallerStep, Call, GetToken, Join, Start, ReadDisk, Attempt, Load,
       LoadFails, Save, SaveFails, Settle, caller
  <2> QED
    BY <2>1, <2>2, <2>3, <2>4
<1> QED
  BY <1>1 DEF Next, Invalidate, Login, TimePasses, caller

(* Theorem: whatever way an answer came, from the cache, the disk, the     *)
(* platform or the request of another caller, it is of the caller's own    *)
(* token and application, and not older than the time to live.             *)
THEOREM OwnAnswer == Spec => AnswerIsOwn
<1> DEFINE Owns == \A c \in Callers : pc[c] # "answered" /\ pc'[c] = "answered" =>
                     /\ result'[c].principal = principal[c]
                     /\ result'[c].application = ApplicationOf[c]
                     /\ clock - result'[c].fetched <= TTL
<1>1. Inv /\ [Next]_vars => [Owns]_vars
  BY StepAnswersOwn DEF AnswersOwn
<1> QED
  BY <1>1, Invariance, PTL DEF Spec, AnswerIsOwn

=============================================================================
