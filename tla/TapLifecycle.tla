----------------------------- MODULE TapLifecycle -----------------------------
(***************************************************************************)
(* The pause/resume coordinator of zephyr-tap-runtime (tap-lifecycle.ts).  *)
(*                                                                         *)
(* A transition waits for its turn in the queue of its scope, asks the     *)
(* platform for permission, consults the pre-listeners, may be deferred,   *)
(* has the platform create (pause) or load (resume) a checkpoint and       *)
(* persist the new state, and tells the committed listeners.  Each of      *)
(* these calls races with the deadline of the transition and with the      *)
(* host's abort signal; a call that loses goes on running, unobserved but  *)
(* for its failure.  The platform applies a write when it answers.         *)
(*                                                                         *)
(* Time is a counter, deadlines are absolute.  A listener that asks for no *)
(* delay counts as 'continue'.  Registering listeners, the texts of errors *)
(* and the failures of error listeners are left out.                       *)
(*                                                                         *)
(* Bug_X is X with a plausible slip, and no part of the model.             *)
(***************************************************************************)
EXTENDS Integers, Sequences

CONSTANTS Scopes,
          References,          \* what a checkpoint may be called
          Deadlines,           \* deadlines a host may ask for
          Forces,              \* whether a host may force a transition
          Delays,              \* delays a pre-listener may ask for
          MaxDelay,            \* preDecision.maxDelayMs
          Aggregation,         \* preDecision.aggregation
          PreListeners, CommittedListeners, ErrorListeners,   \* how many
          MaxTimer,            \* longest delay setTimeout honours
          MaxRequests, MaxTime, EpochGap                       \* bounds

Ids  == 1 .. MaxRequests
None == "none"

ASSUME TapAssumption ==
  /\ MaxRequests \in Nat /\ MaxTime \in Nat /\ EpochGap \in Nat
  /\ Forces \subseteq BOOLEAN /\ Deadlines \subseteq Int /\ Delays \subseteq Nat /\ MaxDelay \in Nat
  /\ PreListeners \in Nat /\ CommittedListeners \in Nat /\ ErrorListeners \in Nat
  /\ MaxTimer \in Nat /\ Aggregation \in {"max-delay", "all"}
  /\ None \notin References

VARIABLES now,
          count,        \* transitions requested so far
          tr,           \* the transitions, by number
          tail,         \* queues: the last transition of a scope, or 0
          epochs,       \* the last epoch of each scope
          references,   \* checkpointReferences
          written       \* the transitions each scope's platform has persisted

vars == <<now, count, tr, tail, epochs, references, written>>

PlatformCalls == {"authorize", "checkpoint", "persist"}
ListenerCalls == {"pre", "committed"}
Calls == PlatformCalls \union ListenerCalls \union {"defer"}

Larger(a, b)  == IF a > b THEN a ELSE b
Smaller(a, b) == IF a < b THEN a ELSE b

(* A transition nobody has requested. *)
Nobody ==
  [kind |-> "pause", scope |-> None, force |-> FALSE, epoch |-> 0, deadline |-> 0,
   due |-> 0, previous |-> 0, pc |-> "none", waiting |-> FALSE, listener |-> 1,
   observer |-> 1, then |-> "end", status |-> "completed", reference |-> None,
   longest |-> 0, unanimous |-> TRUE, delay |-> 0, wake |-> 0, aborted |-> FALSE,
   timedOut |-> FALSE, late |-> None, persisted |-> FALSE, failures |-> 0, reports |-> 0]

Init ==
  /\ now = 0 /\ count = 0
  /\ tr = [i \in Ids |-> Nobody]
  /\ tail = [s \in Scopes |-> 0]
  /\ epochs = [s \in Scopes |-> -1]
  /\ references = [s \in Scopes |-> None]
  /\ written = [s \in Scopes |-> <<>>]

-----------------------------------------------------------------------------
(* What the code does to one transition r. *)

(* statusOf *)
Status(r) == IF r.timedOut \/ now >= r.deadline THEN "timed_out"
             ELSE IF r.aborted THEN "cancelled" ELSE None

(* setTimeout: a delay that does not fit its width elapses at once. *)
TimerLength(d) == IF d > MaxTimer THEN 1 ELSE Larger(0, d)

(* recordError: tell the error listeners, then go on at pc next. *)
Reporting(r, next) ==
  IF ErrorListeners = 0
  THEN [r EXCEPT !.pc = next, !.waiting = FALSE]
  ELSE [r EXCEPT !.pc = "report", !.waiting = FALSE, !.observer = 1, !.then = next]

(* The next error listener, or what comes after recordError. *)
Advance(r) == [r EXCEPT !.waiting  = FALSE,
                        !.observer = IF @ = ErrorListeners THEN 1 ELSE @ + 1,
                        !.pc       = IF r.observer = ErrorListeners THEN r.then ELSE @]

(* finishTerminal *)
FinishTerminal(r) ==
  LET q == [r EXCEPT !.status = Status(r)]
  IN IF q.status = "timed_out" THEN Reporting(q, "end")
     ELSE [q EXCEPT !.pc = "end", !.waiting = FALSE]

Bug_FailPlatform(r) == Reporting(r, "end")

FailPlatform(r) == Reporting([r EXCEPT !.status = "failed"], "end")

Bug_Interrupt(r) ==
  IF ~ r.waiting \/ r.pc = "report" THEN r
  ELSE FinishTerminal([r EXCEPT !.late = IF r.pc = "defer" THEN None ELSE r.pc])

(* The signal aborts: whatever invoke waits for is given up. *)
Interrupt(r) ==
  IF ~ r.waiting THEN r
  ELSE IF r.pc = "report" THEN Advance(r)
  ELSE FinishTerminal([r EXCEPT !.late = IF r.pc = "defer" THEN None ELSE r.pc])

(* resolveDecision: how long the transition is deferred. *)
Deferral(r) ==
  IF r.force \/ (Aggregation = "all" /\ ~ r.unanimous) THEN 0
  ELSE Smaller(Smaller(r.longest, MaxDelay), Larger(0, r.deadline - now))

Becomes(i, r) == tr' = [tr EXCEPT ![i] = r]
OthersUnchanged == UNCHANGED <<now, count, tail, epochs, references, written>>

-----------------------------------------------------------------------------
(* Requests and the queue of a scope. *)

(* pause, resume: start, createRuntime, enqueue *)
Request(kind, s, force, deadline, reference, epoch) ==
  /\ count < MaxRequests
  /\ epoch > epochs[s]                    \* otherwise createRuntime throws
  /\ count' = count + 1
  /\ Becomes(count + 1,
       [Nobody EXCEPT !.kind = kind, !.scope = s, !.force = force, !.epoch = epoch,
                      !.deadline = deadline, !.due = now + TimerLength(deadline - now),
                      !.previous = tail[s], !.pc = "queued", !.reference = reference])
  /\ tail' = [tail EXCEPT ![s] = count + 1]
  /\ epochs' = [epochs EXCEPT ![s] = epoch]
  /\ UNCHANGED <<now, references, written>>

Bug_Begin(i) ==
  /\ tr[i].pc = "queued"
  /\ tr[i].previous # 0 => tr[tr[i].previous].pc # "queued"
  /\ Becomes(i, [tr[i] EXCEPT !.pc = "authorize"])
  /\ OthersUnchanged

(* The task of a transition runs once the one before it has ended. *)
Begin(i) ==
  /\ tr[i].pc = "queued"
  /\ tr[i].previous # 0 => tr[tr[i].previous].pc = "done"
  /\ Becomes(i, [tr[i] EXCEPT !.pc = "authorize"])
  /\ OthersUnchanged

(* The result is returned; the queue is forgotten if nobody joined it. *)
Resolve(i) ==
  /\ tr[i].pc = "end"
  /\ Becomes(i, [tr[i] EXCEPT !.pc = "done"])
  /\ tail' = [tail EXCEPT ![tr[i].scope] = IF @ = i THEN 0 ELSE @]
  /\ UNCHANGED <<now, count, epochs, references, written>>

-----------------------------------------------------------------------------
(* Calls out of the coordinator. *)

(* invoke, up to its await *)
Call(i) ==
  LET r == tr[i] IN
  /\ r.pc \in Calls /\ ~ r.waiting
  /\ r.pc = "pre" => r.listener <= PreListeners
  /\ r.pc = "committed" => r.listener <= CommittedListeners
  /\ Becomes(i, IF Status(r) # None THEN FinishTerminal(r)
                ELSE [r EXCEPT !.waiting = TRUE,
                               !.wake = IF r.pc = "defer" THEN now + r.delay ELSE @])
  /\ OthersUnchanged

Answers(i, call) == tr[i].waiting /\ tr[i].pc = call

AuthorizeAnswers(i, allowed) ==
  /\ Answers(i, "authorize")
  /\ LET r == tr[i]
         known == IF r.kind = "resume" /\ r.reference = None
                  THEN references[r.scope] ELSE r.reference
     IN Becomes(i, IF allowed
                   THEN [r EXCEPT !.waiting = FALSE, !.pc = "pre", !.reference = known]
                   ELSE [r EXCEPT !.waiting = FALSE, !.pc = "end", !.status = "denied"])
  /\ OthersUnchanged

PreListenerAnswers(i, d) ==
  /\ Answers(i, "pre")
  /\ Becomes(i, [tr[i] EXCEPT !.waiting = FALSE, !.listener = @ + 1,
                              !.longest = Larger(@, d), !.unanimous = @ /\ d > 0])
  /\ OthersUnchanged

(* The end of dispatchPre. *)
PreListenersDone(i) ==
  LET r == tr[i] IN
  /\ r.pc = "pre" /\ ~ r.waiting /\ r.listener > PreListeners
  /\ Becomes(i, [r EXCEPT !.listener = 1, !.delay = Deferral(r),
                          !.pc = IF Deferral(r) > 0 THEN "defer" ELSE "checkpoint"])
  /\ OthersUnchanged

DelayEnds(i) ==
  /\ Answers(i, "defer") /\ now >= tr[i].wake
  /\ Becomes(i, [tr[i] EXCEPT !.waiting = FALSE, !.pc = "checkpoint"])
  /\ OthersUnchanged

Bug_CheckpointAnswers(i, reference) ==
  /\ Answers(i, "checkpoint")
  /\ Becomes(i, [tr[i] EXCEPT !.waiting = FALSE, !.pc = "persist",
                              !.reference = IF reference = None THEN @ ELSE reference])
  /\ references' = IF tr[i].kind = "pause"
                   THEN [references EXCEPT ![tr[i].scope] = tr'[i].reference]
                   ELSE references
  /\ UNCHANGED <<now, count, tail, epochs, written>>

(* createCheckpoint of a pause, loadCheckpoint of a resume *)
CheckpointAnswers(i, reference) ==
  /\ Answers(i, "checkpoint")
  /\ Becomes(i, [tr[i] EXCEPT !.waiting = FALSE, !.pc = "persist",
                              !.reference = IF reference = None THEN @ ELSE reference])
  /\ OthersUnchanged

Persist(i) == written' = [written EXCEPT ![tr[i].scope] = Append(@, i)]

(* persistPaused, persistResumed *)
PersistAnswers(i) ==
  LET r == tr[i] IN
  /\ Answers(i, "persist")
  /\ Becomes(i, [r EXCEPT !.waiting = FALSE, !.pc = "committed", !.persisted = TRUE])
  /\ Persist(i)
  /\ references' = IF r.kind = "pause"
                   THEN [references EXCEPT ![r.scope] = r.reference] ELSE references
  /\ UNCHANGED <<now, count, tail, epochs>>

CommittedListenerAnswers(i) ==
  /\ Answers(i, "committed")
  /\ Becomes(i, [tr[i] EXCEPT !.waiting = FALSE, !.listener = @ + 1])
  /\ OthersUnchanged

(* The end of dispatchCommitted, and finishIfTerminal. *)
CommittedListenersDone(i) ==
  LET r == tr[i] IN
  /\ r.pc = "committed" /\ ~ r.waiting /\ r.listener > CommittedListeners
  /\ Becomes(i, IF Status(r) # None THEN FinishTerminal(r) ELSE [r EXCEPT !.pc = "end"])
  /\ OthersUnchanged

(* A call that rejects, throws, or answers nonsense. *)
CallFails(i) ==
  LET r == [tr[i] EXCEPT !.failures = @ + 1] IN
  /\ r.waiting /\ r.pc \in PlatformCalls \union ListenerCalls
  /\ Becomes(i, IF r.pc \in PlatformCalls THEN FailPlatform(r)
                ELSE Reporting([r EXCEPT !.listener = @ + 1, !.unanimous = FALSE], r.pc))
  /\ OthersUnchanged

(* recordError calls a listener, and waits for it unless time is up. *)
NotifyErrorListener(i) ==
  LET r == [tr[i] EXCEPT !.reports = @ + 1] IN
  /\ r.pc = "report" /\ ~ r.waiting
  /\ Becomes(i, IF Status(r) # None THEN Advance(r) ELSE [r EXCEPT !.waiting = TRUE])
  /\ OthersUnchanged

ErrorListenerAnswers(i) ==
  /\ Answers(i, "report")
  /\ Becomes(i, Advance(tr[i]))
  /\ OthersUnchanged

Bug_LateCallSettles(i) ==
  /\ tr[i].late # None
  /\ \/ /\ Becomes(i, [tr[i] EXCEPT !.late = None])
        /\ IF tr[i].late = "persist" THEN Persist(i) ELSE UNCHANGED written
     \/ /\ Becomes(i, [tr[i] EXCEPT !.late = None, !.failures = @ + 1])
        /\ UNCHANGED written
  /\ UNCHANGED <<now, count, tail, epochs, references>>

(* observeLateFailure *)
LateCallSettles(i) ==
  /\ tr[i].late # None
  /\ \/ /\ Becomes(i, [tr[i] EXCEPT !.late = None])
        /\ IF tr[i].late = "persist" THEN Persist(i) ELSE UNCHANGED written
     \/ /\ Becomes(i, [tr[i] EXCEPT !.late = None, !.failures = @ + 1,
                                    !.reports = @ + ErrorListeners])
        /\ UNCHANGED written
  /\ UNCHANGED <<now, count, tail, epochs, references>>

-----------------------------------------------------------------------------
(* The host's signal and the clock. *)

Ongoing(i) == tr[i].pc \notin {"none", "done"}

HostAborts(i) ==
  /\ Ongoing(i) /\ ~ tr[i].aborted
  /\ Becomes(i, Interrupt([tr[i] EXCEPT !.aborted = TRUE]))
  /\ OthersUnchanged

TimerFires(i) ==
  /\ Ongoing(i) /\ ~ tr[i].timedOut /\ now >= tr[i].due
  /\ Becomes(i, Interrupt([tr[i] EXCEPT !.timedOut = TRUE]))
  /\ OthersUnchanged

Tick ==
  /\ now < MaxTime /\ now' = now + 1
  /\ UNCHANGED <<count, tr, tail, epochs, references, written>>

-----------------------------------------------------------------------------
(* What the coordinator does by itself, without an answer from outside. *)
Step(i) ==
  \/ Begin(i) \/ Call(i) \/ PreListenersDone(i) \/ DelayEnds(i)
  \/ CommittedListenersDone(i) \/ NotifyErrorListener(i) \/ Resolve(i) \/ TimerFires(i)

Answer(i) ==
  \/ \E allowed \in BOOLEAN : AuthorizeAnswers(i, allowed)
  \/ \E d \in Delays \union {0} : PreListenerAnswers(i, d)
  \/ \E reference \in References \union {None} : CheckpointAnswers(i, reference)
  \/ PersistAnswers(i) \/ CommittedListenerAnswers(i) \/ CallFails(i)
  \/ ErrorListenerAnswers(i) \/ LateCallSettles(i)

Host ==
  \/ \E kind \in {"pause", "resume"}, s \in Scopes, force \in Forces,
        deadline \in Deadlines, reference \in References \union {None}, gap \in 1 .. EpochGap :
       Request(kind, s, force, deadline, reference, epochs[s] + gap)
  \/ \E i \in Ids : HostAborts(i)

Next == Host \/ Tick \/ \E i \in Ids : Step(i) \/ Answer(i)

(* Time passes, timers fire and the event loop turns.  Neither platform    *)
(* nor listeners have to answer, and the host need not abort.              *)
Progress == WF_vars(Tick) /\ \A i \in Ids : WF_vars(Step(i))

Spec == Init /\ [][Next]_vars /\ Progress

-----------------------------------------------------------------------------
(* Properties. *)

Transition ==
  [kind : {"pause", "resume"}, scope : Scopes \union {None}, force : BOOLEAN, epoch : Nat,
   deadline : Int, due : Int, previous : Nat,
   pc : Calls \union {"none", "queued", "report", "end", "done"}, waiting : BOOLEAN,
   listener : Nat \ {0}, observer : Nat, then : ListenerCalls \union {"end"},
   status : {"completed", "denied", "failed", "cancelled", "timed_out"},
   reference : References \union {None}, longest : Nat, unanimous : BOOLEAN,
   delay : Nat, wake : Int, aborted : BOOLEAN, timedOut : BOOLEAN,
   late : PlatformCalls \union ListenerCalls \union {None}, persisted : BOOLEAN,
   failures : Nat, reports : Nat]

TypeOK ==
  /\ now \in 0 .. MaxTime
  /\ count \in 0 .. MaxRequests
  /\ tr \in [Ids -> Transition]
  /\ \A i \in Ids : tr[i].observer \in 1 .. Larger(1, ErrorListeners)
  /\ tail \in [Scopes -> 0 .. count]
  /\ epochs \in [Scopes -> Nat \union {-1}]
  /\ references \in [Scopes -> References \union {None}]
  /\ written \in [Scopes -> Seq(Ids)]

Requested(i) == tr[i].pc # "none"
Begun(i)     == tr[i].pc \notin {"none", "queued"}
Earlier(i, j) == tr[i].scope = tr[j].scope /\ tr[i].epoch < tr[j].epoch

(* A transition begins only after every earlier one of its scope has       *)
(* returned its result.                                                    *)
InEpochOrder ==
  \A i, j \in Ids : Requested(i) /\ Begun(j) /\ Earlier(i, j) => tr[i].pc = "done"

WrittenBy(s, i) == \E k \in DOMAIN written[s] : written[s][k] = i

(* The result a caller gets agrees with what the platform has stored, then *)
(* and later: 'completed' was persisted, 'denied' and 'failed' never are.  *)
AnswerMatchesPlatform ==
  \A i \in Ids : Requested(i) =>
    /\ tr[i].pc = "done" /\ tr[i].status = "completed" => WrittenBy(tr[i].scope, i)
    /\ tr[i].status \in {"denied", "failed"} => ~ WrittenBy(tr[i].scope, i)

(* The pauses of a scope the coordinator saw persisted. *)
Pauses(s) == {i \in Ids : tr[i].scope = s /\ tr[i].kind = "pause" /\ tr[i].persisted}

(* A resume falls back on the reference of the last pause the platform     *)
(* acknowledged, whatever transitions failed or timed out since.           *)
ReferenceOfLastPause ==
  \A s \in Scopes :
    \/ Pauses(s) = {} /\ references[s] = None
    \/ \E i \in Pauses(s) : /\ references[s] = tr[i].reference
                            /\ \A j \in Pauses(s) : tr[j].epoch <= tr[i].epoch

(* Every failure of a call, a late one too, and the deadline are reported  *)
(* to each error listener exactly once.                                    *)
ReportedOnce ==
  \A i \in Ids : tr[i].pc = "done" =>
    tr[i].reports = ErrorListeners *
      (tr[i].failures + (IF tr[i].status = "timed_out" THEN 1 ELSE 0))

(* Every transition ends, even if nobody ever answers.                     *)
EveryTransitionEnds ==
  \A i \in Ids : tr[i].pc = "queued" ~> tr[i].pc = "done"

=============================================================================
