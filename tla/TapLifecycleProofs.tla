-------------------------- MODULE TapLifecycleProofs --------------------------
(***************************************************************************)
(* Theorems about TapLifecycle, for every number of transitions, scopes,   *)
(* listeners and deadlines, and whatever the platform and the host do.     *)
(***************************************************************************)
EXTENDS TapLifecycle, TLAPS

(* The part of TypeOK the invariants rest on. *)
Typed ==
  /\ now \in Int /\ count \in 0 .. MaxRequests
  /\ tr \in [Ids -> Transition]
  /\ tail \in [Scopes -> 0 .. count]
  /\ epochs \in [Scopes -> Int] /\ \A s \in Scopes : epochs[s] >= -1
  /\ references \in [Scopes -> References \union {None}]
  /\ written \in [Scopes -> Seq(Ids)]

Lost == {"cancelled", "timed_out"}

(* Where a transition stands, or will when its error listeners were told. *)
Stage(r) == IF r.pc = "report" THEN r.then ELSE r.pc

(* Until it ends a transition is complete but for its persisting; when it  *)
(* has ended its status tells whether it was persisted.                    *)
LocalInv(r) ==
  /\ r.waiting => r.pc \in Calls \union {"report"}
  /\ Stage(r) \notin {"end", "done"} =>
       r.status = "completed" /\ r.late = None /\ (r.persisted <=> Stage(r) = "committed")
  /\ Stage(r) \in {"end", "done"} =>
       /\ r.status = "completed" => r.persisted
       /\ r.status \in {"denied", "failed"} => ~ r.persisted
       /\ r.late # None => r.status \in Lost

(* What the platform has stored was acknowledged, or written too late. *)
WrittenInv ==
  \A i \in Ids :
    /\ Requested(i) /\ tr[i].persisted => WrittenBy(tr[i].scope, i)
    /\ Requested(i) /\ WrittenBy(tr[i].scope, i) => tr[i].persisted \/ tr[i].status \in Lost
    /\ \A s \in Scopes : WrittenBy(s, i) => Requested(i) /\ tr[i].scope = s

InScope(i, s) == i \in Ids /\ Requested(i) /\ tr[i].scope = s
Done(i)       == tr[i].pc = "done"

(* The queue of a scope: a tail of 0 means everyone is done, and whoever   *)
(* has begun has only finished transitions before it.                      *)
QueueInv ==
  /\ \A i \in Ids : Requested(i) <=> i <= count
  /\ \A i \in Ids : Requested(i) => tr[i].scope \in Scopes /\ tr[i].epoch <= epochs[tr[i].scope]
  /\ \A i, j \in Ids : Requested(j) /\ InScope(i, tr[j].scope) /\ i < j =>
       tr[i].epoch < tr[j].epoch
  /\ \A s \in Scopes :
       /\ tail[s] = 0 => \A j \in Ids : InScope(j, s) => Done(j)
       /\ tail[s] # 0 => InScope(tail[s], s) /\ \A j \in Ids : InScope(j, s) => j <= tail[s]
  /\ \A i \in Ids : Requested(i) =>
       /\ tr[i].previous = 0 =>
            \A j \in Ids : InScope(j, tr[i].scope) /\ j < i => Done(j)
       /\ tr[i].previous # 0 =>
            /\ InScope(tr[i].previous, tr[i].scope) /\ tr[i].previous < i
            /\ \A j \in Ids : InScope(j, tr[i].scope) /\ j < i => j <= tr[i].previous
  /\ \A i, j \in Ids : Begun(i) /\ InScope(j, tr[i].scope) /\ j < i => Done(j)

Inv == /\ Typed
       /\ \A i \in Ids : LocalInv(tr[i])
       /\ WrittenInv /\ QueueInv /\ ReferenceOfLastPause

(* r becomes q without touching what the invariants know of it. *)
Frame(r, q) ==
  /\ q.scope = r.scope /\ q.epoch = r.epoch /\ q.kind = r.kind
  /\ q.previous = r.previous /\ (q.persisted <=> r.persisted)
  /\ r.persisted => q.reference = r.reference
  /\ r.status \in Lost => q.status \in Lost
  /\ r.pc = "none" <=> q.pc = "none"

(* r becomes q, and nobody's turn changes by it. *)
SameTurn(r, q) ==
  /\ r.pc = "queued" <=> q.pc = "queued"
  /\ r.pc = "done" <=> q.pc = "done"

-----------------------------------------------------------------------------
(* Lemma: a terminal status is one of a lost transition. *)
LEMMA StatusType ==
  ASSUME NEW r, Status(r) # None
  PROVE  Status(r) \in {"cancelled", "timed_out"}
BY DEF Status, None

(* Lemma: recordError keeps a transition typed. *)
LEMMA ReportingType ==
  ASSUME NEW r \in Transition, NEW next \in ListenerCalls \union {"end"}
  PROVE  Reporting(r, next) \in Transition
<1>1. /\ next \in Calls \union {"none", "queued", "report", "end", "done"}
      /\ "report" \in Calls \union {"none", "queued", "report", "end", "done"}
  BY DEF Calls
<1>2. [r EXCEPT !.pc = next, !.waiting = FALSE] \in Transition
  BY <1>1, ZenonT(60) DEF Transition
<1>3. [r EXCEPT !.pc = "report", !.waiting = FALSE, !.observer = 1, !.then = next]
        \in Transition
  BY <1>1, ZenonT(60) DEF Transition
<1> QED
  BY <1>2, <1>3 DEF Reporting

(* Lemma: so does moving on to the next error listener. *)
LEMMA AdvanceType ==
  ASSUME NEW r \in Transition
  PROVE  Advance(r) \in Transition
<1> DEFINE next == IF r.observer = ErrorListeners THEN 1 ELSE r.observer + 1
           pc   == IF r.observer = ErrorListeners THEN r.then ELSE r.pc
<1>1. next \in Nat
  BY DEF Transition
<1>2. pc \in Calls \union {"none", "queued", "report", "end", "done"}
  BY DEF Transition, Calls
<1> HIDE DEF next, pc
<1>3. [r EXCEPT !.waiting = FALSE, !.observer = next, !.pc = pc] \in Transition
  BY <1>1, <1>2, ZenonT(60) DEF Transition
<1>4. Advance(r) = [r EXCEPT !.waiting = FALSE, !.observer = next, !.pc = pc]
  BY DEF Advance, next, pc, Transition
<1> QED
  BY <1>3, <1>4

(* Lemma: so does finishTerminal, once the transition is terminal. *)
LEMMA FinishType ==
  ASSUME NEW r \in Transition, Status(r) # None
  PROVE  FinishTerminal(r) \in Transition
<1> DEFINE q == [r EXCEPT !.status = Status(r)]
<1>1. q \in Transition
  BY StatusType DEF Transition
<1>2. Reporting(q, "end") \in Transition
  BY <1>1, ReportingType
<1>3. [q EXCEPT !.pc = "end", !.waiting = FALSE] \in Transition
  BY <1>1, ZenonT(60) DEF Transition
<1> QED
  BY <1>2, <1>3 DEF FinishTerminal

(* Lemma: so does failPlatform. *)
LEMMA FailType ==
  ASSUME NEW r \in Transition
  PROVE  FailPlatform(r) \in Transition
<1>1. [r EXCEPT !.status = "failed"] \in Transition
  BY DEF Transition
<1> QED
  BY <1>1, ReportingType DEF FailPlatform

(* Lemma: so does giving up what invoke waits for. *)
LEMMA InterruptType ==
  ASSUME NEW r \in Transition, r.aborted \/ r.timedOut,
         r.waiting => r.pc \in Calls \union {"report"}
  PROVE  Interrupt(r) \in Transition
<1> DEFINE q == [r EXCEPT !.late = IF r.pc = "defer" THEN None ELSE r.pc]
<1>1. CASE r.waiting /\ r.pc # "report"
  <2>1. q \in Transition
    BY <1>1 DEF Transition, Calls
  <2>2. q.aborted \/ q.timedOut
    BY DEF Transition
  <2>3. Status(q) # None
    BY <2>1, <2>2 DEF Status, None, Transition
  <2>4. FinishTerminal(q) \in Transition
    BY <2>1, <2>3, FinishType
  <2> QED
    BY <1>1, <2>4 DEF Interrupt
<1>2. CASE ~ r.waiting \/ r.pc = "report"
  BY <1>2, AdvanceType DEF Interrupt
<1> QED
  BY <1>1, <1>2

-----------------------------------------------------------------------------
(* Lemma: a step of one transition within its frame keeps what concerns    *)
(* the platform.                                                           *)
LEMMA FramedStep ==
  ASSUME Inv, NEW i \in Ids, NEW q \in Transition, Becomes(i, q), LocalInv(q),
         Frame(tr[i], q), UNCHANGED <<now, count, epochs, references, written>>,
         tail' \in [Scopes -> 0 .. count]
  PROVE  Typed' /\ (\A j \in Ids : LocalInv(tr[j])') /\ WrittenInv' /\ ReferenceOfLastPause'
<1> USE DEF Inv
<1>1. tr' \in [Ids -> Transition] /\ tr'[i] = q /\ \A j \in Ids : j # i => tr'[j] = tr[j]
  BY DEF Typed, Becomes
<1>2. Typed'
  BY <1>1 DEF Typed
<1>3. \A j \in Ids : LocalInv(tr[j])'
  <2> TAKE j \in Ids
  <2>1. LocalInv(tr'[j])
    BY <1>1
  <2> QED
    BY <2>1 DEF LocalInv, Stage
<1>4. \A j \in Ids : /\ tr'[j].scope = tr[j].scope /\ tr'[j].epoch = tr[j].epoch
                     /\ tr'[j].kind = tr[j].kind /\ (tr'[j].persisted <=> tr[j].persisted)
                     /\ tr[j].persisted => tr'[j].reference = tr[j].reference
                     /\ tr[j].status \in Lost => tr'[j].status \in Lost
                     /\ Requested(j)' <=> Requested(j)
  BY <1>1 DEF Frame, Requested
<1>5. WrittenInv'
  <2>1. \A s, j : WrittenBy(s, j)' <=> WrittenBy(s, j)
    BY DEF WrittenBy
  <2> QED
    BY <1>4, <2>1 DEF WrittenInv
<1>6. ReferenceOfLastPause'
  <2>1. \A s : Pauses(s)' = Pauses(s)
    BY <1>4 DEF Pauses
  <2>2. \A s : \A j \in Pauses(s) : tr'[j].reference = tr[j].reference /\ tr'[j].epoch = tr[j].epoch
    BY <1>4 DEF Pauses
  <2> QED
    BY <2>1, <2>2 DEF ReferenceOfLastPause
<1> QED
  BY <1>2, <1>3, <1>5, <1>6

(* Lemma: a step that changes nobody's turn keeps the queues. *)
LEMMA SameQueues ==
  ASSUME Inv, NEW i \in Ids, NEW q \in Transition, Becomes(i, q),
         Frame(tr[i], q), SameTurn(tr[i], q), UNCHANGED <<count, epochs, tail>>
  PROVE  QueueInv'
<1>1. \A j \in Ids : /\ tr'[j].scope = tr[j].scope /\ tr'[j].epoch = tr[j].epoch
                     /\ tr'[j].previous = tr[j].previous
                     /\ Requested(j)' = Requested(j) /\ Begun(j)' = Begun(j)
                     /\ Done(j)' = Done(j)
  BY DEF Inv, Typed, Becomes, Frame, SameTurn, Requested, Begun, Done
<1>2. \A s, j : InScope(j, s)' <=> InScope(j, s)
  BY <1>1 DEF InScope
<1>3. QueueInv
  BY DEF Inv
<1> QED
  BY <1>1, <1>2, <1>3 DEF QueueInv

(* Lemma: both together. *)
LEMMA QuietStep ==
  ASSUME Inv, NEW i \in Ids, NEW q \in Transition, Becomes(i, q), LocalInv(q),
         Frame(tr[i], q), SameTurn(tr[i], q), OthersUnchanged
  PROVE  Inv'
<1>1. tail' \in [Scopes -> 0 .. count]
  BY DEF OthersUnchanged, Inv, Typed
<1> QED
  BY <1>1, FramedStep, SameQueues DEF OthersUnchanged, Inv

-----------------------------------------------------------------------------
(* Lemma: what recordError changes. *)
LEMMA ReportingMove ==
  ASSUME NEW r \in Transition, NEW next \in ListenerCalls \union {"end"}, NEW q,
         q = Reporting(r, next)
  PROVE  /\ q \in Transition
         /\ Stage(q) = next /\ q.pc \in {next, "report"} /\ ~ q.waiting
         /\ q.status = r.status /\ q.late = r.late /\ (q.persisted <=> r.persisted)
         /\ q.scope = r.scope /\ q.epoch = r.epoch /\ q.kind = r.kind
         /\ q.previous = r.previous /\ q.reference = r.reference
<1>1. q \in Transition
  BY ReportingType
<1>2. next # "report"
  BY DEF ListenerCalls
<1> QED
  BY <1>1, <1>2 DEF Reporting, Stage, Transition

(* Lemma: what the next error listener changes. *)
LEMMA AdvanceMove ==
  ASSUME NEW r \in Transition, r.pc = "report", LocalInv(r), NEW q, q = Advance(r)
  PROVE  q \in Transition /\ LocalInv(q) /\ Frame(r, q) /\ SameTurn(r, q)
<1>1. q \in Transition
  BY AdvanceType
<1>2. /\ ~ q.waiting /\ q.status = r.status /\ q.late = r.late
      /\ (q.persisted <=> r.persisted) /\ q.scope = r.scope /\ q.epoch = r.epoch
      /\ q.kind = r.kind /\ q.previous = r.previous /\ q.reference = r.reference
      /\ q.then = r.then /\ q.pc \in {"report", r.then}
  BY DEF Advance, Transition
<1>3. r.then \in {"pre", "committed", "end"}
  BY DEF Transition, ListenerCalls
<1>4. Stage(q) = Stage(r)
  BY <1>2, <1>3 DEF Stage
<1> QED
  BY <1>1, <1>2, <1>3, <1>4 DEF LocalInv, Frame, SameTurn

(* Lemma: finishTerminal loses a transition that had begun. *)
LEMMA FinishMove ==
  ASSUME NEW r \in Transition, Status(r) # None, r.pc \notin {"none", "queued", "done"},
         NEW q, q = FinishTerminal(r)
  PROVE  q \in Transition /\ LocalInv(q) /\ Frame(r, q) /\ SameTurn(r, q)
<1> DEFINE m == [r EXCEPT !.status = Status(r)]
<1>1. m \in Transition /\ m.status \in Lost /\ m.late = r.late /\ (m.persisted <=> r.persisted)
      /\ m.scope = r.scope /\ m.epoch = r.epoch /\ m.kind = r.kind
      /\ m.previous = r.previous /\ m.reference = r.reference
  BY StatusType DEF Transition, Lost
<1>2. /\ q \in Transition
      /\ Stage(q) = "end" /\ q.pc \in {"end", "report"} /\ ~ q.waiting
      /\ q.status = m.status /\ q.late = m.late /\ (q.persisted <=> m.persisted)
      /\ q.scope = m.scope /\ q.epoch = m.epoch /\ q.kind = m.kind
      /\ q.previous = m.previous /\ q.reference = m.reference
  <2>1. CASE m.status = "timed_out"
    <3>1. q = Reporting(m, "end")
      BY <2>1 DEF FinishTerminal
    <3>2. "end" \in ListenerCalls \union {"end"}
      OBVIOUS
    <3> HIDE DEF m
    <3>3. m \in Transition
      BY <1>1
    <3> QED
      BY <1>1, <3>1, <3>2, <3>3, ReportingMove
  <2>2. CASE m.status # "timed_out"
    <3>1. q = [m EXCEPT !.pc = "end", !.waiting = FALSE]
      BY <2>2 DEF FinishTerminal
    <3> HIDE DEF m
    <3>2. q.pc = "end"
      BY <1>1, <3>1 DEF Transition
    <3>3. q \in Transition
      BY FinishType
    <3> QED
      BY <1>1, <3>1, <3>2, <3>3 DEF Stage, Transition
  <2> QED
    BY <2>1, <2>2
<1> HIDE DEF m
<1>3. LocalInv(q)
  BY <1>1, <1>2 DEF LocalInv, Lost
<1> QED
  BY <1>1, <1>2, <1>3 DEF Frame, SameTurn

(* Lemma: an abort or a timer interrupts a transition within its frame. *)
LEMMA InterruptMove ==
  ASSUME NEW r \in Transition, LocalInv(r), r.aborted \/ r.timedOut, NEW q, q = Interrupt(r)
  PROVE  q \in Transition /\ LocalInv(q) /\ Frame(r, q) /\ SameTurn(r, q)
<1>1. CASE ~ r.waiting
  BY <1>1 DEF Interrupt, Frame, SameTurn
<1>2. CASE r.waiting /\ r.pc = "report"
  BY <1>2, AdvanceMove DEF Interrupt
<1>3. CASE r.waiting /\ r.pc # "report"
  <2> DEFINE m == [r EXCEPT !.late = IF r.pc = "defer" THEN None ELSE r.pc]
  <2>1. r.pc \in Calls
    BY <1>3 DEF LocalInv
  <2>2. m \in Transition /\ m.pc = r.pc
    BY <2>1 DEF Transition, Calls
  <2>3. Status(m) # None
    BY <2>2 DEF Status, None, Transition
  <2>4. q = FinishTerminal(m)
    BY <1>3 DEF Interrupt
  <2>5. Frame(r, m)
    BY DEF Frame, Transition
  <2> HIDE DEF m
  <2>6. r.pc \notin {"none", "queued", "done"}
    BY <2>1 DEF Calls, PlatformCalls, ListenerCalls
  <2>7. q \in Transition /\ LocalInv(q) /\ Frame(m, q) /\ SameTurn(m, q)
    BY <2>2, <2>3, <2>4, <2>6, FinishMove
  <2> QED
    BY <2>2, <2>5, <2>7 DEF Frame, SameTurn
<1> QED
  BY <1>1, <1>2, <1>3

-----------------------------------------------------------------------------
(* Lemma: invoke starts a call, or finishes a transition that is terminal. *)
LEMMA CallInv == ASSUME Inv, NEW i \in Ids, Call(i) PROVE Inv'
<1> DEFINE r == tr[i]
           w == [r EXCEPT !.waiting = TRUE, !.wake = IF r.pc = "defer" THEN now + r.delay ELSE @]
<1>1. r \in Transition /\ LocalInv(r) /\ r.pc \in Calls
  BY DEF Call, Inv, Typed
<1>2. r.pc \notin {"none", "queued", "done", "report"}
  BY <1>1 DEF Calls, PlatformCalls, ListenerCalls
<1>3. CASE Status(r) # None
  <2> DEFINE q == FinishTerminal(r)
  <2>1. Becomes(i, q) /\ OthersUnchanged
    BY <1>3 DEF Call
  <2> HIDE DEF r, q
  <2>2. q \in Transition /\ LocalInv(q) /\ Frame(r, q) /\ SameTurn(r, q)
    BY <1>1, <1>2, <1>3, FinishMove DEF q
  <2> QED
    BY <2>1, <2>2, QuietStep DEF r
<1>4. CASE Status(r) = None
  <2>1. Becomes(i, w) /\ OthersUnchanged
    BY <1>4 DEF Call
  <2>2. now + r.delay \in Int
    BY <1>1 DEF Inv, Typed, Transition
  <2> HIDE DEF r
  <2>3. w \in Transition
    BY <1>1, <2>2, ZenonT(60) DEF Transition
  <2>4. LocalInv(w) /\ Frame(r, w) /\ SameTurn(r, w)
    BY <1>1, <1>2 DEF LocalInv, Frame, SameTurn, Stage, Transition
  <2> HIDE DEF w
  <2> QED
    BY <2>1, <2>3, <2>4, QuietStep DEF r
<1> QED
  BY <1>3, <1>4

(* Lemma: the platform allows or denies a transition. *)
LEMMA AuthorizeInv ==
  ASSUME Inv, NEW i \in Ids, NEW allowed \in BOOLEAN, AuthorizeAnswers(i, allowed) PROVE Inv'
<1> DEFINE r == tr[i]
           known == IF r.kind = "resume" /\ r.reference = None
                    THEN references[r.scope] ELSE r.reference
           a == [r EXCEPT !.waiting = FALSE, !.pc = "pre", !.reference = known]
           d == [r EXCEPT !.waiting = FALSE, !.pc = "end", !.status = "denied"]
<1>1. r \in Transition /\ LocalInv(r) /\ r.pc = "authorize"
  BY DEF AuthorizeAnswers, Answers, Inv, Typed
<1>2. r.scope \in Scopes
  <2>1. Requested(i)
    BY <1>1 DEF Requested
  <2> QED
    BY <2>1 DEF Inv, QueueInv
<1>3. known \in References \union {None}
  BY <1>1, <1>2 DEF Inv, Typed, Transition
<1>4. Becomes(i, IF allowed THEN a ELSE d) /\ OthersUnchanged
  BY DEF AuthorizeAnswers
<1>5. ~ r.persisted /\ r.status = "completed" /\ r.late = None
  BY <1>1 DEF LocalInv, Stage
<1> HIDE DEF r, known
<1>6. a \in Transition /\ LocalInv(a) /\ Frame(r, a) /\ SameTurn(r, a)
  <2>1. a \in Transition
    BY <1>1, <1>3 DEF Transition, Calls, ListenerCalls
  <2> QED
    BY <1>1, <1>5, <2>1 DEF LocalInv, Frame, SameTurn, Stage, Transition
<1>7. d \in Transition /\ LocalInv(d) /\ Frame(r, d) /\ SameTurn(r, d)
  <2>1. d \in Transition
    BY <1>1 DEF Transition
  <2> QED
    BY <1>1, <1>5, <2>1 DEF LocalInv, Frame, SameTurn, Stage, Transition, Lost
<1> HIDE DEF a, d
<1> QED
  BY <1>4, <1>6, <1>7, QuietStep DEF r

(* Lemma: a pre-listener answers. *)
LEMMA PreListenerInv ==
  ASSUME Inv, NEW i \in Ids, NEW d \in Delays \union {0}, PreListenerAnswers(i, d) PROVE Inv'
<1> DEFINE r == tr[i]
           next == r.listener + 1
           longest == Larger(r.longest, d)
           unanimous == r.unanimous /\ d > 0
           q == [r EXCEPT !.waiting = FALSE, !.listener = next,
                          !.longest = longest, !.unanimous = unanimous]
<1>1. r \in Transition /\ LocalInv(r) /\ r.pc = "pre"
  BY DEF PreListenerAnswers, Answers, Inv, Typed
<1>2. Becomes(i, q) /\ OthersUnchanged
  BY DEF PreListenerAnswers
<1>3. next \in Nat \ {0} /\ longest \in Nat /\ unanimous \in BOOLEAN
  BY <1>1, TapAssumption DEF Transition, Larger
<1> HIDE DEF r, next, longest, unanimous
<1>4. q \in Transition
  BY <1>1, <1>3 DEF Transition
<1>5. LocalInv(q) /\ Frame(r, q) /\ SameTurn(r, q)
  BY <1>1 DEF LocalInv, Frame, SameTurn, Stage, Transition
<1> HIDE DEF q
<1> QED
  BY <1>2, <1>4, <1>5, QuietStep DEF r

(* Lemma: the end of dispatchPre defers or goes on. *)
LEMMA PreDoneInv == ASSUME Inv, NEW i \in Ids, PreListenersDone(i) PROVE Inv'
<1> DEFINE r == tr[i]
           next == IF Deferral(r) > 0 THEN "defer" ELSE "checkpoint"
           q == [r EXCEPT !.listener = 1, !.delay = Deferral(r), !.pc = next]
<1>1. r \in Transition /\ LocalInv(r) /\ r.pc = "pre"
  BY DEF PreListenersDone, Inv, Typed
<1>2. Becomes(i, q) /\ OthersUnchanged
  BY DEF PreListenersDone
<1>3. Deferral(r) \in Nat
  BY <1>1, TapAssumption DEF Deferral, Smaller, Larger, Transition, Inv, Typed
<1>4. next \in {"defer", "checkpoint"} /\ next \in Calls
  BY DEF Calls, PlatformCalls
<1> DEFINE delay == Deferral(r)
<1> HIDE DEF r, next
<1>5. q \in Transition
  <2>1. delay \in Nat
    BY <1>3
  <2> HIDE DEF delay
  <2>2. 1 \in Nat \ {0} /\ next \in Calls \union {"none", "queued", "report", "end", "done"}
    BY <1>4
  <2>3. [r EXCEPT !.listener = 1, !.delay = delay, !.pc = next] \in Transition
    BY <1>1, <2>1, <2>2 DEF Transition
  <2> QED
    BY <2>3 DEF delay
<1>6. q.pc = next /\ q.waiting = r.waiting
  BY <1>1, <1>5 DEF Transition
<1>7. LocalInv(q) /\ Frame(r, q) /\ SameTurn(r, q)
  BY <1>1, <1>4, <1>5, <1>6 DEF LocalInv, Frame, SameTurn, Stage, Transition, Calls, PlatformCalls
<1> HIDE DEF q
<1> QED
  BY <1>2, <1>5, <1>7, QuietStep DEF r

(* Lemma: a deferral ends. *)
LEMMA DelayInv == ASSUME Inv, NEW i \in Ids, DelayEnds(i) PROVE Inv'
<1> DEFINE r == tr[i]
           q == [r EXCEPT !.waiting = FALSE, !.pc = "checkpoint"]
<1>1. r \in Transition /\ LocalInv(r) /\ r.pc = "defer"
  BY DEF DelayEnds, Answers, Inv, Typed
<1>2. Becomes(i, q) /\ OthersUnchanged
  BY DEF DelayEnds
<1> HIDE DEF r
<1>3. q \in Transition
  BY <1>1 DEF Transition, Calls, PlatformCalls
<1>4. LocalInv(q) /\ Frame(r, q) /\ SameTurn(r, q)
  BY <1>1 DEF LocalInv, Frame, SameTurn, Stage, Transition
<1> HIDE DEF q
<1> QED
  BY <1>2, <1>3, <1>4, QuietStep DEF r

(* Lemma: the platform answers with a checkpoint. *)
LEMMA CheckpointInv ==
  ASSUME Inv, NEW i \in Ids, NEW reference \in References \union {None},
         CheckpointAnswers(i, reference)
  PROVE  Inv'
<1> DEFINE r == tr[i]
           known == IF reference = None THEN r.reference ELSE reference
           q == [r EXCEPT !.waiting = FALSE, !.pc = "persist", !.reference = known]
<1>1. r \in Transition /\ LocalInv(r) /\ r.pc = "checkpoint"
  BY DEF CheckpointAnswers, Answers, Inv, Typed
<1>2. Becomes(i, q) /\ OthersUnchanged
  BY DEF CheckpointAnswers
<1>3. known \in References \union {None}
  BY <1>1 DEF Transition
<1> HIDE DEF r, known
<1>4. q \in Transition
  BY <1>1, <1>3 DEF Transition, Calls, PlatformCalls
<1>5. LocalInv(q) /\ Frame(r, q) /\ SameTurn(r, q)
  BY <1>1 DEF LocalInv, Frame, SameTurn, Stage, Transition
<1> HIDE DEF q
<1> QED
  BY <1>2, <1>4, <1>5, QuietStep DEF r

(* Lemma: a committed listener answers. *)
LEMMA CommittedInv == ASSUME Inv, NEW i \in Ids, CommittedListenerAnswers(i) PROVE Inv'
<1> DEFINE r == tr[i]
           next == r.listener + 1
           q == [r EXCEPT !.waiting = FALSE, !.listener = next]
<1>1. r \in Transition /\ LocalInv(r) /\ r.pc = "committed"
  BY DEF CommittedListenerAnswers, Answers, Inv, Typed
<1>2. Becomes(i, q) /\ OthersUnchanged
  BY DEF CommittedListenerAnswers
<1>0. next \in Nat \ {0}
  BY <1>1 DEF Transition
<1> HIDE DEF r, next
<1>3. q \in Transition
  BY <1>0, <1>1 DEF Transition
<1>4. LocalInv(q) /\ Frame(r, q) /\ SameTurn(r, q)
  BY <1>1 DEF LocalInv, Frame, SameTurn, Stage, Transition
<1> HIDE DEF q
<1> QED
  BY <1>2, <1>3, <1>4, QuietStep DEF r

(* Lemma: the end of dispatchCommitted. *)
LEMMA CommittedDoneInv == ASSUME Inv, NEW i \in Ids, CommittedListenersDone(i) PROVE Inv'
<1> DEFINE r == tr[i]
           q == IF Status(r) # None THEN FinishTerminal(r) ELSE [r EXCEPT !.pc = "end"]
<1>1. r \in Transition /\ LocalInv(r) /\ r.pc = "committed" /\ ~ r.waiting
  BY DEF CommittedListenersDone, Inv, Typed
<1>2. Becomes(i, q) /\ OthersUnchanged
  BY DEF CommittedListenersDone
<1> HIDE DEF r
<1>3. CASE Status(r) # None
  <2>1. q \in Transition /\ LocalInv(q) /\ Frame(r, q) /\ SameTurn(r, q)
    BY <1>1, <1>3, FinishMove
  <2> HIDE DEF q
  <2> QED
    BY <1>2, <2>1, QuietStep DEF r
<1>4. CASE Status(r) = None
  <2>1. q = [r EXCEPT !.pc = "end"]
    BY <1>4
  <2> HIDE DEF q
  <2>2. q \in Transition
    BY <1>1, <2>1 DEF Transition
  <2>3. LocalInv(q) /\ Frame(r, q) /\ SameTurn(r, q)
    BY <1>1, <2>1 DEF LocalInv, Frame, SameTurn, Stage, Transition
  <2> QED
    BY <1>2, <2>2, <2>3, QuietStep DEF r
<1> QED
  BY <1>3, <1>4

(* Lemma: the host aborts. *)
LEMMA AbortInv == ASSUME Inv, NEW i \in Ids, HostAborts(i) PROVE Inv'
<1> DEFINE r == tr[i]
           m == [r EXCEPT !.aborted = TRUE]
           q == Interrupt(m)
<1>1. r \in Transition /\ LocalInv(r)
  BY DEF Inv, Typed
<1>2. Becomes(i, q) /\ OthersUnchanged
  BY DEF HostAborts
<1> HIDE DEF r
<1>3. m \in Transition /\ LocalInv(m) /\ Frame(r, m) /\ SameTurn(r, m) /\ m.aborted
  <2>1. m \in Transition /\ m.aborted
    BY <1>1, ZenonT(60) DEF Transition
  <2> QED
    BY <1>1, <2>1 DEF LocalInv, Frame, SameTurn, Stage, Transition
<1> HIDE DEF m
<1>4. q \in Transition /\ LocalInv(q) /\ Frame(m, q) /\ SameTurn(m, q)
  BY <1>3, InterruptMove
<1> HIDE DEF q
<1>5. Frame(r, q) /\ SameTurn(r, q)
  BY <1>3, <1>4 DEF Frame, SameTurn
<1> QED
  BY <1>2, <1>4, <1>5, QuietStep DEF r

(* Lemma: the deadline's timer fires. *)
LEMMA TimerInv == ASSUME Inv, NEW i \in Ids, TimerFires(i) PROVE Inv'
<1> DEFINE r == tr[i]
           m == [r EXCEPT !.timedOut = TRUE]
           q == Interrupt(m)
<1>1. r \in Transition /\ LocalInv(r)
  BY DEF Inv, Typed
<1>2. Becomes(i, q) /\ OthersUnchanged
  BY DEF TimerFires
<1> HIDE DEF r
<1>3. m \in Transition /\ LocalInv(m) /\ Frame(r, m) /\ SameTurn(r, m) /\ m.timedOut
  <2>1. m \in Transition /\ m.timedOut
    BY <1>1, ZenonT(60) DEF Transition
  <2> QED
    BY <1>1, <2>1 DEF LocalInv, Frame, SameTurn, Stage, Transition
<1> HIDE DEF m
<1>4. q \in Transition /\ LocalInv(q) /\ Frame(m, q) /\ SameTurn(m, q)
  BY <1>3, InterruptMove
<1> HIDE DEF q
<1>5. Frame(r, q) /\ SameTurn(r, q)
  BY <1>3, <1>4 DEF Frame, SameTurn
<1> QED
  BY <1>2, <1>4, <1>5, QuietStep DEF r

(* Lemma: a call fails. *)
LEMMA FailsInv == ASSUME Inv, NEW i \in Ids, CallFails(i) PROVE Inv'
<1> DEFINE r == tr[i]
           m == [r EXCEPT !.failures = @ + 1]
           next == r.listener + 1
           l == [m EXCEPT !.listener = next, !.unanimous = FALSE]
<1>1. r \in Transition /\ LocalInv(r) /\ r.pc \in PlatformCalls \union ListenerCalls
  BY DEF CallFails, Inv, Typed
<1>2. Becomes(i, IF m.pc \in PlatformCalls THEN FailPlatform(m) ELSE Reporting(l, m.pc))
      /\ OthersUnchanged
  <2>1. l = [m EXCEPT !.listener = @ + 1, !.unanimous = FALSE]
    BY <1>1 DEF Transition
  <2> QED
    BY <2>1 DEF CallFails
<1>3. next \in Nat \ {0} /\ r.failures + 1 \in Nat
  BY <1>1 DEF Transition
<1> HIDE DEF r, next
<1>4. m \in Transition
  BY <1>1, <1>3 DEF Transition
<1>5. /\ m.pc = r.pc /\ m.status = r.status /\ m.late = r.late /\ (m.persisted <=> r.persisted)
      /\ m.scope = r.scope /\ m.epoch = r.epoch /\ m.kind = r.kind
      /\ m.previous = r.previous /\ m.reference = r.reference
  BY <1>1 DEF Transition
<1> HIDE DEF m
<1>6. r.pc \notin {"none", "queued", "report", "end", "done"}
  BY <1>1 DEF PlatformCalls, ListenerCalls
<1>7. r.status = "completed" /\ r.late = None /\ (r.persisted <=> r.pc = "committed")
  BY <1>1, <1>6 DEF LocalInv, Stage
<1>8. CASE r.pc \in PlatformCalls
  <2> DEFINE f == [m EXCEPT !.status = "failed"]
             q == Reporting(f, "end")
  <2>1. Becomes(i, q)
    BY <1>2, <1>5, <1>8 DEF FailPlatform
  <2>2. f \in Transition
    BY <1>4 DEF Transition
  <2>3. /\ f.status = "failed" /\ f.late = m.late /\ (f.persisted <=> m.persisted)
        /\ f.scope = m.scope /\ f.epoch = m.epoch /\ f.kind = m.kind
        /\ f.previous = m.previous /\ f.reference = m.reference
    BY <1>4 DEF Transition
  <2>4. r.pc # "committed"
    BY <1>8 DEF PlatformCalls
  <2> HIDE DEF f
  <2>5. /\ q \in Transition
        /\ Stage(q) = "end" /\ q.pc \in {"end", "report"} /\ ~ q.waiting
        /\ q.status = f.status /\ q.late = f.late /\ (q.persisted <=> f.persisted)
        /\ q.scope = f.scope /\ q.epoch = f.epoch /\ q.kind = f.kind
        /\ q.previous = f.previous /\ q.reference = f.reference
    BY <2>2, ReportingMove
  <2> HIDE DEF q
  <2>6. LocalInv(q) /\ Frame(r, q) /\ SameTurn(r, q)
    BY <1>5, <1>6, <1>7, <2>3, <2>4, <2>5 DEF LocalInv, Frame, SameTurn, Lost
  <2> QED
    BY <1>2, <2>1, <2>5, <2>6, QuietStep DEF r
<1>9. CASE r.pc \notin PlatformCalls
  <2> DEFINE q == Reporting(l, m.pc)
  <2>1. Becomes(i, q)
    BY <1>2, <1>5, <1>9
  <2>2. l \in Transition
    BY <1>3, <1>4 DEF Transition
  <2>3. /\ l.status = m.status /\ l.late = m.late /\ (l.persisted <=> m.persisted)
        /\ l.scope = m.scope /\ l.epoch = m.epoch /\ l.kind = m.kind
        /\ l.previous = m.previous /\ l.reference = m.reference
    BY <1>4 DEF Transition
  <2>4. m.pc \in ListenerCalls \union {"end"}
    BY <1>1, <1>5, <1>9
  <2> HIDE DEF l
  <2>5. /\ q \in Transition
        /\ Stage(q) = m.pc /\ q.pc \in {m.pc, "report"} /\ ~ q.waiting
        /\ q.status = l.status /\ q.late = l.late /\ (q.persisted <=> l.persisted)
        /\ q.scope = l.scope /\ q.epoch = l.epoch /\ q.kind = l.kind
        /\ q.previous = l.previous /\ q.reference = l.reference
    BY <2>2, <2>4, ReportingMove
  <2> HIDE DEF q
  <2>6. LocalInv(q) /\ Frame(r, q) /\ SameTurn(r, q)
    BY <1>5, <1>6, <1>7, <2>3, <2>5 DEF LocalInv, Frame, SameTurn, Lost
  <2> QED
    BY <1>2, <2>1, <2>5, <2>6, QuietStep DEF r
<1> QED
  BY <1>8, <1>9

(* Lemma: an error listener is called. *)
LEMMA NotifyInv == ASSUME Inv, NEW i \in Ids, NotifyErrorListener(i) PROVE Inv'
<1> DEFINE r == tr[i]
           m == [r EXCEPT !.reports = @ + 1]
           w == [m EXCEPT !.waiting = TRUE]
<1>1. r \in Transition /\ LocalInv(r) /\ r.pc = "report"
  BY DEF NotifyErrorListener, Inv, Typed
<1>2. Becomes(i, IF Status(m) # None THEN Advance(m) ELSE w) /\ OthersUnchanged
  BY DEF NotifyErrorListener
<1>3. r.reports + 1 \in Nat
  BY <1>1 DEF Transition
<1> HIDE DEF r
<1>4. m \in Transition /\ m.pc = "report"
  BY <1>1, <1>3 DEF Transition
<1>5. LocalInv(m) /\ Frame(r, m) /\ SameTurn(r, m)
  BY <1>1 DEF LocalInv, Frame, SameTurn, Stage, Transition
<1> HIDE DEF m
<1>6. CASE Status(m) # None
  <2> DEFINE q == Advance(m)
  <2>1. q \in Transition /\ LocalInv(q) /\ Frame(m, q) /\ SameTurn(m, q)
    BY <1>4, <1>5, AdvanceMove
  <2>2. Becomes(i, q)
    BY <1>2, <1>6
  <2> HIDE DEF q
  <2>3. Frame(r, q) /\ SameTurn(r, q)
    BY <1>5, <2>1 DEF Frame, SameTurn
  <2> QED
    BY <1>2, <2>1, <2>2, <2>3, QuietStep DEF r
<1>7. CASE Status(m) = None
  <2>1. Becomes(i, w)
    BY <1>2, <1>7
  <2>2. w \in Transition
    BY <1>4 DEF Transition
  <2>3. LocalInv(w) /\ Frame(m, w) /\ SameTurn(m, w)
    BY <1>4, <1>5, <2>2 DEF LocalInv, Frame, SameTurn, Stage, Transition
  <2> HIDE DEF w
  <2>4. Frame(r, w) /\ SameTurn(r, w)
    BY <1>5, <2>3 DEF Frame, SameTurn
  <2> QED
    BY <1>2, <2>1, <2>2, <2>3, <2>4, QuietStep DEF r
<1> QED
  BY <1>6, <1>7

(* Lemma: an error listener answers. *)
LEMMA ErrorListenerInv == ASSUME Inv, NEW i \in Ids, ErrorListenerAnswers(i) PROVE Inv'
<1> DEFINE r == tr[i]
           q == Advance(r)
<1>1. r \in Transition /\ LocalInv(r) /\ r.pc = "report"
  BY DEF ErrorListenerAnswers, Answers, Inv, Typed
<1>2. Becomes(i, q) /\ OthersUnchanged
  BY DEF ErrorListenerAnswers
<1> HIDE DEF r
<1>3. q \in Transition /\ LocalInv(q) /\ Frame(r, q) /\ SameTurn(r, q)
  BY <1>1, AdvanceMove
<1> HIDE DEF q
<1> QED
  BY <1>2, <1>3, QuietStep DEF r

-----------------------------------------------------------------------------
(* Lemma: who is at the front of the queue has only finished ones before it. *)
LEMMA BeginInv == ASSUME Inv, NEW i \in Ids, Begin(i) PROVE Inv'
<1> DEFINE r == tr[i]
           q == [r EXCEPT !.pc = "authorize"]
<1>1. r \in Transition /\ LocalInv(r) /\ r.pc = "queued"
  BY DEF Begin, Inv, Typed
<1>2. Becomes(i, q) /\ OthersUnchanged /\ UNCHANGED <<count, epochs, tail>>
  BY DEF Begin, OthersUnchanged
<1>3. q \in Transition /\ q.pc = "authorize"
  BY <1>1 DEF Transition, Calls, PlatformCalls
<1>4. LocalInv(q) /\ Frame(r, q)
  <2> HIDE DEF r
  <2> QED
    BY <1>1, <1>3 DEF LocalInv, Frame, Stage, Transition
<1>5. tail' \in [Scopes -> 0 .. count]
  BY <1>2 DEF Inv, Typed
<1>6. Typed' /\ (\A j \in Ids : LocalInv(tr[j])') /\ WrittenInv' /\ ReferenceOfLastPause'
  BY <1>2, <1>3, <1>4, <1>5, FramedStep DEF OthersUnchanged
<1>7. \A j \in Ids : /\ tr'[j].scope = tr[j].scope /\ tr'[j].epoch = tr[j].epoch
                     /\ tr'[j].previous = tr[j].previous
                     /\ Requested(j)' = Requested(j) /\ Done(j)' = Done(j)
                     /\ j # i => Begun(j)' = Begun(j)
  BY <1>1, <1>2, <1>3, <1>4 DEF Inv, Typed, Becomes, Frame, Requested, Begun, Done
<1>8. \A s, j : InScope(j, s)' <=> InScope(j, s)
  BY <1>7 DEF InScope
<1>9. \A j \in Ids : InScope(j, r.scope) /\ j < i => Done(j)
  <2> TAKE j \in Ids
  <2> HAVE InScope(j, r.scope) /\ j < i
  <2> DEFINE p == r.previous
  <2>1. Requested(i)
    BY <1>1 DEF Requested
  <2>2. CASE p = 0
    BY <2>1, <2>2 DEF Inv, QueueInv
  <2>3. CASE p # 0
    <3>1. Done(p) /\ InScope(p, r.scope) /\ j <= p
      BY <2>1, <2>3 DEF Begin, Done, Inv, QueueInv
    <3>2. Begun(p) /\ p \in Ids /\ tr[p].scope = r.scope
      BY <3>1 DEF Done, Begun, InScope
    <3>3. j < p => Done(j)
      BY <3>2 DEF Inv, QueueInv
    <3> QED
      BY <3>1, <3>2, <3>3 DEF Ids
  <2> QED
    BY <2>2, <2>3
<1>10. QueueInv
  BY DEF Inv
<1>11. \A j, k \in Ids : Begun(j)' /\ InScope(k, tr[j].scope) /\ k < j => Done(k)
  BY <1>7, <1>9, <1>10 DEF QueueInv
<1>12. QueueInv'
  BY <1>2, <1>7, <1>8, <1>10, <1>11 DEF QueueInv
<1> QED
  BY <1>6, <1>12 DEF Inv

(* Lemma: the queue is forgotten only when everyone in it is done. *)
LEMMA ResolveInv == ASSUME Inv, NEW i \in Ids, Resolve(i) PROVE Inv'
<1> DEFINE r == tr[i]
           q == [r EXCEPT !.pc = "done"]
<1>1. r \in Transition /\ LocalInv(r) /\ r.pc = "end"
  BY DEF Resolve, Inv, Typed
<1>2. Becomes(i, q) /\ UNCHANGED <<now, count, epochs, references, written>>
      /\ tail' = [tail EXCEPT ![r.scope] = IF @ = i THEN 0 ELSE @]
  BY DEF Resolve
<1>3. q \in Transition /\ q.pc = "done"
  BY <1>1 DEF Transition
<1>4. LocalInv(q) /\ Frame(r, q)
  <2> HIDE DEF r
  <2> QED
    BY <1>1, <1>3 DEF LocalInv, Frame, Stage, Transition, Calls, PlatformCalls, ListenerCalls
<1>5. tail' \in [Scopes -> 0 .. count]
  <2> DEFINE rest == IF tail[r.scope] = i THEN 0 ELSE tail[r.scope]
  <2>1. tail' = [tail EXCEPT ![r.scope] = rest]
    BY <1>2
  <2>2. tail \in [Scopes -> 0 .. count] /\ count \in Nat
    BY TapAssumption DEF Inv, Typed
  <2>3. r.scope \in Scopes => rest \in 0 .. count
    BY <2>2
  <2> HIDE DEF rest
  <2> QED
    BY <2>1, <2>2, <2>3
<1>6. Typed' /\ (\A j \in Ids : LocalInv(tr[j])') /\ WrittenInv' /\ ReferenceOfLastPause'
  BY <1>2, <1>3, <1>4, <1>5, FramedStep
<1>7. \A j \in Ids : /\ tr'[j].scope = tr[j].scope /\ tr'[j].epoch = tr[j].epoch
                     /\ tr'[j].previous = tr[j].previous
                     /\ Requested(j)' = Requested(j) /\ Begun(j)' = Begun(j)
                     /\ Done(j) => Done(j)'
  BY <1>1, <1>2, <1>3, <1>4 DEF Inv, Typed, Becomes, Frame, Requested, Begun, Done
<1>8. \A s, j : InScope(j, s)' <=> InScope(j, s)
  BY <1>7 DEF InScope
<1>9. Done(i)' /\ Begun(i) /\ Requested(i)
  BY <1>1, <1>2, <1>3 DEF Inv, Typed, Becomes, Done, Begun, Requested
<1>10. QueueInv
  BY DEF Inv
<1>11. ASSUME NEW s \in Scopes
       PROVE  /\ tail'[s] = 0 => \A j \in Ids : InScope(j, s) => Done(j)'
              /\ tail'[s] # 0 => InScope(tail'[s], s) /\ \A j \in Ids : InScope(j, s) => j <= tail'[s]
  <2>1. CASE s = r.scope /\ tail[s] = i
    <3>1. tail'[s] = 0
      BY <1>2, <2>1 DEF Inv, Typed
    <3>2. ASSUME NEW j \in Ids, InScope(j, s) PROVE Done(j)'
      <4>1. i # 0
        BY DEF Ids
      <4>2. j <= i
        BY <1>10, <2>1, <3>2, <4>1 DEF QueueInv
      <4>3. j < i => Done(j)
        BY <1>9, <1>10, <2>1, <3>2 DEF QueueInv
      <4> QED
        BY <1>7, <1>9, <4>2, <4>3 DEF Ids
    <3> QED
      BY <3>1, <3>2
  <2>2. CASE ~ (s = r.scope /\ tail[s] = i)
    <3>1. tail'[s] = tail[s]
      BY <1>2, <2>2 DEF Inv, Typed
    <3> QED
      BY <1>7, <1>10, <3>1 DEF QueueInv
  <2> QED
    BY <2>1, <2>2
<1>12. QueueInv'
  BY <1>2, <1>7, <1>8, <1>10, <1>11 DEF QueueInv
<1> QED
  BY <1>6, <1>12 DEF Inv

(* Lemma: a transition nobody requested is typed. *)
LEMMA NobodyType == Nobody \in Transition
BY DEF Nobody, Transition, None

(* The transition of a request that finds before at the end of its queue. *)
Queued(kind, s, force, epoch, deadline, due, before, reference) ==
  [Nobody EXCEPT !.kind = kind, !.scope = s, !.force = force, !.epoch = epoch,
                 !.deadline = deadline, !.due = due,
                 !.previous = before, !.pc = "queued", !.reference = reference]

(* Lemma: a requested transition is typed. *)
LEMMA QueuedType ==
  ASSUME NEW kind \in {"pause", "resume"}, NEW s \in Scopes, NEW force \in BOOLEAN,
         NEW epoch \in Nat, NEW deadline \in Int, NEW due \in Int, NEW before \in Nat,
         NEW reference \in References \union {None}
  PROVE  Queued(kind, s, force, epoch, deadline, due, before, reference) \in Transition
BY NobodyType, ZenonT(60) DEF Transition, Queued

(* Lemma: a request joins the queue behind everyone of its scope. *)
LEMMA RequestInv ==
  ASSUME Inv, NEW kind \in {"pause", "resume"}, NEW s \in Scopes, NEW force \in BOOLEAN,
         NEW deadline \in Int, NEW reference \in References \union {None}, NEW epoch \in Int,
         NEW n, n = count + 1,
         Request(kind, s, force, deadline, reference, epoch)
  PROVE  Inv'
<1> DEFINE due == now + TimerLength(deadline - now)
           q == [Nobody EXCEPT !.kind = kind, !.scope = s, !.force = force, !.epoch = epoch,
                               !.deadline = deadline, !.due = due,
                               !.previous = tail[s], !.pc = "queued", !.reference = reference]
<1>0. Typed /\ QueueInv /\ WrittenInv /\ ReferenceOfLastPause /\ count \in Nat /\ MaxRequests \in Nat
  BY TapAssumption DEF Inv, Typed
<1>1. n \in Ids /\ n \in Nat /\ n > count /\ \A j \in Ids : j # n /\ j <= n => j <= count
  BY <1>0 DEF Request, Ids
<1>2. /\ tr' = [tr EXCEPT ![n] = q] /\ count' = n /\ epoch > epochs[s]
      /\ tail' = [tail EXCEPT ![s] = n] /\ epochs' = [epochs EXCEPT ![s] = epoch]
      /\ UNCHANGED <<now, references, written>>
  BY DEF Request, Becomes
<1>3. due \in Int
  BY <1>0, TapAssumption DEF Typed, TimerLength, Larger
<1>4. tail[s] \in Nat
  BY <1>0 DEF Typed
<1> HIDE DEF due
<1>E. \A j \in Ids : tr[j].epoch \in Int
  <2> TAKE j \in Ids
  <2>1. tr[j] \in Transition
    BY <1>0 DEF Typed
  <2> QED
    BY <2>1 DEF Transition
<1>5. /\ q.kind = kind /\ q.scope = s /\ q.epoch = epoch /\ q.previous = tail[s]
      /\ q.pc = "queued" /\ ~ q.waiting /\ q.status = "completed" /\ q.late = None
      /\ ~ q.persisted
  BY DEF Nobody
<1>6. q \in Transition
  <2>1. epoch \in Nat
    <3>1. epochs[s] \in Int /\ epochs[s] >= -1
      BY <1>0 DEF Typed
    <3> QED
      BY <1>2, <3>1
  <2>2. Queued(kind, s, force, epoch, deadline, due, tail[s], reference) \in Transition
    BY <1>3, <1>4, <2>1, QueuedType
  <2> QED
    BY <2>2 DEF Queued
<1> HIDE DEF q
<1>7. tr' \in [Ids -> Transition] /\ tr'[n] = q /\ \A j \in Ids : j # n => tr'[j] = tr[j]
  BY <1>0, <1>1, <1>2, <1>6 DEF Typed
<1>8. ~ Requested(n) /\ Requested(n)' /\ ~ Begun(n)' /\ ~ Done(n)'
  BY <1>0, <1>1, <1>5, <1>7 DEF QueueInv, Requested, Begun, Done
<1>9. \A j \in Ids : j # n => /\ Requested(j)' = Requested(j) /\ Begun(j)' = Begun(j)
                              /\ Done(j)' = Done(j)
  BY <1>7 DEF Requested, Begun, Done
<1>10. Typed'
  <2>1. tail' \in [Scopes -> 0 .. n]
    BY <1>0, <1>2 DEF Typed
  <2>2. epochs' \in [Scopes -> Int] /\ \A t \in Scopes : epochs'[t] >= -1
    <3>1. epoch >= -1
      BY <1>0, <1>2 DEF Typed
    <3> QED
      BY <1>0, <1>2, <3>1 DEF Typed
  <2>3. count' \in 0 .. MaxRequests
    BY <1>0, <1>1, <1>2 DEF Ids
  <2> QED
    BY <1>0, <1>2, <1>7, <2>1, <2>2, <2>3 DEF Typed
<1>11. \A j \in Ids : LocalInv(tr[j])'
  <2>1. LocalInv(q)
    BY <1>5 DEF LocalInv, Stage
  <2>2. \A j \in Ids : LocalInv(tr'[j])
    BY <1>7, <2>1 DEF Inv
  <2> QED
    BY <2>2 DEF LocalInv, Stage
<1>12. ~ tr[n].persisted
  BY <1>1, <1>8 DEF Inv, LocalInv, Stage, Requested
<1>13. WrittenInv'
  <2>1. \A t, j : WrittenBy(t, j)' <=> WrittenBy(t, j)
    BY <1>2 DEF WrittenBy
  <2>2. ~ WrittenBy(s, n) /\ \A t \in Scopes : ~ WrittenBy(t, n)
    BY <1>0, <1>1, <1>8 DEF WrittenInv
  <2> QED
    BY <1>0, <1>5, <1>7, <1>9, <2>1, <2>2 DEF WrittenInv
<1>14. ReferenceOfLastPause'
  <2>1. \A t : n \notin Pauses(t) /\ Pauses(t)' = Pauses(t)
    BY <1>5, <1>7, <1>12 DEF Pauses
  <2>2. \A t : \A j \in Pauses(t) : tr'[j] = tr[j]
    BY <1>7, <2>1 DEF Pauses
  <2> QED
    BY <1>0, <1>2, <2>1, <2>2 DEF ReferenceOfLastPause
<1>15. QueueInv'
  <2>1. \A t : \A j \in Ids : InScope(j, t)' <=> (IF j = n THEN t = s ELSE InScope(j, t))
    BY <1>1, <1>5, <1>7, <1>8, <1>9 DEF InScope
  <2>2. \A j \in Ids : Requested(j)' <=> j <= count'
    BY <1>0, <1>1, <1>2, <1>8, <1>9 DEF QueueInv, Ids
  <2>3. \A j \in Ids : InScope(j, s) => j < n /\ tr[j].epoch <= epochs[s]
    BY <1>0, <1>1 DEF QueueInv, InScope, Ids
  <2>4. \A j \in Ids : Requested(j)' =>
          tr'[j].scope \in Scopes /\ tr'[j].epoch <= epochs'[tr'[j].scope]
    <3> TAKE j \in Ids
    <3> HAVE Requested(j)'
    <3>1. CASE j = n
      BY <1>0, <1>2, <1>5, <1>7, <3>1 DEF Typed
    <3>2. CASE j # n
      <4>1. tr[j].scope \in Scopes /\ tr[j].epoch <= epochs[tr[j].scope] /\ tr'[j] = tr[j]
        BY <1>0, <1>7, <1>9, <3>2 DEF QueueInv
      <4>2. epochs'[tr[j].scope] >= epochs[tr[j].scope]
        BY <1>0, <1>2, <4>1 DEF Typed
      <4>3. tr[j].epoch \in Int /\ epochs[tr[j].scope] \in Int /\ epochs'[tr[j].scope] \in Int
        BY <1>0, <1>10, <1>E, <4>1 DEF Typed
      <4> QED
        BY <4>1, <4>2, <4>3
    <3> QED
      BY <3>1, <3>2
  <2>5. \A i, j \in Ids : Requested(j)' /\ InScope(i, tr[j].scope)' /\ i < j =>
          tr'[i].epoch < tr'[j].epoch
    <3> TAKE i, j \in Ids
    <3> HAVE Requested(j)' /\ InScope(i, tr[j].scope)' /\ i < j
    <3>1. CASE j = n
      <4>1. InScope(i, s) /\ i # n
        BY <1>5, <1>7, <2>1, <3>1 DEF InScope, Ids
      <4>2. tr'[i].epoch = tr[i].epoch /\ tr[i].epoch \in Int /\ epochs[s] \in Int
        BY <1>0, <1>7, <1>E, <4>1 DEF Typed
      <4> QED
        BY <1>2, <1>5, <1>7, <2>3, <3>1, <4>1, <4>2
    <3>2. CASE j # n
      <4>1. Requested(j) /\ j <= count /\ tr'[j] = tr[j]
        BY <1>0, <1>7, <1>9, <3>2 DEF QueueInv
      <4>2. i # n /\ tr'[i] = tr[i]
        BY <1>0, <1>1, <1>7, <4>1 DEF Ids
      <4>3. InScope(i, tr[j].scope)
        BY <1>9, <4>1, <4>2 DEF InScope
      <4> QED
        BY <1>0, <4>1, <4>2, <4>3 DEF QueueInv
    <3> QED
      BY <3>1, <3>2
  <2>6. \A t \in Scopes :
          /\ tail'[t] = 0 => \A j \in Ids : InScope(j, t)' => Done(j)'
          /\ tail'[t] # 0 => /\ InScope(tail[t], t)'
                            /\ \A j \in Ids : InScope(j, t)' => j <= tail'[t]
    <3> TAKE t \in Scopes
    <3>1. CASE t = s
      <4>1. tail'[t] = n /\ n # 0
        BY <1>0, <1>1, <1>2, <3>1 DEF Typed
      <4>2. InScope(n, t)'
        BY <1>1, <2>1, <3>1
      <4>3. \A j \in Ids : InScope(j, t)' => j <= n
        BY <1>1, <2>1, <2>3, <3>1 DEF Ids
      <4> QED
        BY <4>1, <4>2, <4>3 DEF InScope, Requested
    <3>2. CASE t # s
      <4>1. tail'[t] = tail[t]
        BY <1>0, <1>2, <3>2 DEF Typed
      <4>2. \A j \in Ids : InScope(j, t)' => InScope(j, t) /\ j # n /\ Done(j)' = Done(j)
        BY <1>9, <2>1, <3>2
      <4>3. InScope(tail[t], t) => InScope(tail[t], t)'
        BY <1>7, <1>8, <4>1 DEF InScope, Requested
      <4>4. /\ tail[t] = 0 => \A j \in Ids : InScope(j, t) => Done(j)
            /\ tail[t] # 0 => InScope(tail[t], t) /\ \A j \in Ids : InScope(j, t) => j <= tail[t]
        BY <1>0 DEF QueueInv
      <4> QED
        BY <4>1, <4>2, <4>3, <4>4
    <3> QED
      BY <3>1, <3>2
  <2>7. \A i \in Ids : Requested(i)' =>
          /\ tr'[i].previous = 0 =>
               \A j \in Ids : InScope(j, tr[i].scope)' /\ j < i => Done(j)'
          /\ tr'[i].previous # 0 =>
               /\ InScope(tr[i].previous, tr[i].scope)' /\ tr'[i].previous < i
               /\ \A j \in Ids : InScope(j, tr[i].scope)' /\ j < i => j <= tr'[i].previous
    <3> TAKE i \in Ids
    <3> HAVE Requested(i)'
    <3>1. CASE i = n
      <4>1. tr'[i].previous = tail[s] /\ tr'[i].scope = s
        BY <1>5, <1>7, <3>1
      <4>2. \A j \in Ids : InScope(j, s)' /\ j < n => InScope(j, s) /\ Done(j)' = Done(j)
        BY <1>9, <2>1 DEF Ids
      <4>3. InScope(tail[s], s) => InScope(tr[i].previous, tr[i].scope)' /\ tail[s] < n
        BY <1>7, <1>8, <2>3, <4>1 DEF InScope, Requested
      <4>4. /\ tail[s] = 0 => \A j \in Ids : InScope(j, s) => Done(j)
            /\ tail[s] # 0 => InScope(tail[s], s) /\ \A j \in Ids : InScope(j, s) => j <= tail[s]
        BY <1>0 DEF QueueInv
      <4>5. \A j \in Ids : InScope(j, tr[i].scope)' <=> InScope(j, s)'
        BY <4>1 DEF InScope
      <4> QED
        BY <3>1, <4>1, <4>2, <4>3, <4>4, <4>5
    <3>2. CASE i # n
      <4>1. Requested(i) /\ i <= count /\ tr'[i] = tr[i] /\ i < n
        BY <1>0, <1>1, <1>7, <1>9, <3>2 DEF QueueInv, Ids
      <4>2. \A j \in Ids : j < n /\ InScope(j, tr[i].scope)' =>
              InScope(j, tr[i].scope) /\ Done(j)' = Done(j)
        BY <1>1, <1>7, <1>9, <4>1 DEF InScope, Requested, Ids
      <4>3. InScope(tr[i].previous, tr[i].scope) => InScope(tr[i].previous, tr[i].scope)'
        BY <1>7, <1>8, <4>1 DEF InScope, Requested
      <4>4. \A j \in Ids : j < i => j < n
        BY <1>1, <4>1 DEF Ids
      <4> QED
        BY <1>0, <4>1, <4>2, <4>3, <4>4 DEF QueueInv
    <3> QED
      BY <3>1, <3>2
  <2>8. \A i, j \in Ids : Begun(i)' /\ InScope(j, tr[i].scope)' /\ j < i => Done(j)'
    <3> TAKE i, j \in Ids
    <3> HAVE Begun(i)' /\ InScope(j, tr[i].scope)' /\ j < i
    <3>1. i # n /\ Begun(i) /\ tr'[i] = tr[i]
      BY <1>7, <1>8, <1>9
    <3>2. i <= count /\ j # n
      BY <1>0, <1>1, <3>1 DEF QueueInv, Begun, Requested, Ids
    <3>3. InScope(j, tr[i].scope) /\ Done(j)' = Done(j)
      BY <1>7, <1>9, <3>1, <3>2 DEF InScope
    <3> QED
      BY <1>0, <3>1, <3>3 DEF QueueInv
  <2> QED
    BY <2>2, <2>4, <2>5, <2>6, <2>7, <2>8 DEF QueueInv
<1> QED
  BY <1>10, <1>11, <1>13, <1>14, <1>15 DEF Inv

-----------------------------------------------------------------------------
(* Lemma: a number is in a sequence after Append if it was, or was added. *)
LEMMA AppendedNumbers ==
  ASSUME NEW w \in Seq(Ids), NEW i \in Ids, NEW v, v = Append(w, i)
  PROVE  /\ v \in Seq(Ids)
         /\ \A j \in Ids : (\E k \in DOMAIN v : v[k] = j) <=> (\E k \in DOMAIN w : w[k] = j) \/ j = i
<1>1. v \in Seq(Ids) /\ Len(v) = Len(w) + 1 /\ Len(w) \in Nat /\ v[Len(w) + 1] = i
      /\ \A k \in 1 .. Len(w) : v[k] = w[k]
  OBVIOUS
<1>2. DOMAIN w = 1 .. Len(w) /\ DOMAIN v = 1 .. (Len(w) + 1)
  BY <1>1
<1>3. \A k : k \in DOMAIN v <=> k \in DOMAIN w \/ k = Len(w) + 1
  BY <1>1, <1>2
<1> QED
  BY <1>1, <1>2, <1>3

(* Lemma: a write of the platform adds a transition to those of its scope. *)
LEMMA PersistWrites ==
  ASSUME Typed, NEW i \in Ids, tr[i].scope \in Scopes, Persist(i)
  PROVE  /\ written' \in [Scopes -> Seq(Ids)]
         /\ \A s \in Scopes, j \in Ids :
              WrittenBy(s, j)' <=> WrittenBy(s, j) \/ (s = tr[i].scope /\ j = i)
<1> DEFINE t == tr[i].scope
           w == written[t]
           v == written'[t]
<1>1. w \in Seq(Ids) /\ v = Append(w, i) /\ written' = [written EXCEPT ![t] = v]
  BY DEF Typed, Persist
<1>2. \A s \in Scopes : s # t => written'[s] = written[s]
  BY DEF Typed, Persist
<1>3. \A s, j : s = t => (WrittenBy(s, j)' <=> \E k \in DOMAIN v : v[k] = j)
  BY DEF WrittenBy
<1>4. \A s, j : s = t => (WrittenBy(s, j) <=> \E k \in DOMAIN w : w[k] = j)
  BY DEF WrittenBy
<1> HIDE DEF w, v
<1>5. /\ v \in Seq(Ids)
      /\ \A j \in Ids : (\E k \in DOMAIN v : v[k] = j) <=> (\E k \in DOMAIN w : w[k] = j) \/ j = i
  BY <1>1, AppendedNumbers, SMTT(30)
<1>6. written' \in [Scopes -> Seq(Ids)]
  BY <1>1, <1>5 DEF Typed
<1>7. ASSUME NEW s \in Scopes, NEW j \in Ids
      PROVE  WrittenBy(s, j)' <=> WrittenBy(s, j) \/ (s = t /\ j = i)
  <2>1. CASE s = t
    BY <1>3, <1>4, <1>5, <2>1
  <2>2. CASE s # t
    BY <1>2, <2>2 DEF WrittenBy
  <2> QED
    BY <2>1, <2>2
<1> QED
  BY <1>6, <1>7

(* Lemma: the platform's answer to persisting is remembered. *)
LEMMA PersistInv == ASSUME Inv, NEW i \in Ids, PersistAnswers(i) PROVE Inv'
<1> DEFINE r == tr[i]
           q == [r EXCEPT !.waiting = FALSE, !.pc = "committed", !.persisted = TRUE]
<1>0. Typed /\ QueueInv /\ WrittenInv /\ ReferenceOfLastPause
  BY DEF Inv
<1>1. r \in Transition /\ LocalInv(r) /\ r.pc = "persist"
  BY DEF PersistAnswers, Answers, Inv, Typed
<1>2. r.scope \in Scopes /\ Requested(i) /\ Begun(i)
  BY <1>0, <1>1 DEF QueueInv, Requested, Begun
<1>3. /\ tr' = [tr EXCEPT ![i] = q]
      /\ written' = [written EXCEPT ![r.scope] = Append(@, i)]
      /\ references' = IF r.kind = "pause"
                       THEN [references EXCEPT ![r.scope] = r.reference] ELSE references
      /\ UNCHANGED <<now, count, tail, epochs>>
  BY DEF PersistAnswers, Persist, Becomes
<1>4. /\ q.scope = r.scope /\ q.epoch = r.epoch /\ q.kind = r.kind /\ q.previous = r.previous
      /\ q.reference = r.reference /\ q.status = r.status /\ q.late = r.late
      /\ q.pc = "committed" /\ ~ q.waiting /\ q.persisted
  BY <1>1 DEF Transition
<1>5. q \in Transition
  BY <1>1 DEF Transition, Calls, ListenerCalls
<1> HIDE DEF q
<1>6. r.status = "completed" /\ r.late = None /\ ~ r.persisted
  BY <1>1 DEF LocalInv, Stage
<1>7. LocalInv(q)
  BY <1>4, <1>6 DEF LocalInv, Stage
<1>8. tr' \in [Ids -> Transition] /\ tr'[i] = q /\ \A j \in Ids : j # i => tr'[j] = tr[j]
  BY <1>0, <1>3, <1>5 DEF Typed
<1>9. /\ written' \in [Scopes -> Seq(Ids)]
      /\ \A s \in Scopes, j \in Ids :
           WrittenBy(s, j)' <=> WrittenBy(s, j) \/ (s = r.scope /\ j = i)
  <2>1. Persist(i)
    BY DEF PersistAnswers
  <2> QED
    BY <1>0, <1>2, <2>1, PersistWrites
<1>10. references' \in [Scopes -> References \union {None}]
  <2>1. r.reference \in References \union {None}
    BY <1>1 DEF Transition
  <2> QED
    BY <1>0, <1>3, <2>1 DEF Typed
<1>11. Typed'
  BY <1>0, <1>3, <1>8, <1>9, <1>10 DEF Typed
<1>12. \A j \in Ids : LocalInv(tr[j])'
  <2>1. \A j \in Ids : LocalInv(tr'[j])
    BY <1>7, <1>8 DEF Inv
  <2> QED
    BY <2>1 DEF LocalInv, Stage
<1>13. \A j \in Ids : /\ tr'[j].scope = tr[j].scope /\ tr'[j].epoch = tr[j].epoch
                      /\ tr'[j].kind = tr[j].kind /\ tr'[j].previous = tr[j].previous
                      /\ tr'[j].reference = tr[j].reference /\ tr'[j].status = tr[j].status
                      /\ (tr'[j].persisted <=> tr[j].persisted \/ j = i)
                      /\ (Requested(j)' <=> Requested(j)) /\ (Begun(j)' <=> Begun(j))
                      /\ (Done(j)' <=> Done(j))
  BY <1>1, <1>4, <1>8 DEF Requested, Begun, Done
<1>14. WrittenInv'
  <2>1. \A j \in Ids : Requested(j) => tr[j].scope \in Scopes
    BY <1>0 DEF QueueInv
  <2>2. ASSUME NEW j \in Ids, Requested(j)'
        PROVE  /\ tr'[j].persisted => WrittenBy(tr[j].scope, j)'
               /\ WrittenBy(tr[j].scope, j)' => tr'[j].persisted \/ tr'[j].status \in Lost
    <3>1. Requested(j) /\ tr[j].scope \in Scopes /\ tr'[j].scope = tr[j].scope
      <4>1. Requested(j) /\ tr'[j].scope = tr[j].scope
        BY <1>13, <2>2
      <4> QED
        BY <2>1, <4>1
    <3>2. WrittenBy(tr[j].scope, j)' <=> WrittenBy(tr[j].scope, j) \/ j = i
      BY <1>9, <3>1 DEF WrittenBy
    <3> QED
      BY <1>0, <1>13, <3>1, <3>2 DEF WrittenInv
  <2>3. \A j \in Ids, s \in Scopes : WrittenBy(s, j)' => Requested(j)' /\ tr'[j].scope = s
    BY <1>0, <1>2, <1>9, <1>13 DEF WrittenInv
  <2> QED
    BY <2>2, <2>3 DEF WrittenInv
<1>15. QueueInv'
  <2>1. \A s, j : InScope(j, s)' <=> InScope(j, s)
    BY <1>13 DEF InScope
  <2> QED
    BY <1>0, <1>3, <1>13, <2>1 DEF QueueInv
<1>16. ReferenceOfLastPause'
  <2> SUFFICES ASSUME NEW s \in Scopes
               PROVE  \/ Pauses(s)' = {} /\ references'[s] = None
                      \/ \E k \in Pauses(s)' : /\ references'[s] = tr'[k].reference
                                               /\ \A j \in Pauses(s)' : tr'[j].epoch <= tr'[k].epoch
    BY DEF ReferenceOfLastPause
  <2>1. CASE s = r.scope /\ r.kind = "pause"
    <3>1. i \in Pauses(s)' /\ references'[s] = tr'[i].reference
      BY <1>0, <1>2, <1>3, <1>13, <2>1 DEF Pauses, Typed
    <3>2. ASSUME NEW j \in Pauses(s)' PROVE tr'[j].epoch <= tr'[i].epoch
      <4>1. j \in Ids /\ tr[j].scope = s /\ (tr[j].persisted \/ j = i)
        BY <1>13 DEF Pauses
      <4>2. tr[j].epoch \in Int /\ tr[i].epoch \in Int
        <5>1. tr[j] \in Transition /\ tr[i] \in Transition
          BY <1>0, <4>1 DEF Typed
        <5> QED
          BY <5>1 DEF Transition
      <4>3. CASE j = i
        BY <1>13, <4>2, <4>3
      <4>4. Requested(j) /\ Begun(j)
        BY <1>2, <4>1 DEF Inv, LocalInv, Stage, Requested, Begun
      <4>5. CASE j < i
        BY <1>0, <1>2, <1>13, <2>1, <4>1, <4>2, <4>4, <4>5 DEF QueueInv, InScope
      <4>6. CASE i < j
        <5>1. Done(i)
          BY <1>0, <1>2, <2>1, <4>1, <4>4, <4>6 DEF QueueInv, InScope
        <5> QED
          BY <1>1, <5>1 DEF Done
      <4> QED
        BY <4>1, <4>3, <4>5, <4>6 DEF Ids
    <3> QED
      BY <3>1, <3>2
  <2>2. CASE ~ (s = r.scope /\ r.kind = "pause")
    <3>1. references'[s] = references[s]
      BY <1>0, <1>3, <2>2 DEF Typed
    <3>2. Pauses(s)' = Pauses(s)
      BY <1>13, <2>2 DEF Pauses
    <3>3. \A j \in Pauses(s) : tr'[j].reference = tr[j].reference /\ tr'[j].epoch = tr[j].epoch
      BY <1>13 DEF Pauses
    <3> QED
      BY <1>0, <3>1, <3>2, <3>3 DEF ReferenceOfLastPause
  <2> QED
    BY <2>1, <2>2
<1> QED
  BY <1>11, <1>12, <1>14, <1>15, <1>16 DEF Inv

(* Lemma: a call that settles too late writes only for a lost transition. *)
LEMMA LateInv == ASSUME Inv, NEW i \in Ids, LateCallSettles(i) PROVE Inv'
<1> DEFINE r == tr[i]
           m == [r EXCEPT !.late = None]
           f == [r EXCEPT !.late = None, !.failures = @ + 1, !.reports = @ + ErrorListeners]
<1>0. Typed /\ QueueInv /\ WrittenInv /\ ReferenceOfLastPause
  BY DEF Inv
<1>1. r \in Transition /\ LocalInv(r) /\ r.late # None
  BY DEF LateCallSettles, Inv, Typed
<1>2. UNCHANGED <<now, count, tail, epochs, references>>
  BY DEF LateCallSettles
<1>3. \/ Becomes(i, m) /\ ((r.late = "persist" /\ Persist(i)) \/ UNCHANGED written)
      \/ Becomes(i, f) /\ UNCHANGED written
  BY DEF LateCallSettles
<1>4. r.status \in Lost /\ r.pc # "none"
  BY <1>1 DEF LocalInv, Stage
<1>5. r.failures + 1 \in Nat /\ r.reports + ErrorListeners \in Nat
  BY <1>1, TapAssumption DEF Transition
<1>6. r.scope \in Scopes
  BY <1>0, <1>4 DEF QueueInv, Requested
<1> HIDE DEF r
<1>7. m \in Transition /\ LocalInv(m) /\ Frame(r, m) /\ SameTurn(r, m)
  BY <1>1 DEF Transition, LocalInv, Stage, Frame, SameTurn
<1>8. f \in Transition /\ LocalInv(f) /\ Frame(r, f) /\ SameTurn(r, f)
  <2> DEFINE failures == r.failures + 1
             reports == r.reports + ErrorListeners
  <2>1. failures \in Nat /\ reports \in Nat
    BY <1>5
  <2> HIDE DEF failures, reports
  <2>2. f = [r EXCEPT !.late = None, !.failures = failures, !.reports = reports]
    BY DEF failures, reports
  <2>3. f \in Transition
    BY <1>1, <2>1, <2>2, ZenonT(60) DEF Transition
  <2>4. /\ f.pc = r.pc /\ f.then = r.then /\ f.waiting = r.waiting /\ f.status = r.status
        /\ f.late = None /\ (f.persisted <=> r.persisted) /\ f.scope = r.scope
        /\ f.epoch = r.epoch /\ f.kind = r.kind /\ f.previous = r.previous
        /\ f.reference = r.reference
    BY <1>1, <2>2 DEF Transition
  <2> HIDE DEF f
  <2> QED
    BY <1>1, <2>3, <2>4 DEF LocalInv, Stage, Frame, SameTurn
<1> HIDE DEF f
<1>9. CASE Becomes(i, f) /\ UNCHANGED written
  BY <1>2, <1>8, <1>9, QuietStep DEF r, OthersUnchanged
<1> HIDE DEF m
<1>10. CASE Becomes(i, m) /\ UNCHANGED written
  BY <1>2, <1>7, <1>10, QuietStep DEF r, OthersUnchanged
<1>11. CASE Becomes(i, m) /\ Persist(i)
  <2>1. tr' \in [Ids -> Transition] /\ tr'[i] = m /\ \A j \in Ids : j # i => tr'[j] = tr[j]
    BY <1>0, <1>7, <1>11 DEF Typed, Becomes
  <2>2. /\ written' \in [Scopes -> Seq(Ids)]
        /\ \A s \in Scopes, j \in Ids :
             WrittenBy(s, j)' <=> WrittenBy(s, j) \/ (s = r.scope /\ j = i)
    BY <1>0, <1>6, <1>11, PersistWrites DEF r
  <2>3. Typed'
    BY <1>0, <1>2, <2>1, <2>2 DEF Typed
  <2>4. \A j \in Ids : LocalInv(tr[j])'
    <3>1. \A j \in Ids : LocalInv(tr'[j])
      BY <1>7, <2>1 DEF Inv
    <3> QED
      BY <3>1 DEF LocalInv, Stage
  <2>5. \A j \in Ids : /\ tr'[j].scope = tr[j].scope /\ tr'[j].epoch = tr[j].epoch
                       /\ tr'[j].kind = tr[j].kind /\ (tr'[j].persisted <=> tr[j].persisted)
                       /\ tr[j].persisted => tr'[j].reference = tr[j].reference
                       /\ tr[j].status \in Lost => tr'[j].status \in Lost
                       /\ Requested(j)' <=> Requested(j)
    BY <1>7, <2>1 DEF Frame, Requested, r
  <2>6. WrittenInv'
    <3>1. tr[i].status \in Lost /\ Requested(i) /\ tr[i].scope = r.scope
      BY <1>4 DEF r, Requested
    <3>2. ASSUME NEW j \in Ids, Requested(j)'
          PROVE  /\ tr'[j].persisted => WrittenBy(tr[j].scope, j)'
                 /\ WrittenBy(tr[j].scope, j)' => tr'[j].persisted \/ tr'[j].status \in Lost
      <4>1. Requested(j) /\ tr[j].scope \in Scopes /\ tr'[j].scope = tr[j].scope
        <5>1. Requested(j) /\ tr'[j].scope = tr[j].scope
          BY <2>5, <3>2
        <5> QED
          BY <1>0, <5>1 DEF QueueInv
      <4>2. WrittenBy(tr[j].scope, j)' <=> WrittenBy(tr[j].scope, j) \/ j = i
        BY <2>2, <3>1, <4>1 DEF WrittenBy
      <4> QED
        BY <1>0, <2>5, <3>1, <4>1, <4>2 DEF WrittenInv
    <3>3. \A j \in Ids, s \in Scopes : WrittenBy(s, j)' => Requested(j)' /\ tr'[j].scope = s
      BY <1>0, <2>2, <2>5, <3>1 DEF WrittenInv
    <3> QED
      BY <3>2, <3>3 DEF WrittenInv
  <2>7. QueueInv'
    BY <1>2, <1>7, <1>11, SameQueues DEF r
  <2>8. ReferenceOfLastPause'
    <3>1. \A s : Pauses(s)' = Pauses(s)
      BY <2>5 DEF Pauses
    <3>2. \A s : \A j \in Pauses(s) : tr'[j].reference = tr[j].reference /\ tr'[j].epoch = tr[j].epoch
      BY <2>5 DEF Pauses
    <3> QED
      BY <1>0, <1>2, <3>1, <3>2 DEF ReferenceOfLastPause
  <2> QED
    BY <2>3, <2>4, <2>6, <2>7, <2>8 DEF Inv
<1> QED
  BY <1>3, <1>9, <1>10, <1>11

(* Lemma: the invariants do not look at the clock, but for its type. *)
LEMMA ClockInv == ASSUME Inv, UNCHANGED vars \/ Tick PROVE Inv'
<1>1. UNCHANGED <<count, tr, tail, epochs, references, written>>
  BY DEF Tick, vars
<1>2. now' \in Int
  BY DEF Tick, vars, Inv, Typed
<1>3. Typed'
  BY <1>1, <1>2 DEF Inv, Typed
<1>4. \A i \in Ids : LocalInv(tr[i])'
  BY <1>1 DEF Inv, LocalInv, Stage
<1>5. WrittenInv'
  BY <1>1 DEF Inv, WrittenInv, WrittenBy, Requested
<1>6. \A i : (Requested(i)' <=> Requested(i)) /\ (Begun(i)' <=> Begun(i)) /\ (Done(i)' <=> Done(i))
  BY <1>1 DEF Requested, Begun, Done
<1>7. \A i, s : InScope(i, s)' <=> InScope(i, s)
  BY <1>1, <1>6 DEF InScope
<1>8. QueueInv'
  BY <1>1, <1>6, <1>7 DEF Inv, QueueInv
<1>9. \A s : Pauses(s)' = Pauses(s)
  BY <1>1 DEF Pauses
<1>10. ReferenceOfLastPause'
  BY <1>1, <1>9 DEF Inv, ReferenceOfLastPause
<1> QED
  BY <1>3, <1>4, <1>5, <1>8, <1>10 DEF Inv

(* Lemma: the invariants hold before anything was requested. *)
LEMMA InitInv == Init => Inv
<1> SUFFICES ASSUME Init PROVE Inv
  OBVIOUS
<1>1. Nobody \in Transition /\ LocalInv(Nobody) /\ Nobody.pc = "none" /\ ~ Nobody.persisted
  BY NobodyType DEF Nobody, LocalInv, Stage
<1>2. \A i \in Ids : tr[i] = Nobody
  BY DEF Init
<1>3. Typed
  <2>1. tr \in [Ids -> Transition]
    BY <1>1 DEF Init
  <2>2. count \in 0 .. MaxRequests
    BY TapAssumption DEF Init
  <2> QED
    BY <2>1, <2>2 DEF Init, Typed
<1>4. \A i \in Ids : ~ Requested(i) /\ ~ Begun(i) /\ ~ tr[i].persisted
  BY <1>1, <1>2 DEF Requested, Begun
<1>5. \A i, s : ~ InScope(i, s)
  BY <1>4 DEF InScope
<1>6. WrittenInv
  <2>1. \A s \in Scopes, i \in Ids : ~ WrittenBy(s, i)
    BY DEF Init, WrittenBy
  <2> QED
    BY <1>4, <2>1 DEF WrittenInv
<1>7. QueueInv
  <2>1. \A i \in Ids : ~ (i <= count)
    BY DEF Init, Ids
  <2>2. \A s \in Scopes : tail[s] = 0
    BY DEF Init
  <2> QED
    BY <1>4, <1>5, <2>1, <2>2 DEF QueueInv
<1>8. ReferenceOfLastPause
  <2>1. \A s : Pauses(s) = {}
    BY <1>4 DEF Pauses
  <2> QED
    BY <2>1 DEF Init, ReferenceOfLastPause
<1> QED
  BY <1>1, <1>2, <1>3, <1>6, <1>7, <1>8 DEF Inv

(* Lemma: every step preserves the invariants. *)
LEMMA NextInv == Inv /\ [Next]_vars => Inv'
<1> SUFFICES ASSUME Inv, [Next]_vars PROVE Inv'
  OBVIOUS
<1>1. CASE UNCHANGED vars \/ Tick
  BY <1>1, ClockInv
<1>2. CASE Host
  <2>1. ASSUME NEW kind \in {"pause", "resume"}, NEW s \in Scopes, NEW force \in Forces,
               NEW deadline \in Deadlines, NEW reference \in References \union {None},
               NEW gap \in 1 .. EpochGap,
               Request(kind, s, force, deadline, reference, epochs[s] + gap)
        PROVE  Inv'
    <3>1. PICK epoch : epoch = epochs[s] + gap
      OBVIOUS
    <3>2. PICK n : n = count + 1
      OBVIOUS
    <3>3. epochs[s] \in Int
      BY DEF Inv, Typed
    <3>4. epoch \in Int /\ force \in BOOLEAN /\ deadline \in Int
      BY <3>1, <3>3, TapAssumption
    <3>5. Request(kind, s, force, deadline, reference, epoch)
      BY <2>1, <3>1
    <3> QED
      BY <3>2, <3>4, <3>5, RequestInv
  <2>2. ASSUME NEW i \in Ids, HostAborts(i) PROVE Inv'
    BY <2>2, AbortInv
  <2> QED
    BY <1>2, <2>1, <2>2 DEF Host
<1>3. ASSUME NEW i \in Ids, Step(i) PROVE Inv'
  BY <1>3, BeginInv, CallInv, PreDoneInv, DelayInv, CommittedDoneInv, NotifyInv,
     ResolveInv, TimerInv DEF Step
<1>4. ASSUME NEW i \in Ids, Answer(i) PROVE Inv'
  BY <1>4, AuthorizeInv, PreListenerInv, CheckpointInv, PersistInv, CommittedInv, FailsInv,
     ErrorListenerInv, LateInv DEF Answer
<1> QED
  BY <1>1, <1>2, <1>3, <1>4 DEF Next

-----------------------------------------------------------------------------
(* The invariants hold in every reachable state. *)
THEOREM Invariance == Spec => []Inv
BY InitInv, NextInv, PTL DEF Spec

(* However many transitions a host requests, aborts or lets time out, the  *)
(* queue that enqueue builds lets a transition begin only after every      *)
(* earlier epoch of its scope has returned its result.                     *)
THEOREM EpochOrder == Spec => []InEpochOrder
<1>1. Inv => InEpochOrder
  <2> SUFFICES ASSUME Inv, NEW i \in Ids, NEW j \in Ids, Requested(i), Begun(j), Earlier(i, j)
               PROVE  tr[i].pc = "done"
    BY DEF InEpochOrder
  <2>1. Requested(j) /\ InScope(i, tr[j].scope) /\ InScope(j, tr[i].scope) /\ i # j
    <3>1. tr[i].epoch \in Nat /\ tr[j].epoch \in Nat /\ tr[i].epoch < tr[j].epoch
      <4>1. tr[i] \in Transition /\ tr[j] \in Transition
        BY DEF Inv, Typed
      <4> QED
        BY <4>1 DEF Transition, Earlier
    <3> QED
      BY <3>1 DEF Earlier, InScope, Begun, Requested
  <2>2. tr[i].epoch \in Nat /\ tr[j].epoch \in Nat
    <3>1. tr[i] \in Transition /\ tr[j] \in Transition
      BY DEF Inv, Typed
    <3> QED
      BY <3>1 DEF Transition
  <2>3. ~ (j < i)
    BY <2>1, <2>2 DEF Inv, QueueInv, Earlier
  <2>4. i < j
    BY <2>1, <2>3 DEF Ids
  <2> QED
    BY <2>1, <2>4 DEF Inv, QueueInv, Done
<1> QED
  BY <1>1, Invariance, PTL

(* Whatever late answers arrive, the status a caller of pause or resume    *)
(* gets never contradicts what the platform has stored for the transition. *)
THEOREM HonestAnswer == Spec => []AnswerMatchesPlatform
<1>1. Inv => AnswerMatchesPlatform
  <2> SUFFICES ASSUME Inv, NEW i \in Ids, Requested(i)
               PROVE  /\ tr[i].pc = "done" /\ tr[i].status = "completed" =>
                            WrittenBy(tr[i].scope, i)
                      /\ tr[i].status \in {"denied", "failed"} => ~ WrittenBy(tr[i].scope, i)
    BY DEF AnswerMatchesPlatform
  <2>1. LocalInv(tr[i])
    BY DEF Inv
  <2>2. tr[i].pc = "done" /\ tr[i].status = "completed" => tr[i].persisted
    BY <2>1 DEF LocalInv, Stage
  <2>3. tr[i].status \in {"denied", "failed"} => ~ tr[i].persisted /\ tr[i].status \notin Lost
    BY <2>1 DEF LocalInv, Stage, Lost
  <2> QED
    BY <2>2, <2>3 DEF Inv, WrittenInv
<1> QED
  BY <1>1, Invariance, PTL

(* The reference a resume falls back on is the one persisted by the pause  *)
(* with the highest acknowledged epoch of its scope.                       *)
THEOREM LastPause == Spec => []ReferenceOfLastPause
<1>1. Inv => ReferenceOfLastPause
  BY DEF Inv
<1> QED
  BY <1>1, Invariance, PTL

-----------------------------------------------------------------------------
(* How often the error listeners were told, for ReportedOnce.              *)

(* What they are to be told of r, and how many calls that makes. *)
Owed(r)  == r.failures + (IF r.status = "timed_out" THEN 1 ELSE 0)
Share(n) == ErrorListeners * n

(* They were told all of it, but for the rest of the round r is in. *)
Told(r) ==
  IF r.pc = "report"
  THEN /\ r.observer \in 1 .. ErrorListeners
       /\ r.reports + (ErrorListeners - r.observer) + (IF r.waiting THEN 0 ELSE 1)
            = Share(Owed(r))
  ELSE r.reports = Share(Owed(r))

ToldInv == \A i \in Ids : Told(tr[i])

(* Lemma: one thing more to tell makes a round more of calls. *)
LEMMA ShareNext ==
  ASSUME NEW n \in Nat
  PROVE  Share(n) \in Nat /\ Share(n + 1) = Share(n) + ErrorListeners
BY TapAssumption DEF Share

(* Lemma: what is owed is a number. *)
LEMMA OwedType == ASSUME NEW r \in Transition PROVE Owed(r) \in Nat
BY DEF Owed, Transition

(* Lemma: recordError begins a round. *)
LEMMA ReportingTells ==
  ASSUME NEW r \in Transition, NEW next \in ListenerCalls \union {"end"},
         r.reports + ErrorListeners = Share(Owed(r))
  PROVE  Told(Reporting(r, next))
<1>1. next # "report"
  BY DEF ListenerCalls
<1>2. r.reports \in Nat /\ ErrorListeners \in Nat /\ Share(Owed(r)) \in Nat
  BY OwedType, ShareNext, TapAssumption DEF Transition
<1>3. CASE ErrorListeners = 0
  <2> DEFINE q == [r EXCEPT !.pc = next, !.waiting = FALSE]
  <2>1. Reporting(r, next) = q
    BY <1>3 DEF Reporting
  <2>2. q.pc = next /\ q.reports = r.reports /\ q.failures = r.failures /\ q.status = r.status
    BY DEF Transition
  <2> HIDE DEF q
  <2>3. Owed(q) = Owed(r)
    BY <2>2 DEF Owed
  <2> QED
    BY <1>1, <1>2, <1>3, <2>1, <2>2, <2>3 DEF Told
<1>4. CASE ErrorListeners # 0
  <2> DEFINE q == [r EXCEPT !.pc = "report", !.waiting = FALSE, !.observer = 1, !.then = next]
  <2>1. Reporting(r, next) = q
    BY <1>4 DEF Reporting
  <2>2. /\ q.pc = "report" /\ ~ q.waiting /\ q.observer = 1
        /\ q.reports = r.reports /\ q.failures = r.failures /\ q.status = r.status
    BY DEF Transition
  <2> HIDE DEF q
  <2>3. Owed(q) = Owed(r)
    BY <2>2 DEF Owed
  <2> QED
    BY <1>2, <1>4, <2>1, <2>2, <2>3 DEF Told
<1> QED
  BY <1>3, <1>4

(* Lemma: the next error listener goes on with the round, or ends it. *)
LEMMA AdvanceTells ==
  ASSUME NEW r \in Transition, r.pc = "report", r.observer \in 1 .. ErrorListeners,
         r.reports + (ErrorListeners - r.observer) = Share(Owed(r))
  PROVE  Told(Advance(r))
<1> DEFINE q == Advance(r)
<1>1. /\ ~ q.waiting /\ q.reports = r.reports /\ q.failures = r.failures /\ q.status = r.status
      /\ r.observer = ErrorListeners => q.pc = r.then
      /\ r.observer # ErrorListeners => q.pc = "report" /\ q.observer = r.observer + 1
  BY DEF Advance, Transition
<1>2. r.then # "report" /\ r.reports \in Nat /\ r.observer \in Nat
  BY DEF Transition, ListenerCalls
<1> HIDE DEF q
<1>3. Owed(q) = Owed(r)
  BY <1>1 DEF Owed
<1>4. ErrorListeners \in Nat /\ Share(Owed(r)) \in Nat
  BY OwedType, ShareNext, TapAssumption
<1>5. r.observer = ErrorListeners => Told(q)
  BY <1>1, <1>2, <1>3, <1>4 DEF Told
<1>6. r.observer # ErrorListeners => Told(q)
  BY <1>1, <1>2, <1>3, <1>4 DEF Told
<1> QED
  BY <1>5, <1>6 DEF q

(* Lemma: finishTerminal adds the deadline to what is owed, once. *)
LEMMA FinishTells ==
  ASSUME NEW r \in Transition, Status(r) # None, r.status # "timed_out",
         r.reports = Share(Owed(r))
  PROVE  Told(FinishTerminal(r))
<1> DEFINE m == [r EXCEPT !.status = Status(r)]
           q == [m EXCEPT !.pc = "end", !.waiting = FALSE]
<1>1. /\ m \in Transition /\ m.status = Status(r)
      /\ m.reports = r.reports /\ m.failures = r.failures
  BY StatusType DEF Transition
<1>2. FinishTerminal(r) = IF m.status = "timed_out" THEN Reporting(m, "end") ELSE q
  BY DEF FinishTerminal
<1> HIDE DEF m
<1>3. Owed(r) \in Nat /\ r.failures \in Nat
  BY OwedType DEF Transition
<1>4. CASE m.status = "timed_out"
  <2>1. Owed(m) = Owed(r) + 1
    BY <1>1, <1>3, <1>4 DEF Owed
  <2>2. m.reports + ErrorListeners = Share(Owed(m))
    BY <1>1, <1>3, <2>1, ShareNext
  <2> QED
    BY <1>1, <1>2, <1>4, <2>2, ReportingTells
<1>5. CASE m.status # "timed_out"
  <2>1. q.pc = "end" /\ q.reports = m.reports /\ q.failures = m.failures /\ q.status = m.status
    BY <1>1 DEF Transition
  <2> HIDE DEF q
  <2>2. Owed(q) = Owed(r)
    BY <1>1, <1>5, <2>1 DEF Owed
  <2> QED
    BY <1>1, <1>2, <1>5, <2>1, <2>2 DEF Told
<1> QED
  BY <1>4, <1>5

(* Lemma: an abort or a timer gives a call up, or a listener's answer. *)
LEMMA InterruptTells ==
  ASSUME NEW r \in Transition, LocalInv(r), Told(r), r.aborted \/ r.timedOut
  PROVE  Told(Interrupt(r))
<1>1. CASE ~ r.waiting
  BY <1>1 DEF Interrupt
<1>2. CASE r.waiting /\ r.pc = "report"
  <2>1. r.reports + (ErrorListeners - r.observer) = Share(Owed(r))
    <3>1. r.reports \in Nat /\ r.observer \in Nat /\ ErrorListeners \in Nat
      BY TapAssumption DEF Transition
    <3> QED
      BY <1>2, <3>1 DEF Told
  <2> QED
    BY <1>2, <2>1, AdvanceTells DEF Interrupt, Told
<1>3. CASE r.waiting /\ r.pc # "report"
  <2> DEFINE m == [r EXCEPT !.late = IF r.pc = "defer" THEN None ELSE r.pc]
  <2>1. r.pc \in Calls /\ r.pc \notin {"end", "done"}
    BY <1>3 DEF LocalInv, Calls, PlatformCalls, ListenerCalls
  <2>2. r.status = "completed"
    BY <1>3, <2>1 DEF LocalInv, Stage
  <2>3. /\ m \in Transition /\ m.status = r.status
        /\ m.reports = r.reports /\ m.failures = r.failures
    BY <2>1 DEF Transition, Calls
  <2>4. Status(m) # None
    BY <2>3 DEF Status, None, Transition
  <2>5. Interrupt(r) = FinishTerminal(m)
    BY <1>3 DEF Interrupt
  <2> HIDE DEF m
  <2>6. m.reports = Share(Owed(m))
    BY <1>3, <2>3 DEF Told, Owed
  <2> QED
    BY <2>2, <2>3, <2>4, <2>5, <2>6, FinishTells
<1> QED
  BY <1>1, <1>2, <1>3

(* r becomes q outside of a round, and nothing new is owed. *)
NothingNew(r, q) ==
  /\ r.pc # "report" /\ q.pc # "report"
  /\ q.failures = r.failures /\ q.reports = r.reports
  /\ q.status = "timed_out" <=> r.status = "timed_out"

(* Lemma: then everything owed was told. *)
LEMMA SilentTells ==
  ASSUME NEW r, NEW q, Told(r), NothingNew(r, q) PROVE Told(q)
BY DEF Told, NothingNew, Owed

(* Lemma: a step of one transition concerns no other. *)
LEMMA OneTells ==
  ASSUME Typed, ToldInv, NEW i \in Ids, NEW q, Becomes(i, q), Told(q)
  PROVE  ToldInv'
<1>1. \A j \in Ids : Told(tr'[j])
  BY DEF ToldInv, Typed, Becomes
<1> QED
  BY <1>1 DEF ToldInv, Told, Owed, Share

(* Lemma: a call begins, or finds its transition over. *)
LEMMA CallTells ==
  ASSUME Inv, ToldInv, NEW i \in Ids, Call(i) \/ CommittedListenersDone(i) PROVE ToldInv'
<1> DEFINE r == tr[i]
<1>1. r \in Transition /\ LocalInv(r) /\ Told(r) /\ Typed
  BY DEF Inv, Typed, ToldInv
<1>2. r.pc \in Calls
  BY DEF Call, CommittedListenersDone, Calls, ListenerCalls
<1>3. r.pc \notin {"report", "end", "done"} /\ r.status = "completed"
  BY <1>1, <1>2 DEF Calls, PlatformCalls, ListenerCalls, LocalInv, Stage
<1>4. CASE Status(r) # None
  <2>1. Becomes(i, FinishTerminal(r))
    BY <1>4 DEF Call, CommittedListenersDone
  <2>2. r.reports = Share(Owed(r))
    BY <1>1, <1>3 DEF Told
  <2> HIDE DEF r
  <2>3. Told(FinishTerminal(r))
    BY <1>1, <1>3, <1>4, <2>2, FinishTells
  <2> QED
    BY <1>1, <2>1, <2>3, OneTells
<1>5. CASE Status(r) = None
  <2> DEFINE w == [r EXCEPT !.waiting = TRUE, !.wake = IF r.pc = "defer" THEN now + r.delay ELSE @]
             e == [r EXCEPT !.pc = "end"]
  <2>1. Becomes(i, w) \/ Becomes(i, e)
    BY <1>5 DEF Call, CommittedListenersDone
  <2> HIDE DEF r
  <2>2. NothingNew(r, w) /\ NothingNew(r, e)
    BY <1>1, <1>3 DEF NothingNew, Transition
  <2> HIDE DEF w, e
  <2> QED
    BY <1>1, <2>1, <2>2, SilentTells, OneTells
<1> QED
  BY <1>4, <1>5

(* Lemma: answers that are no failures owe nothing. *)
LEMMA AnswerTells ==
  ASSUME Inv, ToldInv, NEW i \in Ids,
         \/ Begin(i) \/ Resolve(i) \/ PreListenersDone(i) \/ DelayEnds(i)
         \/ \E allowed \in BOOLEAN : AuthorizeAnswers(i, allowed)
         \/ \E d \in Delays \union {0} : PreListenerAnswers(i, d)
         \/ \E reference \in References \union {None} : CheckpointAnswers(i, reference)
         \/ PersistAnswers(i) \/ CommittedListenerAnswers(i)
  PROVE  ToldInv'
<1> DEFINE r == tr[i]
<1>1. r \in Transition /\ LocalInv(r) /\ Told(r) /\ Typed
  BY DEF Inv, Typed, ToldInv
<1>2. r.pc # "report" /\ (r.pc \notin {"end", "done"} => r.status = "completed")
  BY <1>1 DEF Begin, Resolve, PreListenersDone, DelayEnds, AuthorizeAnswers, PreListenerAnswers,
     CheckpointAnswers, PersistAnswers, CommittedListenerAnswers, Answers, LocalInv, Stage
<1>3. \E q : Becomes(i, q) /\ NothingNew(r, q)
  <2>1. CASE Begin(i) \/ Resolve(i)
    <3>1. PICK pc \in {"authorize", "done"} : Becomes(i, [r EXCEPT !.pc = pc])
      BY <2>1 DEF Begin, Resolve
    <3> HIDE DEF r
    <3>2. NothingNew(r, [r EXCEPT !.pc = pc])
      BY <1>1, <1>2 DEF NothingNew, Transition
    <3> QED
      BY <3>1, <3>2
  <2>2. CASE PreListenersDone(i)
    <3>1. CASE Deferral(r) > 0
      <4>1. PICK delay : Becomes(i, [r EXCEPT !.listener = 1, !.delay = delay, !.pc = "defer"])
        BY <2>2, <3>1 DEF PreListenersDone
      <4> HIDE DEF r
      <4>2. NothingNew(r, [r EXCEPT !.listener = 1, !.delay = delay, !.pc = "defer"])
        BY <1>1, <1>2 DEF NothingNew, Transition
      <4> QED
        BY <4>1, <4>2
    <3>2. CASE ~ (Deferral(r) > 0)
      <4>1. PICK delay : Becomes(i, [r EXCEPT !.listener = 1, !.delay = delay, !.pc = "checkpoint"])
        BY <2>2, <3>2 DEF PreListenersDone
      <4> HIDE DEF r
      <4>2. NothingNew(r, [r EXCEPT !.listener = 1, !.delay = delay, !.pc = "checkpoint"])
        BY <1>1, <1>2 DEF NothingNew, Transition
      <4> QED
        BY <4>1, <4>2
    <3> QED
      BY <3>1, <3>2
  <2>3. CASE DelayEnds(i)
    <3>1. Becomes(i, [r EXCEPT !.waiting = FALSE, !.pc = "checkpoint"])
      BY <2>3 DEF DelayEnds
    <3> HIDE DEF r
    <3>2. NothingNew(r, [r EXCEPT !.waiting = FALSE, !.pc = "checkpoint"])
      BY <1>1, <1>2 DEF NothingNew, Transition
    <3> QED
      BY <3>1, <3>2
  <2>4. ASSUME NEW allowed \in BOOLEAN, AuthorizeAnswers(i, allowed)
        PROVE  \E q : Becomes(i, q) /\ NothingNew(r, q)
    <3>1. r.status = "completed"
      BY <1>2, <2>4 DEF AuthorizeAnswers, Answers
    <3>2. CASE allowed
      <4>1. PICK known : Becomes(i, [r EXCEPT !.waiting = FALSE, !.pc = "pre", !.reference = known])
        BY <2>4, <3>2 DEF AuthorizeAnswers
      <4> HIDE DEF r
      <4>2. NothingNew(r, [r EXCEPT !.waiting = FALSE, !.pc = "pre", !.reference = known])
        BY <1>1, <1>2 DEF NothingNew, Transition
      <4> QED
        BY <4>1, <4>2
    <3>3. CASE ~ allowed
      <4>1. Becomes(i, [r EXCEPT !.waiting = FALSE, !.pc = "end", !.status = "denied"])
        BY <2>4, <3>3 DEF AuthorizeAnswers
      <4> HIDE DEF r
      <4>2. NothingNew(r, [r EXCEPT !.waiting = FALSE, !.pc = "end", !.status = "denied"])
        BY <1>1, <1>2, <3>1 DEF NothingNew, Transition
      <4> QED
        BY <4>1, <4>2
    <3> QED
      BY <3>2, <3>3
  <2>5. ASSUME NEW d \in Delays \union {0}, PreListenerAnswers(i, d)
        PROVE  \E q : Becomes(i, q) /\ NothingNew(r, q)
    <3>1. PICK next, longest, unanimous :
            Becomes(i, [r EXCEPT !.waiting = FALSE, !.listener = next,
                                 !.longest = longest, !.unanimous = unanimous])
      BY <2>5 DEF PreListenerAnswers
    <3> HIDE DEF r
    <3>2. NothingNew(r, [r EXCEPT !.waiting = FALSE, !.listener = next,
                                  !.longest = longest, !.unanimous = unanimous])
      BY <1>1, <1>2 DEF NothingNew, Transition
    <3> QED
      BY <3>1, <3>2
  <2>6. ASSUME NEW reference \in References \union {None}, CheckpointAnswers(i, reference)
        PROVE  \E q : Becomes(i, q) /\ NothingNew(r, q)
    <3>1. PICK known : Becomes(i, [r EXCEPT !.waiting = FALSE, !.pc = "persist",
                                            !.reference = known])
      BY <2>6 DEF CheckpointAnswers
    <3> HIDE DEF r
    <3>2. NothingNew(r, [r EXCEPT !.waiting = FALSE, !.pc = "persist", !.reference = known])
      BY <1>1, <1>2 DEF NothingNew, Transition
    <3> QED
      BY <3>1, <3>2
  <2>7. CASE PersistAnswers(i)
    <3>1. Becomes(i, [r EXCEPT !.waiting = FALSE, !.pc = "committed", !.persisted = TRUE])
      BY <2>7 DEF PersistAnswers
    <3> HIDE DEF r
    <3>2. NothingNew(r, [r EXCEPT !.waiting = FALSE, !.pc = "committed", !.persisted = TRUE])
      BY <1>1, <1>2 DEF NothingNew, Transition
    <3> QED
      BY <3>1, <3>2
  <2>8. CASE CommittedListenerAnswers(i)
    <3>1. PICK next : Becomes(i, [r EXCEPT !.waiting = FALSE, !.listener = next])
      BY <2>8 DEF CommittedListenerAnswers
    <3> HIDE DEF r
    <3>2. NothingNew(r, [r EXCEPT !.waiting = FALSE, !.listener = next])
      BY <1>1, <1>2 DEF NothingNew, Transition
    <3> QED
      BY <3>1, <3>2
  <2> QED
    BY <2>1, <2>2, <2>3, <2>4, <2>5, <2>6, <2>7, <2>8
<1> QED
  BY <1>1, <1>3, SilentTells, OneTells

(* Lemma: a failure is owed a round, which begins. *)
LEMMA FailTells == ASSUME Inv, ToldInv, NEW i \in Ids, CallFails(i) PROVE ToldInv'
<1> DEFINE r == tr[i]
           m == [r EXCEPT !.failures = @ + 1]
           f == [m EXCEPT !.status = "failed"]
           next == r.listener + 1
           l == [m EXCEPT !.listener = next, !.unanimous = FALSE]
<1>1. r \in Transition /\ LocalInv(r) /\ Told(r) /\ Typed
      /\ r.pc \in PlatformCalls \union ListenerCalls
  BY DEF Inv, Typed, ToldInv, CallFails
<1>2. Becomes(i, IF m.pc \in PlatformCalls THEN Reporting(f, "end") ELSE Reporting(l, m.pc))
  <2>1. l = [m EXCEPT !.listener = @ + 1, !.unanimous = FALSE]
    BY <1>1 DEF Transition
  <2> QED
    BY <2>1 DEF CallFails, FailPlatform
<1>3. r.failures \in Nat /\ next \in Nat \ {0} /\ r.reports \in Nat
  BY <1>1 DEF Transition
<1>4. r.pc # "report" /\ r.status = "completed"
  BY <1>1 DEF PlatformCalls, ListenerCalls, LocalInv, Stage
<1> HIDE DEF r, next
<1>5. m \in Transition /\ m.pc = r.pc /\ m.status = r.status /\ m.reports = r.reports
      /\ m.failures = r.failures + 1
  BY <1>1, <1>3 DEF Transition
<1> HIDE DEF m
<1>6. /\ f \in Transition /\ f.failures = m.failures /\ f.reports = m.reports
      /\ f.status = "failed"
  BY <1>5 DEF Transition
<1>7. /\ l \in Transition /\ l.failures = m.failures /\ l.reports = m.reports
      /\ l.status = m.status
  <2>1. l \in Transition
    BY <1>3, <1>5 DEF Transition
  <2>2. l.failures = m.failures /\ l.reports = m.reports /\ l.status = m.status
    BY <1>5 DEF Transition
  <2> QED
    BY <2>1, <2>2
<1> HIDE DEF f, l
<1>8. Owed(r) = r.failures /\ Owed(f) = r.failures + 1 /\ Owed(l) = r.failures + 1
  BY <1>3, <1>4, <1>5, <1>6, <1>7 DEF Owed
<1>9. r.reports = Share(r.failures)
  BY <1>1, <1>4, <1>8 DEF Told
<1>10. f.reports + ErrorListeners = Share(Owed(f)) /\ l.reports + ErrorListeners = Share(Owed(l))
  BY <1>3, <1>5, <1>6, <1>7, <1>8, <1>9, ShareNext
<1>11. m.pc \notin PlatformCalls => m.pc \in ListenerCalls
  BY <1>1, <1>5
<1>12. Told(IF m.pc \in PlatformCalls THEN Reporting(f, "end") ELSE Reporting(l, m.pc))
  BY <1>6, <1>7, <1>10, <1>11, ReportingTells
<1> QED
  BY <1>1, <1>2, <1>12, OneTells DEF r

(* Lemma: a call of an error listener, and its answer, go on with the round. *)
LEMMA NotifyTells ==
  ASSUME Inv, ToldInv, NEW i \in Ids, NotifyErrorListener(i) \/ ErrorListenerAnswers(i)
  PROVE  ToldInv'
<1> DEFINE r == tr[i]
           m == [r EXCEPT !.reports = @ + 1]
           w == [m EXCEPT !.waiting = TRUE]
<1>1. r \in Transition /\ Told(r) /\ Typed /\ r.pc = "report" /\ ErrorListeners \in Nat
  BY TapAssumption DEF Inv, Typed, ToldInv, NotifyErrorListener, ErrorListenerAnswers, Answers
<1>2. r.reports \in Nat /\ r.observer \in Nat /\ r.failures \in Nat /\ Owed(r) \in Nat
  BY <1>1, OwedType DEF Transition
<1>3. CASE NotifyErrorListener(i)
  <2>1. ~ r.waiting /\ Becomes(i, IF Status(m) # None THEN Advance(m) ELSE w)
    BY <1>3 DEF NotifyErrorListener
  <2> HIDE DEF r
  <2>2. /\ m \in Transition /\ m.pc = "report" /\ m.observer = r.observer
        /\ m.reports = r.reports + 1 /\ m.failures = r.failures /\ m.status = r.status
    BY <1>1, <1>2 DEF Transition
  <2> HIDE DEF m
  <2>3. Owed(m) = Owed(r)
    BY <2>2 DEF Owed
  <2>4. /\ m.observer \in 1 .. ErrorListeners
        /\ m.reports + (ErrorListeners - m.observer) = Share(Owed(m))
    BY <1>1, <1>2, <2>1, <2>2, <2>3 DEF Told
  <2>5. Told(Advance(m))
    BY <2>2, <2>4, AdvanceTells
  <2>6. /\ w.pc = "report" /\ w.waiting /\ w.observer = m.observer
        /\ w.reports = m.reports /\ w.failures = m.failures /\ w.status = m.status
    BY <2>2 DEF Transition
  <2> HIDE DEF w
  <2>7. Owed(w) = Owed(m)
    BY <2>6 DEF Owed
  <2>8. Told(w)
    BY <1>1, <1>2, <2>2, <2>4, <2>6, <2>7 DEF Told
  <2> QED
    BY <1>1, <2>1, <2>5, <2>8, OneTells DEF r
<1>4. CASE ErrorListenerAnswers(i)
  <2>1. r.waiting /\ Becomes(i, Advance(r))
    BY <1>4 DEF ErrorListenerAnswers, Answers
  <2> HIDE DEF r
  <2>2. /\ r.observer \in 1 .. ErrorListeners
        /\ r.reports + (ErrorListeners - r.observer) = Share(Owed(r))
    BY <1>1, <1>2, <2>1 DEF Told
  <2> QED
    BY <1>1, <2>1, <2>2, AdvanceTells, OneTells DEF r
<1> QED
  BY <1>3, <1>4

(* Lemma: the failure of a call that was given up has a round of its own. *)
LEMMA LateTells == ASSUME Inv, ToldInv, NEW i \in Ids, LateCallSettles(i) PROVE ToldInv'
<1> DEFINE r == tr[i]
           s == [r EXCEPT !.late = None]
           f == [r EXCEPT !.late = None, !.failures = @ + 1, !.reports = @ + ErrorListeners]
<1>1. r \in Transition /\ Told(r) /\ Typed /\ ErrorListeners \in Nat
  BY TapAssumption DEF Inv, Typed, ToldInv
<1>2. /\ r.reports \in Nat /\ r.observer \in Nat /\ r.failures \in Nat
      /\ Owed(r) \in Nat /\ Share(Owed(r)) \in Nat
  BY <1>1, OwedType, ShareNext DEF Transition
<1>3. Becomes(i, s) \/ Becomes(i, f)
  BY DEF LateCallSettles
<1> HIDE DEF r
<1>4. /\ s.pc = r.pc /\ s.waiting = r.waiting /\ s.observer = r.observer
      /\ s.reports = r.reports /\ s.failures = r.failures /\ s.status = r.status
  BY <1>1 DEF Transition
<1>5. /\ f.pc = r.pc /\ f.waiting = r.waiting /\ f.observer = r.observer
      /\ f.reports = r.reports + ErrorListeners
      /\ f.failures = r.failures + 1 /\ f.status = r.status
  BY <1>1 DEF Transition
<1> HIDE DEF s, f
<1>6. Told(s)
  <2>1. Owed(s) = Owed(r)
    BY <1>4 DEF Owed
  <2> QED
    BY <1>1, <1>4, <2>1 DEF Told
<1>7. Told(f)
  <2>1. Owed(f) = Owed(r) + 1
    BY <1>2, <1>5 DEF Owed
  <2>2. Share(Owed(f)) = Share(Owed(r)) + ErrorListeners
    BY <1>2, <2>1, ShareNext
  <2> QED
    BY <1>1, <1>2, <1>5, <2>2 DEF Told
<1> QED
  BY <1>1, <1>3, <1>6, <1>7, OneTells DEF r

(* Lemma: the signal or the timer interrupts. *)
LEMMA SignalTells ==
  ASSUME Inv, ToldInv, NEW i \in Ids, HostAborts(i) \/ TimerFires(i) PROVE ToldInv'
<1> DEFINE r == tr[i]
           a == [r EXCEPT !.aborted = TRUE]
           t == [r EXCEPT !.timedOut = TRUE]
<1>1. r \in Transition /\ LocalInv(r) /\ Told(r) /\ Typed
  BY DEF Inv, Typed, ToldInv
<1>2. Becomes(i, Interrupt(a)) \/ Becomes(i, Interrupt(t))
  BY DEF HostAborts, TimerFires
<1> HIDE DEF r
<1>3. ASSUME NEW q \in {a, t} PROVE q \in Transition /\ LocalInv(q) /\ Told(q) /\ (q.aborted \/ q.timedOut)
  <2>1. q \in Transition /\ (q.aborted \/ q.timedOut)
    <3>1. a \in Transition /\ a.aborted
      BY <1>1, ZenonT(60) DEF Transition
    <3>2. t \in Transition /\ t.timedOut
      BY <1>1, ZenonT(60) DEF Transition
    <3> QED
      BY <1>3, <3>1, <3>2
  <2>2. /\ q.pc = r.pc /\ q.waiting = r.waiting /\ q.observer = r.observer /\ q.then = r.then
        /\ q.reports = r.reports /\ q.failures = r.failures /\ q.status = r.status
        /\ q.late = r.late /\ q.persisted = r.persisted
    BY <1>1, <1>3 DEF Transition
  <2> HIDE DEF a, t
  <2>3. Owed(q) = Owed(r)
    BY <2>2 DEF Owed
  <2> QED
    BY <1>1, <2>1, <2>2, <2>3 DEF LocalInv, Stage, Told
<1>4. Told(Interrupt(a)) /\ Told(Interrupt(t))
  BY <1>3, InterruptTells
<1> QED
  BY <1>1, <1>2, <1>4, OneTells DEF r

(* Lemma: every step tells what it owes. *)
LEMMA NextTells == Inv /\ ToldInv /\ [Next]_vars => ToldInv'
<1> SUFFICES ASSUME Inv, ToldInv, [Next]_vars PROVE ToldInv'
  OBVIOUS
<1>1. CASE UNCHANGED vars \/ Tick
  BY <1>1 DEF vars, Tick, ToldInv, Told, Owed, Share
<1>2. ASSUME NEW kind \in {"pause", "resume"}, NEW s \in Scopes, NEW force \in Forces,
             NEW deadline \in Deadlines, NEW reference \in References \union {None},
             NEW epoch, Request(kind, s, force, deadline, reference, epoch)
      PROVE  ToldInv'
  <2> DEFINE q == [Nobody EXCEPT !.kind = kind, !.scope = s, !.force = force, !.epoch = epoch,
                      !.deadline = deadline, !.due = now + TimerLength(deadline - now),
                      !.previous = tail[s], !.pc = "queued", !.reference = reference]
  <2>1. Becomes(count + 1, q) /\ count < MaxRequests /\ Typed
    BY <1>2 DEF Request, Inv
  <2>4. count + 1 \in Ids
    BY <2>1, TapAssumption DEF Typed, Ids
  <2>2. q.pc = "queued" /\ q.reports = 0 /\ q.failures = 0 /\ q.status = "completed"
    BY DEF Nobody
  <2> HIDE DEF q
  <2>3. Told(q)
    BY <2>2, TapAssumption DEF Told, Owed, Share
  <2> QED
    BY <2>1, <2>3, <2>4, OneTells
<1>3. CASE Host
  BY <1>2, <1>3, SignalTells DEF Host
<1>4. ASSUME NEW i \in Ids, Step(i) \/ Answer(i) PROVE ToldInv'
  BY <1>4, CallTells, AnswerTells, FailTells, NotifyTells, LateTells, SignalTells DEF Step, Answer
<1> QED
  BY <1>1, <1>3, <1>4 DEF Next

(* However many calls and error listeners there are, and whenever a call   *)
(* that was given up fails, a transition that has ended has told each      *)
(* error listener of each failure, and of its deadline, exactly once.      *)
THEOREM ErrorsReportedOnce == Spec => []ReportedOnce
<1>1. Init => ToldInv
  BY TapAssumption DEF Init, Nobody, ToldInv, Told, Owed, Share
<1>2. ToldInv => ReportedOnce
  BY DEF ToldInv, Told, Owed, Share, ReportedOnce
<1> QED
  BY <1>1, <1>2, Invariance, NextTells, PTL DEF Spec
-----------------------------------------------------------------------------
(* What EveryTransitionEnds rests on: once its signal has aborted, by the  *)
(* host or by the deadline, a transition waits neither for the platform    *)
(* nor for a listener, of whatever kind.                                   *)
SignalEndsWaiting ==
  \A i \in Ids : tr[i].aborted \/ tr[i].timedOut => ~ tr[i].waiting

(* The error listener whose turn it is, or whose turn will come first. *)
Observers == 1 .. Larger(1, ErrorListeners)

Settled(r) == r.observer \in Observers /\ (r.aborted \/ r.timedOut => ~ r.waiting)

SettledInv == \A i \in Ids : Settled(tr[i])

(* r becomes q without a new wait, a signal, or a turn of a listener. *)
Calm(r, q) ==
  /\ q.observer = r.observer /\ q.aborted = r.aborted /\ q.timedOut = r.timedOut
  /\ q.waiting => r.waiting

(* Lemma: then it stays settled. *)
LEMMA CalmSettles == ASSUME NEW r, NEW q, Settled(r), Calm(r, q) PROVE Settled(q)
BY DEF Settled, Calm

(* Lemma: recordError waits for nobody yet. *)
LEMMA ReportingSettles ==
  ASSUME NEW r \in Transition, r.observer \in Observers,
         NEW next \in ListenerCalls \union {"end"}
  PROVE  Settled(Reporting(r, next))
<1> DEFINE e == [r EXCEPT !.pc = next, !.waiting = FALSE]
           q == [r EXCEPT !.pc = "report", !.waiting = FALSE, !.observer = 1, !.then = next]
<1>1. ~ e.waiting /\ e.observer = r.observer /\ ~ q.waiting /\ q.observer = 1
  BY DEF Transition
<1>2. Reporting(r, next) = e \/ Reporting(r, next) = q
  BY DEF Reporting
<1>3. 1 \in Observers
  BY TapAssumption DEF Observers, Larger
<1> HIDE DEF e, q
<1> QED
  BY <1>1, <1>2, <1>3 DEF Settled

(* Lemma: nor does the step to the next error listener. *)
LEMMA AdvanceSettles ==
  ASSUME NEW r \in Transition, r.observer \in 1 .. ErrorListeners
  PROVE  Settled(Advance(r))
<1> DEFINE q == Advance(r)
<1>1. ~ q.waiting /\ q.observer = IF r.observer = ErrorListeners THEN 1 ELSE r.observer + 1
  BY DEF Advance, Transition
<1> HIDE DEF q
<1>2. q.observer \in Observers
  BY <1>1, TapAssumption DEF Observers, Larger
<1> QED
  BY <1>1, <1>2 DEF Settled, q

(* Lemma: nor does finishTerminal. *)
LEMMA FinishSettles ==
  ASSUME NEW r \in Transition, r.observer \in Observers, Status(r) # None
  PROVE  Settled(FinishTerminal(r))
<1> DEFINE m == [r EXCEPT !.status = Status(r)]
           q == [m EXCEPT !.pc = "end", !.waiting = FALSE]
<1>1. m \in Transition /\ m.observer = r.observer
  BY StatusType DEF Transition
<1>2. FinishTerminal(r) = IF m.status = "timed_out" THEN Reporting(m, "end") ELSE q
  BY DEF FinishTerminal
<1> HIDE DEF m
<1>3. ~ q.waiting /\ q.observer = m.observer
  BY <1>1 DEF Transition
<1> HIDE DEF q
<1>4. Settled(Reporting(m, "end")) /\ Settled(q)
  BY <1>1, <1>3, ReportingSettles DEF Settled
<1> QED
  BY <1>2, <1>4

(* Lemma: a signal gives up whatever its transition waits for. *)
LEMMA InterruptSettles ==
  ASSUME NEW r \in Transition, LocalInv(r), Told(r), r.observer \in Observers,
         r.aborted \/ r.timedOut
  PROVE  Settled(Interrupt(r))
<1>1. CASE ~ r.waiting
  BY <1>1 DEF Interrupt, Settled
<1>2. CASE r.waiting /\ r.pc = "report"
  BY <1>2, AdvanceSettles DEF Interrupt, Told
<1>3. CASE r.waiting /\ r.pc # "report"
  <2> DEFINE m == [r EXCEPT !.late = IF r.pc = "defer" THEN None ELSE r.pc]
  <2>1. r.pc \in Calls
    BY <1>3 DEF LocalInv
  <2>2. m \in Transition /\ m.observer = r.observer
        /\ m.aborted = r.aborted /\ m.timedOut = r.timedOut
    BY <2>1 DEF Transition, Calls
  <2>3. Interrupt(r) = FinishTerminal(m)
    BY <1>3 DEF Interrupt
  <2> HIDE DEF m
  <2>4. Status(m) # None
    BY <2>2 DEF Status, None, Transition
  <2> QED
    BY <2>2, <2>3, <2>4, FinishSettles
<1> QED
  BY <1>1, <1>2, <1>3

(* Lemma: a step of one transition concerns no other. *)
LEMMA OneSettles ==
  ASSUME Typed, SettledInv, NEW i \in Ids, NEW q, Becomes(i, q), Settled(q)
  PROVE  SettledInv'
<1>1. \A j \in Ids : Settled(tr'[j])
  BY DEF SettledInv, Typed, Becomes
<1> QED
  BY <1>1 DEF SettledInv, Settled, Observers, Larger

(* Lemma: a call is begun only while no signal has come. *)
LEMMA CallSettles ==
  ASSUME Inv, SettledInv, NEW i \in Ids, Call(i) \/ CommittedListenersDone(i)
  PROVE  SettledInv'
<1> DEFINE r == tr[i]
           w == [r EXCEPT !.waiting = TRUE, !.wake = IF r.pc = "defer" THEN now + r.delay ELSE @]
           e == [r EXCEPT !.pc = "end"]
<1>1. r \in Transition /\ Settled(r) /\ Typed /\ r.observer \in Observers
  BY DEF Inv, Typed, SettledInv, Settled
<1>2. \/ Status(r) # None /\ Becomes(i, FinishTerminal(r))
      \/ Status(r) = None /\ (Becomes(i, w) \/ Becomes(i, e))
  BY DEF Call, CommittedListenersDone
<1> HIDE DEF r
<1>3. CASE Status(r) # None /\ Becomes(i, FinishTerminal(r))
  BY <1>1, <1>3, FinishSettles, OneSettles
<1>4. CASE Status(r) = None /\ (Becomes(i, w) \/ Becomes(i, e))
  <2>1. ~ r.aborted /\ ~ r.timedOut
    BY <1>4 DEF Status, None
  <2>2. /\ w.observer = r.observer /\ w.aborted = r.aborted /\ w.timedOut = r.timedOut
        /\ Calm(r, e)
    BY <1>1 DEF Transition, Calm
  <2> HIDE DEF w, e
  <2>3. Settled(w) /\ Settled(e)
    BY <1>1, <2>1, <2>2, CalmSettles DEF Settled
  <2> QED
    BY <1>1, <1>4, <2>3, OneSettles
<1> QED
  BY <1>2, <1>3, <1>4

(* Lemma: an answer, a turn in the queue and its end add no wait. *)
LEMMA AnswerSettles ==
  ASSUME Inv, SettledInv, NEW i \in Ids,
         \/ \E allowed \in BOOLEAN : AuthorizeAnswers(i, allowed)
         \/ \E d \in Delays \union {0} : PreListenerAnswers(i, d)
         \/ PreListenersDone(i) \/ DelayEnds(i)
         \/ \E reference \in References \union {None} : CheckpointAnswers(i, reference)
         \/ PersistAnswers(i) \/ CommittedListenerAnswers(i) \/ LateCallSettles(i)
         \/ Begin(i) \/ Resolve(i)
  PROVE  SettledInv'
<1> DEFINE r == tr[i]
<1>1. r \in Transition /\ Settled(r) /\ Typed
  BY DEF Inv, Typed, SettledInv
<1>2. ASSUME NEW q, Becomes(i, q), Calm(r, q) PROVE SettledInv'
  BY <1>1, <1>2, CalmSettles, OneSettles
<1>3. ASSUME NEW allowed \in BOOLEAN, AuthorizeAnswers(i, allowed) PROVE SettledInv'
  <2> DEFINE known == IF r.kind = "resume" /\ r.reference = None
                      THEN references[r.scope] ELSE r.reference
             a == [r EXCEPT !.waiting = FALSE, !.pc = "pre", !.reference = known]
             d == [r EXCEPT !.waiting = FALSE, !.pc = "end", !.status = "denied"]
  <2>1. Becomes(i, a) \/ Becomes(i, d)
    BY <1>3 DEF AuthorizeAnswers
  <2> HIDE DEF r, known
  <2>2. Calm(r, a) /\ Calm(r, d)
    BY <1>1 DEF Calm, Transition
  <2> HIDE DEF a, d
  <2> QED
    BY <1>2, <2>1, <2>2
<1>4. ASSUME NEW d \in Delays \union {0}, PreListenerAnswers(i, d) PROVE SettledInv'
  <2> DEFINE q == [r EXCEPT !.waiting = FALSE, !.listener = @ + 1,
                            !.longest = Larger(@, d), !.unanimous = @ /\ d > 0]
  <2>1. Becomes(i, q)
    BY <1>4 DEF PreListenerAnswers
  <2> HIDE DEF r
  <2>2. Calm(r, q)
    BY <1>1 DEF Calm, Transition
  <2> HIDE DEF q
  <2> QED
    BY <1>2, <2>1, <2>2
<1>5. CASE PreListenersDone(i)
  <2> DEFINE q == [r EXCEPT !.listener = 1, !.delay = Deferral(r),
                            !.pc = IF Deferral(r) > 0 THEN "defer" ELSE "checkpoint"]
  <2>1. Becomes(i, q)
    BY <1>5 DEF PreListenersDone
  <2> HIDE DEF r
  <2>2. Calm(r, q)
    BY <1>1 DEF Calm, Transition
  <2> HIDE DEF q
  <2> QED
    BY <1>2, <2>1, <2>2
<1>6. ASSUME NEW reference \in References \union {None}, CheckpointAnswers(i, reference)
      PROVE  SettledInv'
  <2> DEFINE q == [r EXCEPT !.waiting = FALSE, !.pc = "persist",
                            !.reference = IF reference = None THEN @ ELSE reference]
  <2>1. Becomes(i, q)
    BY <1>6 DEF CheckpointAnswers
  <2> HIDE DEF r
  <2>2. Calm(r, q)
    BY <1>1 DEF Calm, Transition
  <2> HIDE DEF q
  <2> QED
    BY <1>2, <2>1, <2>2
<1>7. CASE LateCallSettles(i)
  <2> DEFINE s == [r EXCEPT !.late = None]
             f == [r EXCEPT !.late = None, !.failures = @ + 1, !.reports = @ + ErrorListeners]
  <2>1. Becomes(i, s) \/ Becomes(i, f)
    BY <1>7 DEF LateCallSettles
  <2> HIDE DEF r
  <2>2. Calm(r, s) /\ Calm(r, f)
    BY <1>1 DEF Calm, Transition
  <2> HIDE DEF s, f
  <2> QED
    BY <1>2, <2>1, <2>2
<1>8. CASE DelayEnds(i) \/ PersistAnswers(i) \/ CommittedListenerAnswers(i)
           \/ Begin(i) \/ Resolve(i)
  <2> DEFINE d == [r EXCEPT !.waiting = FALSE, !.pc = "checkpoint"]
             p == [r EXCEPT !.waiting = FALSE, !.pc = "committed", !.persisted = TRUE]
             c == [r EXCEPT !.waiting = FALSE, !.listener = @ + 1]
             b == [r EXCEPT !.pc = "authorize"]
             e == [r EXCEPT !.pc = "done"]
  <2>1. Becomes(i, d) \/ Becomes(i, p) \/ Becomes(i, c) \/ Becomes(i, b) \/ Becomes(i, e)
    BY <1>8 DEF DelayEnds, PersistAnswers, CommittedListenerAnswers, Begin, Resolve
  <2> HIDE DEF r
  <2>2. Calm(r, d) /\ Calm(r, p) /\ Calm(r, c) /\ Calm(r, b) /\ Calm(r, e)
    BY <1>1 DEF Calm, Transition
  <2> HIDE DEF d, p, c, b, e
  <2> QED
    BY <1>2, <2>1, <2>2
<1> QED
  BY <1>3, <1>4, <1>5, <1>6, <1>7, <1>8

(* Lemma: a failure waits for nobody until an error listener is called. *)
LEMMA FailSettles ==
  ASSUME Inv, SettledInv, NEW i \in Ids, CallFails(i) PROVE SettledInv'
<1> DEFINE r == tr[i]
           m == [r EXCEPT !.failures = @ + 1]
           f == [m EXCEPT !.status = "failed"]
           next == m.listener + 1
           l == [m EXCEPT !.listener = next, !.unanimous = FALSE]
<1>1. r \in Transition /\ r.observer \in Observers /\ Typed
  BY DEF Inv, Typed, SettledInv, Settled
<1>2. m \in Transition /\ m.observer = r.observer
  BY <1>1 DEF Transition
<1>3. \/ Becomes(i, Reporting(f, "end"))
      \/ m.pc \in ListenerCalls /\ Becomes(i, Reporting(l, m.pc))
  <2>1. l = [m EXCEPT !.listener = @ + 1, !.unanimous = FALSE]
    BY <1>2 DEF Transition
  <2> QED
    BY <2>1 DEF CallFails, FailPlatform
<1> HIDE DEF r, m
<1>4. next \in Nat \ {0}
  BY <1>2 DEF Transition
<1> HIDE DEF next
<1>5. f \in Transition /\ f.observer = m.observer
  BY <1>2 DEF Transition
<1>6. l \in Transition
  BY <1>2, <1>4, ZenonT(60) DEF Transition
<1>7. l.observer = m.observer
  BY <1>2 DEF Transition
<1> HIDE DEF f, l
<1>8. Settled(Reporting(f, "end")) /\ (m.pc \in ListenerCalls => Settled(Reporting(l, m.pc)))
  BY <1>1, <1>2, <1>5, <1>6, <1>7, ReportingSettles
<1> QED
  BY <1>1, <1>3, <1>8, OneSettles

(* Lemma: an error listener is waited for only while no signal has come. *)
LEMMA NotifySettles ==
  ASSUME Inv, ToldInv, SettledInv, NEW i \in Ids,
         NotifyErrorListener(i) \/ ErrorListenerAnswers(i)
  PROVE  SettledInv'
<1> DEFINE r == tr[i]
           m == [r EXCEPT !.reports = @ + 1]
           w == [m EXCEPT !.waiting = TRUE]
<1>1. /\ r \in Transition /\ Settled(r) /\ Told(r) /\ Typed /\ r.pc = "report"
      /\ r.observer \in 1 .. ErrorListeners
  BY DEF Inv, Typed, ToldInv, Told, SettledInv, NotifyErrorListener, ErrorListenerAnswers, Answers
<1>2. \/ Becomes(i, Advance(r)) \/ Becomes(i, Advance(m))
      \/ Status(m) = None /\ Becomes(i, w)
  BY DEF NotifyErrorListener, ErrorListenerAnswers
<1> HIDE DEF r
<1>3. /\ m \in Transition /\ m.observer = r.observer
      /\ m.aborted = r.aborted /\ m.timedOut = r.timedOut
  BY <1>1 DEF Transition
<1> HIDE DEF m
<1>4. w.observer = m.observer /\ w.aborted = m.aborted /\ w.timedOut = m.timedOut
  BY <1>3 DEF Transition
<1> HIDE DEF w
<1>5. Settled(Advance(r)) /\ Settled(Advance(m))
  BY <1>1, <1>3, AdvanceSettles
<1>6. Status(m) = None => Settled(w)
  BY <1>1, <1>3, <1>4 DEF Settled, Status, None
<1> QED
  BY <1>1, <1>2, <1>5, <1>6, OneSettles

(* Lemma: the signal and the timer end all waiting of their transition. *)
LEMMA SignalSettles ==
  ASSUME Inv, ToldInv, SettledInv, NEW i \in Ids, HostAborts(i) \/ TimerFires(i)
  PROVE  SettledInv'
<1> DEFINE r == tr[i]
           a == [r EXCEPT !.aborted = TRUE]
           t == [r EXCEPT !.timedOut = TRUE]
<1>1. r \in Transition /\ LocalInv(r) /\ Told(r) /\ r.observer \in Observers /\ Typed
  BY DEF Inv, Typed, ToldInv, SettledInv, Settled
<1>2. Becomes(i, Interrupt(a)) \/ Becomes(i, Interrupt(t))
  BY DEF HostAborts, TimerFires
<1> HIDE DEF r
<1>3. a \in Transition /\ a.aborted
  BY <1>1, ZenonT(60) DEF Transition
<1>4. t \in Transition /\ t.timedOut
  BY <1>1, ZenonT(60) DEF Transition
<1>5. ASSUME NEW q \in {a, t}
      PROVE  LocalInv(q) /\ Told(q) /\ q.observer \in Observers
  <2>1. /\ q.pc = r.pc /\ q.waiting = r.waiting /\ q.observer = r.observer /\ q.then = r.then
        /\ q.reports = r.reports /\ q.failures = r.failures /\ q.status = r.status
        /\ q.late = r.late /\ q.persisted = r.persisted
    BY <1>1, <1>5 DEF Transition
  <2> HIDE DEF a, t
  <2>2. Owed(q) = Owed(r)
    BY <2>1 DEF Owed
  <2> QED
    BY <1>1, <2>1, <2>2 DEF LocalInv, Stage, Told
<1>6. Settled(Interrupt(a)) /\ Settled(Interrupt(t))
  BY <1>3, <1>4, <1>5, InterruptSettles
<1> QED
  BY <1>1, <1>2, <1>6, OneSettles

(* Lemma: every step leaves the transitions settled. *)
LEMMA NextSettles == Inv /\ ToldInv /\ SettledInv /\ [Next]_vars => SettledInv'
<1> SUFFICES ASSUME Inv, ToldInv, SettledInv, [Next]_vars PROVE SettledInv'
  OBVIOUS
<1>1. CASE UNCHANGED vars \/ Tick
  BY <1>1 DEF vars, Tick, SettledInv, Settled, Observers, Larger
<1>2. ASSUME NEW kind \in {"pause", "resume"}, NEW s \in Scopes, NEW force \in Forces,
             NEW deadline \in Deadlines, NEW reference \in References \union {None},
             NEW epoch, Request(kind, s, force, deadline, reference, epoch)
      PROVE  SettledInv'
  <2> DEFINE q == [Nobody EXCEPT !.kind = kind, !.scope = s, !.force = force, !.epoch = epoch,
                      !.deadline = deadline, !.due = now + TimerLength(deadline - now),
                      !.previous = tail[s], !.pc = "queued", !.reference = reference]
  <2>1. Becomes(count + 1, q) /\ count < MaxRequests /\ Typed
    BY <1>2 DEF Request, Inv
  <2>2. count + 1 \in Ids
    BY <2>1, TapAssumption DEF Typed, Ids
  <2>3. ~ q.waiting /\ q.observer = 1
    BY DEF Nobody
  <2> HIDE DEF q
  <2>4. Settled(q)
    BY <2>3, TapAssumption DEF Settled, Observers, Larger
  <2> QED
    BY <2>1, <2>2, <2>4, OneSettles
<1>3. CASE Host
  BY <1>2, <1>3, SignalSettles DEF Host
<1>4. ASSUME NEW i \in Ids, Step(i) \/ Answer(i) PROVE SettledInv'
  BY <1>4, CallSettles, AnswerSettles, FailSettles, NotifySettles, SignalSettles DEF Step, Answer
<1> QED
  BY <1>1, <1>3, <1>4 DEF Next

(* Lemma: whatever happens the transitions stay settled. *)
LEMMA Settling == Spec => []SettledInv
<1>1. Init => SettledInv
  BY TapAssumption DEF Init, Nobody, SettledInv, Settled, Observers, Larger
<1>2. Init => ToldInv
  BY TapAssumption DEF Init, Nobody, ToldInv, Told, Owed, Share
<1> QED
  BY <1>1, <1>2, Invariance, NextTells, NextSettles, PTL DEF Spec

(* Theorem: after an abort or the deadline (tap-lifecycle.ts, invoke and   *)
(* recordError) a transition goes on by itself to its end, also if neither *)
(* the platform nor a listener ever answers.                               *)
THEOREM NobodyHoldsUp == Spec => []SignalEndsWaiting
<1>1. SettledInv => SignalEndsWaiting
  BY DEF SettledInv, Settled, SignalEndsWaiting
<1> QED
  BY <1>1, Settling, PTL

(* Theorem: every variable of the coordinator keeps its type.              *)
THEOREM TypeCorrect == Spec => []TypeOK
<1>1. Init => now \in 0 .. MaxTime
  BY TapAssumption DEF Init
<1>2. now \in 0 .. MaxTime /\ [Next]_vars => (now \in 0 .. MaxTime)'
  <2> SUFFICES ASSUME now \in 0 .. MaxTime, [Next]_vars PROVE now' \in 0 .. MaxTime
    OBVIOUS
  <2>1. now' = now \/ Tick
    BY DEF Next, Host, Step, Answer, vars, OthersUnchanged, Request, HostAborts, TimerFires,
           Begin, Call, PreListenersDone, DelayEnds, CommittedListenersDone,
           NotifyErrorListener, Resolve, AuthorizeAnswers, PreListenerAnswers,
           CheckpointAnswers, PersistAnswers, CommittedListenerAnswers, CallFails,
           ErrorListenerAnswers, LateCallSettles
  <2> QED
    BY <2>1, TapAssumption DEF Tick
<1>3. Inv /\ SettledInv /\ now \in 0 .. MaxTime => TypeOK
  BY DEF Inv, Typed, SettledInv, Settled, Observers, TypeOK
<1> QED
  BY <1>1, <1>2, <1>3, Invariance, Settling, PTL DEF Spec

=============================================================================
