-------------------------- MODULE NativeCacheProofs --------------------------
(***************************************************************************)
(* Theorems about NativeCache, for every set of bundles and hashes, on     *)
(* both platforms and with any number of queued writes.                    *)
(***************************************************************************)
EXTENDS NativeCache, TLAPS

Waits(t) == task[t].pc \in {"saving", "dropping"}

(* A task at work knows its bundle and hash, one that looked up an entry   *)
(* knows its hash, and so does one about to delete a replaced file.        *)
ShapeInv ==
  /\ \A t \in Tasks :
       /\ task[t].pc \notin {"idle", "asking"} =>
            task[t].bundle \in Bundles /\ task[t].hash \in Hashes
       /\ task[t].pc \in {"looking", "gone", "purging"} => task[t].seen \in Hashes
  /\ clear.pc = "forgetting" => clear.bundle \in Bundles

(* Before the cache is up nothing is under way. *)
DownInv ==
  /\ phase # "up" => /\ writes = <<>>
                     /\ clear.pc = "idle"
                     /\ \A t \in Tasks : task[t].pc = "idle"
  /\ snapshot # None => writes # <<>>

(* LastWriteIsCurrent, and the same once a clearing of the cache awaits no *)
(* more writes: while it awaits some, the index may be ahead of the last.  *)
CurrentInv ==
  snapshot # None /\ Len(writes) = 1
    /\ (clear.pc = "idle" \/ (clear.pc = "waiting" /\ clear.behind = 0)) => snapshot = index

Inv == TypeOK /\ ShapeInv /\ DownInv /\ EveryWaiterIsQueued /\ CurrentInv

-----------------------------------------------------------------------------
(* Lemmas: the chain of writes and those who wait in it.                   *)

(* Lemma: nobody joins or leaves the chain. *)
LEMMA ChainKept ==
  ASSUME EveryWaiterIsQueued, writes' = writes, \A t \in Tasks : Waits(t)' <=> Waits(t)
  PROVE  EveryWaiterIsQueued'
BY DEF EveryWaiterIsQueued, Waits

(* Lemma: what Append puts where. *)
LEMMA Appended ==
  ASSUME TypeOK, NEW w \in Tasks \union {Nobody}, writes' = Append(writes, w)
  PROVE  /\ writes' \in Seq(Tasks \union {Nobody})
         /\ Len(writes') = Len(writes) + 1 /\ Len(writes) \in Nat
         /\ \A i \in 1 .. Len(writes) : writes'[i] = writes[i]
         /\ writes'[Len(writes) + 1] = w
BY DEF TypeOK

(* Lemma: a task joins the chain and waits. *)
LEMMA ChainJoined ==
  ASSUME TypeOK, EveryWaiterIsQueued, NEW t \in Tasks, ~ Waits(t),
         writes' = Append(writes, t), Waits(t)',
         \A u \in Tasks \ {t} : Waits(u)' <=> Waits(u)
  PROVE  EveryWaiterIsQueued'
<1>1. /\ Len(writes') = Len(writes) + 1 /\ Len(writes) \in Nat
      /\ \A i \in 1 .. Len(writes) : writes'[i] = writes[i]
      /\ writes'[Len(writes) + 1] = t
  BY Appended
<1>2. \A i \in 1 .. Len(writes) : writes[i] # t
  BY DEF EveryWaiterIsQueued, Waits
<1>3. ASSUME NEW u \in Tasks
      PROVE  Waits(u)' <=> \E i \in 1 .. Len(writes') : writes'[i] = u
  <2>1. CASE u = t
    BY <1>1, <2>1
  <2>2. CASE u # t
    <3>1. Waits(u) <=> \E i \in 1 .. Len(writes) : writes[i] = u
      BY DEF EveryWaiterIsQueued, Waits
    <3>2. (\E i \in 1 .. Len(writes') : writes'[i] = u)
             <=> \E i \in 1 .. Len(writes) : writes[i] = u
      BY <1>1, <2>2
    <3> QED
      BY <2>2, <3>1, <3>2
  <2> QED
    BY <2>1, <2>2
<1>4. \A i, j \in 1 .. Len(writes') : i # j /\ writes'[i] = writes'[j] => writes'[i] = Nobody
  BY <1>1, <1>2 DEF EveryWaiterIsQueued
<1> QED
  BY <1>3, <1>4 DEF EveryWaiterIsQueued, Waits

(* Lemma: a write joins the chain that nobody awaits. *)
LEMMA ChainLengthened ==
  ASSUME TypeOK, EveryWaiterIsQueued, writes' = Append(writes, Nobody),
         \A u \in Tasks : Waits(u)' <=> Waits(u)
  PROVE  EveryWaiterIsQueued'
<1>1. /\ Len(writes') = Len(writes) + 1 /\ Len(writes) \in Nat
      /\ \A i \in 1 .. Len(writes) : writes'[i] = writes[i]
      /\ writes'[Len(writes) + 1] = Nobody
  BY Appended
<1>2. Nobody \notin Tasks
  BY NativeCacheAssumption DEF Tasks
<1>3. ASSUME NEW u \in Tasks
      PROVE  Waits(u)' <=> \E i \in 1 .. Len(writes') : writes'[i] = u
  <2>1. Waits(u) <=> \E i \in 1 .. Len(writes) : writes[i] = u
    BY DEF EveryWaiterIsQueued, Waits
  <2>2. (\E i \in 1 .. Len(writes') : writes'[i] = u)
           <=> \E i \in 1 .. Len(writes) : writes[i] = u
    BY <1>1, <1>2
  <2> QED
    BY <2>1, <2>2
<1>4. \A i, j \in 1 .. Len(writes') : i # j /\ writes'[i] = writes'[j] => writes'[i] = Nobody
  BY <1>1 DEF EveryWaiterIsQueued
<1> QED
  BY <1>3, <1>4 DEF EveryWaiterIsQueued, Waits

(* Lemma: the first write of the chain ends, and who awaited it goes on. *)
LEMMA ChainShortened ==
  ASSUME TypeOK, EveryWaiterIsQueued, writes # <<>>, writes' = Tail(writes),
         \A u \in Tasks : Waits(u)' <=> Waits(u) /\ u # Head(writes)
  PROVE  EveryWaiterIsQueued'
<1>1. /\ Len(writes') = Len(writes) - 1 /\ Len(writes) \in Nat \ {0}
      /\ \A i \in 1 .. Len(writes') : writes'[i] = writes[i + 1]
      /\ Head(writes) = writes[1]
  BY DEF TypeOK
<1>2. Nobody \notin Tasks
  BY NativeCacheAssumption DEF Tasks
<1>3. ASSUME NEW u \in Tasks
      PROVE  Waits(u)' <=> \E i \in 1 .. Len(writes') : writes'[i] = u
  <2>1. Waits(u) <=> \E i \in 1 .. Len(writes) : writes[i] = u
    BY DEF EveryWaiterIsQueued, Waits
  <2>2. CASE u = writes[1]
    <3>1. \A i \in 2 .. Len(writes) : writes[i] # u
      BY <1>1, <1>2, <2>2 DEF EveryWaiterIsQueued
    <3> QED
      BY <1>1, <2>2, <3>1
  <2>3. CASE u # writes[1]
    <3>1. ASSUME NEW i \in 1 .. Len(writes), writes[i] = u
          PROVE  \E j \in 1 .. Len(writes') : writes'[j] = u
      <4>1. i - 1 \in 1 .. Len(writes') /\ writes'[i - 1] = u
        BY <1>1, <2>3, <3>1
      <4> QED
        BY <4>1
    <3>2. ASSUME NEW i \in 1 .. Len(writes'), writes'[i] = u
          PROVE  \E j \in 1 .. Len(writes) : writes[j] = u
      BY <1>1, <3>2
    <3> QED
      BY <1>1, <2>1, <2>3, <3>1, <3>2
  <2> QED
    BY <2>2, <2>3
<1>4. \A i, j \in 1 .. Len(writes') : i # j /\ writes'[i] = writes'[j] => writes'[i] = Nobody
  BY <1>1 DEF EveryWaiterIsQueued
<1> QED
  BY <1>3, <1>4 DEF EveryWaiterIsQueued, Waits

-----------------------------------------------------------------------------
(* Lemmas: what the moves of a task leave.                                 *)

Places == {"idle", "looking", "gone", "dropping", "fetching", "placing", "fetched",
           "saving", "purging", "reading", "asking", "counting"}

OthersStay(t) == \A u \in Tasks \ {t} : task'[u] = task[u]

(* Lemma: a new record for a task is the only change. *)
LEMMA Moved ==
  ASSUME TypeOK, NEW t \in Tasks, NEW r \in TaskRecord, task' = [task EXCEPT ![t] = r]
  PROVE  task' \in [Tasks -> TaskRecord] /\ OthersStay(t) /\ task'[t] = r
BY DEF TypeOK, OthersStay

(* Lemma: Goto moves a task and keeps what it knows. *)
LEMMA Gone ==
  ASSUME TypeOK, NEW t \in Tasks, NEW pc \in Places, Goto(t, pc)
  PROVE  /\ task' \in [Tasks -> TaskRecord] /\ OthersStay(t)
         /\ task'[t].pc = pc /\ task'[t].bundle = task[t].bundle
         /\ task'[t].hash = task[t].hash /\ task'[t].seen = task[t].seen
         /\ task'[t].sha = task[t].sha
<1> DEFINE r == [task[t] EXCEPT !.pc = pc]
<1>1. task[t] \in TaskRecord
  BY DEF TypeOK
<1>2. r \in TaskRecord
  BY <1>1 DEF TaskRecord, Places
<1>3. task' = [task EXCEPT ![t] = r]
  BY DEF Goto, TypeOK
<1>4. /\ r.pc = pc /\ r.bundle = task[t].bundle /\ r.hash = task[t].hash
      /\ r.seen = task[t].seen /\ r.sha = task[t].sha
  BY <1>1 DEF TaskRecord
<1> HIDE DEF r
<1> QED
  BY <1>2, <1>3, <1>4, Moved

(* Lemma: Proceed moves a task and makes it forget what it found. *)
LEMMA Proceeded ==
  ASSUME TypeOK, NEW t \in Tasks, NEW pc \in Places, Proceed(t, pc)
  PROVE  /\ task' \in [Tasks -> TaskRecord] /\ OthersStay(t)
         /\ task'[t].pc = pc /\ task'[t].bundle = task[t].bundle
         /\ task'[t].hash = task[t].hash /\ task'[t].seen = None
<1> DEFINE r == [task[t] EXCEPT !.pc = pc, !.seen = None, !.sha = None]
<1>1. task[t] \in TaskRecord
  BY DEF TypeOK
<1>2. r \in TaskRecord
  BY <1>1 DEF TaskRecord, Places
<1>3. task' = [task EXCEPT ![t] = r]
  BY DEF Proceed, TypeOK
<1>4. /\ r.pc = pc /\ r.bundle = task[t].bundle /\ r.hash = task[t].hash /\ r.seen = None
  BY <1>1 DEF TaskRecord
<1> HIDE DEF r
<1> QED
  BY <1>2, <1>3, <1>4, Moved

(* Lemma: Lookup gives a task its bundle and hash. *)
LEMMA LookedUp ==
  ASSUME TypeOK, NEW t \in Tasks, NEW b \in Bundles, NEW h \in Hashes, Lookup(t, b, h)
  PROVE  /\ task' \in [Tasks -> TaskRecord] /\ OthersStay(t)
         /\ task'[t].pc \in {"fetching", "looking"}
         /\ task'[t].pc = "looking" => task'[t].seen \in Hashes
         /\ task'[t].bundle = b /\ task'[t].hash = h
<1> DEFINE r == [pc |-> IF index[b] = None THEN "fetching" ELSE "looking",
                 bundle |-> b, hash |-> h, seen |-> index[b], sha |-> None]
<1>1. index[b] \in Hashes \union {None}
  BY DEF TypeOK, Index
<1>2. r \in TaskRecord
  BY <1>1 DEF TaskRecord
<1>3. task' = [task EXCEPT ![t] = r]
  BY DEF Lookup
<1>4. /\ r.pc \in {"fetching", "looking"} /\ r.bundle = b /\ r.hash = h
      /\ r.pc = "looking" => r.seen \in Hashes
  BY <1>1
<1> HIDE DEF r
<1> QED
  BY <1>2, <1>3, <1>4, Moved

(* Lemma: Leave ends a load, and has the update check go on. *)
LEMMA Finished ==
  ASSUME TypeOK, NEW t \in Tasks,
         NEW result \in {"none", "loaded", "strayed", "skipped", "rejected"}, Leave(t, result)
  PROVE  /\ task' \in [Tasks -> TaskRecord] /\ OthersStay(t)
         /\ task'[t].pc \in {"idle", "asking"}
         /\ answer' \in [Bundles -> {"none", "waiting", "loaded", "strayed", "skipped", "rejected"}]
<1> DEFINE r == IF t = Poll THEN NextTurn ELSE IdleTask
<1>1. r \in TaskRecord /\ r.pc \in {"idle", "asking"}
  BY DEF TaskRecord, NextTurn, IdleTask
<1>2. task' = [task EXCEPT ![t] = r]
  BY DEF Leave
<1>3. answer' \in [Bundles -> {"none", "waiting", "loaded", "strayed", "skipped", "rejected"}]
  BY DEF Leave, TypeOK
<1> HIDE DEF r
<1> QED
  BY <1>1, <1>2, <1>3, Moved

-----------------------------------------------------------------------------
(* Lemmas: every step keeps the invariant.                                 *)

(* Lemma: the cache starts in a state of the invariant. *)
LEMMA InitInv == Init => Inv
<1> SUFFICES ASSUME Init PROVE Inv
  OBVIOUS
<1> USE DEF Init, Empty, IdleTask, IdleClear
<1>1. TypeOK
  <2>1. task \in [Tasks -> TaskRecord] /\ clear \in ClearRecord
    BY DEF TaskRecord, ClearRecord
  <2>2. expected \in Index /\ index \in Index /\ manifest \in Index
    BY DEF Index
  <2>3. disk \in [Bundles -> [Hashes -> Contents \union {None}]] /\ writes \in Seq(Tasks \union {Nobody})
    OBVIOUS
  <2>4. answer \in [Bundles -> {"none", "waiting", "loaded", "strayed", "skipped", "rejected"}]
    OBVIOUS
  <2> QED
    BY <2>1, <2>2, <2>3, <2>4 DEF TypeOK
<1>2. ShapeInv /\ DownInv /\ CurrentInv
  BY DEF ShapeInv, DownInv, CurrentInv
<1>3. EveryWaiterIsQueued
  BY DEF EveryWaiterIsQueued
<1> QED
  BY <1>1, <1>2, <1>3 DEF Inv

(* Lemma: recovery reads the manifest. *)
LEMMA RecoverStep == ASSUME Inv, Recover PROVE Inv'
<1> USE DEF Inv, Recover
<1>1. TypeOK'
  BY DEF TypeOK, Index
<1>2. ShapeInv' /\ DownInv' /\ CurrentInv'
  BY DEF TypeOK, ShapeInv, DownInv, CurrentInv
<1>3. EveryWaiterIsQueued'
  BY ChainKept DEF Waits
<1> QED
  BY <1>1, <1>2, <1>3

(* Lemma: eviction forgets an entry and its file. *)
LEMMA EvictStep == ASSUME Inv, NEW b \in Bundles, Evict(b) PROVE Inv'
<1> USE DEF Inv, Evict, Put
<1>1. TypeOK'
  BY DEF TypeOK, Index, Contents
<1>2. ShapeInv' /\ DownInv' /\ CurrentInv'
  BY DEF TypeOK, ShapeInv, DownInv, CurrentInv
<1>3. EveryWaiterIsQueued'
  BY ChainKept DEF Waits
<1> QED
  BY <1>1, <1>2, <1>3

(* Lemma: the cache is up. *)
LEMMA ReadyStep == ASSUME Inv, Ready PROVE Inv'
<1> USE DEF Inv, Ready, Empty
<1>1. TypeOK'
  BY DEF TypeOK, Index
<1>2. ShapeInv' /\ DownInv' /\ CurrentInv'
  BY DEF TypeOK, ShapeInv, DownInv, CurrentInv
<1>3. EveryWaiterIsQueued'
  BY ChainKept DEF Waits
<1> QED
  BY <1>1, <1>2, <1>3

(* Lemma: a hash is registered. *)
LEMMA RegisterStep == ASSUME Inv, NEW b \in Bundles, NEW h \in Hashes, Register(b, h) PROVE Inv'
<1> USE DEF Inv, Register
<1>1. TypeOK'
  BY DEF TypeOK, Index
<1>2. ShapeInv' /\ DownInv' /\ CurrentInv'
  BY DEF TypeOK, ShapeInv, DownInv, CurrentInv
<1>3. EveryWaiterIsQueued'
  BY ChainKept DEF Waits
<1> QED
  BY <1>1, <1>2, <1>3

(* Lemma: a load without hash is skipped. *)
LEMMA LoadSkipsStep == ASSUME Inv, NEW b \in Bundles, LoadSkips(b) PROVE Inv'
<1> USE DEF Inv, LoadSkips
<1>1. TypeOK'
  BY DEF TypeOK, Index
<1>2. ShapeInv' /\ DownInv' /\ CurrentInv'
  BY DEF TypeOK, ShapeInv, DownInv, CurrentInv
<1>3. EveryWaiterIsQueued'
  BY ChainKept DEF Waits
<1> QED
  BY <1>1, <1>2, <1>3

(* Lemma: a load starts. *)
LEMMA LoadStartsStep == ASSUME Inv, NEW b \in Bundles, LoadStarts(b) PROVE Inv'
<1> USE DEF Inv, LoadStarts, At
<1>1. b \in Tasks /\ TypeOK
  BY DEF Tasks
<1>2. /\ task' \in [Tasks -> TaskRecord] /\ OthersStay(b)
      /\ task'[b].pc \in {"fetching", "looking"}
      /\ task'[b].pc = "looking" => task'[b].seen \in Hashes
      /\ task'[b].bundle = b /\ task'[b].hash = expected[b] /\ expected[b] \in Hashes
  BY <1>1, LookedUp DEF TypeOK, Index
<1>3. TypeOK'
  BY <1>1, <1>2 DEF TypeOK, ShapeInv, Index, Contents
<1>4. ShapeInv'
  BY <1>1, <1>2 DEF ShapeInv, OthersStay
<1>5. DownInv' /\ CurrentInv'
  BY <1>1, <1>2 DEF TypeOK, DownInv, CurrentInv
<1>6. EveryWaiterIsQueued'
  <2>1. \A u \in Tasks \ {b} : Waits(u)' <=> Waits(u)
    BY <1>2 DEF Waits, OthersStay
  <2>2. ~ Waits(b) /\ ~ Waits(b)'
    BY <1>2 DEF Waits
  <2> QED
    BY <1>1, <2>1, <2>2, ChainKept
<1> QED
  BY <1>3, <1>4, <1>5, <1>6

(* Lemma: a load reads its file. *)
LEMMA LoadReadsStep == ASSUME Inv, NEW b \in Bundles, LoadReads(b) PROVE Inv'
<1> USE DEF Inv, LoadReads, At
<1>1. b \in Tasks /\ TypeOK
  BY DEF Tasks
<1>2. /\ task' \in [Tasks -> TaskRecord] /\ OthersStay(b)
      /\ task'[b].pc \in {"idle", "asking"}
      /\ answer' \in [Bundles -> {"none", "waiting", "loaded", "strayed", "skipped", "rejected"}]
  BY <1>1, Finished
<1>3. TypeOK'
  BY <1>1, <1>2 DEF TypeOK, ShapeInv, Index, Contents
<1>4. ShapeInv'
  BY <1>1, <1>2 DEF ShapeInv, OthersStay
<1>5. DownInv' /\ CurrentInv'
  BY <1>1, <1>2 DEF TypeOK, DownInv, CurrentInv
<1>6. EveryWaiterIsQueued'
  <2>1. \A u \in Tasks \ {b} : Waits(u)' <=> Waits(u)
    BY <1>2 DEF Waits, OthersStay
  <2>2. ~ Waits(b) /\ ~ Waits(b)'
    BY <1>2 DEF Waits
  <2> QED
    BY <1>1, <2>1, <2>2, ChainKept
<1> QED
  BY <1>3, <1>4, <1>5, <1>6

(* Lemma: the update check starts. *)
LEMMA PollStartsStep == ASSUME Inv, PollStarts PROVE Inv'
<1> USE DEF Inv, PollStarts, At
<1>1. Poll \in Tasks /\ TypeOK
  BY DEF Tasks
<1>2. /\ task' \in [Tasks -> TaskRecord] /\ OthersStay(Poll)
      /\ task'[Poll].pc = "asking" /\ task'[Poll].bundle = task[Poll].bundle
      /\ task'[Poll].hash = task[Poll].hash /\ task'[Poll].seen = task[Poll].seen
  BY <1>1, Gone DEF Places
<1>3. TypeOK'
  BY <1>1, <1>2 DEF TypeOK, ShapeInv, Index, Contents
<1>4. ShapeInv'
  BY <1>1, <1>2 DEF ShapeInv, OthersStay
<1>5. DownInv' /\ CurrentInv'
  BY <1>1, <1>2 DEF TypeOK, DownInv, CurrentInv
<1>6. EveryWaiterIsQueued'
  <2>1. \A u \in Tasks \ {Poll} : Waits(u)' <=> Waits(u)
    BY <1>2 DEF Waits, OthersStay
  <2>2. ~ Waits(Poll) /\ ~ Waits(Poll)'
    BY <1>2 DEF Waits
  <2> QED
    BY <1>1, <2>1, <2>2, ChainKept
<1> QED
  BY <1>3, <1>4, <1>5, <1>6

(* Lemma: the update check goes on to a bundle. *)
LEMMA PollTurnsStep == ASSUME Inv, NEW b \in Bundles, NEW h \in Hashes, PollTurns(b, h) PROVE Inv'
<1> USE DEF Inv, PollTurns, At
<1>1. Poll \in Tasks /\ TypeOK
  BY DEF Tasks
<1>2. /\ task' \in [Tasks -> TaskRecord] /\ OthersStay(Poll)
      /\ task'[Poll].pc \in {"fetching", "looking"}
      /\ task'[Poll].pc = "looking" => task'[Poll].seen \in Hashes
      /\ task'[Poll].bundle = b /\ task'[Poll].hash = h
  BY <1>1, LookedUp
<1>3. TypeOK'
  BY <1>1, <1>2 DEF TypeOK, ShapeInv, Index, Contents
<1>4. ShapeInv'
  BY <1>1, <1>2 DEF ShapeInv, OthersStay
<1>5. DownInv' /\ CurrentInv'
  BY <1>1, <1>2 DEF TypeOK, DownInv, CurrentInv
<1>6. EveryWaiterIsQueued'
  <2>1. \A u \in Tasks \ {Poll} : Waits(u)' <=> Waits(u)
    BY <1>2 DEF Waits, OthersStay
  <2>2. ~ Waits(Poll) /\ ~ Waits(Poll)'
    BY <1>2 DEF Waits
  <2> QED
    BY <1>1, <2>1, <2>2, ChainKept
<1> QED
  BY <1>3, <1>4, <1>5, <1>6

(* Lemma: the update check ends. *)
LEMMA PollEndsStep == ASSUME Inv, PollEnds PROVE Inv'
<1> USE DEF Inv, PollEnds, At
<1>1. Poll \in Tasks /\ TypeOK
  BY DEF Tasks
<1>2. /\ task' \in [Tasks -> TaskRecord] /\ OthersStay(Poll)
      /\ task'[Poll].pc = "idle"
  BY <1>1, Moved DEF IdleTask, TaskRecord
<1>3. TypeOK'
  BY <1>1, <1>2 DEF TypeOK, ShapeInv, Index, Contents
<1>4. ShapeInv'
  BY <1>1, <1>2 DEF ShapeInv, OthersStay
<1>5. DownInv' /\ CurrentInv'
  BY <1>1, <1>2 DEF TypeOK, DownInv, CurrentInv
<1>6. EveryWaiterIsQueued'
  <2>1. \A u \in Tasks \ {Poll} : Waits(u)' <=> Waits(u)
    BY <1>2 DEF Waits, OthersStay
  <2>2. ~ Waits(Poll) /\ ~ Waits(Poll)'
    BY <1>2 DEF Waits
  <2> QED
    BY <1>1, <2>1, <2>2, ChainKept
<1> QED
  BY <1>3, <1>4, <1>5, <1>6

(* Lemma: the update check counts a download. *)
LEMMA PollCountsStep == ASSUME Inv, PollCounts PROVE Inv'
<1> USE DEF Inv, PollCounts, At
<1>1. Poll \in Tasks /\ TypeOK
  BY DEF Tasks
<1>2. /\ task' \in [Tasks -> TaskRecord] /\ OthersStay(Poll)
      /\ task'[Poll].pc \in {"idle", "asking"}
      /\ answer' \in [Bundles -> {"none", "waiting", "loaded", "strayed", "skipped", "rejected"}]
  BY <1>1, Finished
<1>3. TypeOK'
  BY <1>1, <1>2 DEF TypeOK, ShapeInv, Index, Contents
<1>4. ShapeInv'
  BY <1>1, <1>2 DEF ShapeInv, OthersStay
<1>5. DownInv' /\ CurrentInv'
  BY <1>1, <1>2 DEF TypeOK, DownInv, CurrentInv
<1>6. EveryWaiterIsQueued'
  <2>1. \A u \in Tasks \ {Poll} : Waits(u)' <=> Waits(u)
    BY <1>2 DEF Waits, OthersStay
  <2>2. ~ Waits(Poll) /\ ~ Waits(Poll)'
    BY <1>2 DEF Waits
  <2> QED
    BY <1>1, <2>1, <2>2, ChainKept
<1> QED
  BY <1>3, <1>4, <1>5, <1>6

(* Lemma: the update check leaves a bundle it has. *)
LEMMA PollHitsStep == ASSUME Inv, Hits(Poll) PROVE Inv'
<1> USE DEF Inv, Hits, At
<1>1. Poll \in Tasks /\ TypeOK
  BY DEF Tasks
<1>2. /\ task' \in [Tasks -> TaskRecord] /\ OthersStay(Poll)
      /\ task'[Poll].pc \in {"idle", "asking"}
      /\ answer' \in [Bundles -> {"none", "waiting", "loaded", "strayed", "skipped", "rejected"}]
  BY <1>1, Finished
<1>3. TypeOK'
  BY <1>1, <1>2 DEF TypeOK, ShapeInv, Index, Contents
<1>4. ShapeInv'
  BY <1>1, <1>2 DEF ShapeInv, OthersStay
<1>5. DownInv' /\ CurrentInv'
  BY <1>1, <1>2 DEF TypeOK, DownInv, CurrentInv
<1>6. EveryWaiterIsQueued'
  <2>1. \A u \in Tasks \ {Poll} : Waits(u)' <=> Waits(u)
    BY <1>2 DEF Waits, OthersStay
  <2>2. ~ Waits(Poll) /\ ~ Waits(Poll)'
    BY <1>2 DEF Waits
  <2> QED
    BY <1>1, <2>1, <2>2, ChainKept
<1> QED
  BY <1>3, <1>4, <1>5, <1>6

(* Lemma: a load finds its bundle. *)
LEMMA LoadHitsStep == ASSUME Inv, NEW t \in Tasks, t # Poll, Hits(t) PROVE Inv'
<1> USE DEF Inv, Hits, At
<1>1. t \in Tasks /\ TypeOK
  BY DEF Tasks
<1>2. /\ task' \in [Tasks -> TaskRecord] /\ OthersStay(t)
      /\ task'[t].pc = "reading" /\ task'[t].bundle = task[t].bundle
      /\ task'[t].hash = task[t].hash
  BY <1>1, Proceeded DEF Places
<1>3. writes' \in Seq(Tasks \union {Nobody}) /\ Len(writes') = Len(writes) + 1 /\ Len(writes) \in Nat
  BY <1>1, Appended
<1>4. (writes = <<>> <=> Len(writes) = 0) /\ writes' # <<>>
  BY <1>1, <1>3 DEF TypeOK
<1>5. TypeOK'
  BY <1>1, <1>2, <1>3, <1>4 DEF TypeOK, ShapeInv, Index, Contents
<1>6. ShapeInv'
  BY <1>1, <1>2, <1>3, <1>4 DEF ShapeInv, OthersStay
<1>7. DownInv' /\ CurrentInv'
  BY <1>1, <1>2, <1>3, <1>4 DEF TypeOK, DownInv, CurrentInv
<1>8. EveryWaiterIsQueued'
  <2>1. \A u \in Tasks \ {t} : Waits(u)' <=> Waits(u)
    BY <1>2 DEF Waits, OthersStay
  <2>2. ~ Waits(t) /\ ~ Waits(t)'
    BY <1>2 DEF Waits
  <2> QED
    BY <1>1, <2>1, <2>2, ChainLengthened
<1> QED
  BY <1>5, <1>6, <1>7, <1>8

(* Lemma: an entry of another hash is passed over. *)
LEMMA MissesStep == ASSUME Inv, NEW t \in Tasks, Misses(t) PROVE Inv'
<1> USE DEF Inv, Misses, At
<1>1. t \in Tasks /\ TypeOK
  BY DEF Tasks
<1>2. /\ task' \in [Tasks -> TaskRecord] /\ OthersStay(t)
      /\ task'[t].pc = "fetching" /\ task'[t].bundle = task[t].bundle
      /\ task'[t].hash = task[t].hash
  BY <1>1, Proceeded DEF Places
<1>3. TypeOK'
  BY <1>1, <1>2 DEF TypeOK, ShapeInv, Index, Contents
<1>4. ShapeInv'
  BY <1>1, <1>2 DEF ShapeInv, OthersStay
<1>5. DownInv' /\ CurrentInv'
  BY <1>1, <1>2 DEF TypeOK, DownInv, CurrentInv
<1>6. EveryWaiterIsQueued'
  <2>1. \A u \in Tasks \ {t} : Waits(u)' <=> Waits(u)
    BY <1>2 DEF Waits, OthersStay
  <2>2. ~ Waits(t) /\ ~ Waits(t)'
    BY <1>2 DEF Waits
  <2> QED
    BY <1>1, <2>1, <2>2, ChainKept
<1> QED
  BY <1>3, <1>4, <1>5, <1>6

(* Lemma: no file is found. *)
LEMMA FindsNoneStep == ASSUME Inv, NEW t \in Tasks, FindsNone(t) PROVE Inv'
<1> USE DEF Inv, FindsNone, At
<1>1. t \in Tasks /\ TypeOK
  BY DEF Tasks
<1>2. /\ task' \in [Tasks -> TaskRecord] /\ OthersStay(t)
      /\ task'[t].pc = "gone" /\ task'[t].bundle = task[t].bundle
      /\ task'[t].hash = task[t].hash /\ task'[t].seen = task[t].seen
  BY <1>1, Gone DEF Places
<1>3. TypeOK'
  BY <1>1, <1>2 DEF TypeOK, ShapeInv, Index, Contents
<1>4. ShapeInv'
  BY <1>1, <1>2 DEF ShapeInv, OthersStay
<1>5. DownInv' /\ CurrentInv'
  BY <1>1, <1>2 DEF TypeOK, DownInv, CurrentInv
<1>6. EveryWaiterIsQueued'
  <2>1. \A u \in Tasks \ {t} : Waits(u)' <=> Waits(u)
    BY <1>2 DEF Waits, OthersStay
  <2>2. ~ Waits(t) /\ ~ Waits(t)'
    BY <1>2 DEF Waits
  <2> QED
    BY <1>1, <2>1, <2>2, ChainKept
<1> QED
  BY <1>3, <1>4, <1>5, <1>6

(* Lemma: the entry of a missing file is dropped. *)
LEMMA DropsStep == ASSUME Inv, NEW t \in Tasks, Drops(t) PROVE Inv'
<1> USE DEF Inv, Drops, At
<1>1. t \in Tasks /\ TypeOK
  BY DEF Tasks
<1>2. /\ task' \in [Tasks -> TaskRecord] /\ OthersStay(t)
      /\ task'[t].pc = "dropping" /\ task'[t].bundle = task[t].bundle
      /\ task'[t].hash = task[t].hash
  BY <1>1, Proceeded DEF Places
<1>3. writes' \in Seq(Tasks \union {Nobody}) /\ Len(writes') = Len(writes) + 1 /\ Len(writes) \in Nat
  BY <1>1, Appended
<1>4. (writes = <<>> <=> Len(writes) = 0) /\ writes' # <<>>
  BY <1>1, <1>3 DEF TypeOK
<1>5. TypeOK'
  BY <1>1, <1>2, <1>3, <1>4 DEF TypeOK, ShapeInv, Index, Contents
<1>6. ShapeInv'
  BY <1>1, <1>2, <1>3, <1>4 DEF ShapeInv, OthersStay
<1>7. DownInv' /\ CurrentInv'
  BY <1>1, <1>2, <1>3, <1>4 DEF TypeOK, DownInv, CurrentInv
<1>8. EveryWaiterIsQueued'
  <2>1. \A u \in Tasks \ {t} : Waits(u)' <=> Waits(u)
    BY <1>2 DEF Waits, OthersStay
  <2>2. ~ Waits(t) /\ Waits(t)'
    BY <1>2 DEF Waits
  <2> QED
    BY <1>1, <2>1, <2>2, ChainJoined
<1> QED
  BY <1>5, <1>6, <1>7, <1>8

(* Lemma: a download deletes the file it is to replace. *)
LEMMA ReplacesStep == ASSUME Inv, NEW t \in Tasks, Replaces(t) PROVE Inv'
<1> USE DEF Inv, Replaces, At
<1>1. t \in Tasks /\ TypeOK
  BY DEF Tasks
<1>2. /\ task' \in [Tasks -> TaskRecord] /\ OthersStay(t)
      /\ task'[t].pc = "placing" /\ task'[t].bundle = task[t].bundle
      /\ task'[t].hash = task[t].hash
      /\ disk' \in [Bundles -> [Hashes -> Contents \union {None}]]
  <2>1. disk' \in [Bundles -> [Hashes -> Contents \union {None}]]
    BY DEF TypeOK, Put
  <2> QED
    BY <1>1, <2>1, Gone DEF Places
<1>3. TypeOK'
  BY <1>1, <1>2 DEF TypeOK, ShapeInv, Index, Contents
<1>4. ShapeInv'
  BY <1>1, <1>2 DEF ShapeInv, OthersStay
<1>5. DownInv' /\ CurrentInv'
  BY <1>1, <1>2 DEF TypeOK, DownInv, CurrentInv
<1>6. EveryWaiterIsQueued'
  <2>1. \A u \in Tasks \ {t} : Waits(u)' <=> Waits(u)
    BY <1>2 DEF Waits, OthersStay
  <2>2. ~ Waits(t) /\ ~ Waits(t)'
    BY <1>2 DEF Waits
  <2> QED
    BY <1>1, <2>1, <2>2, ChainKept
<1> QED
  BY <1>3, <1>4, <1>5, <1>6

(* Lemma: it copies a part of the new one. *)
LEMMA CopiesStep == ASSUME Inv, NEW t \in Tasks, Copies(t) PROVE Inv'
<1> USE DEF Inv, Copies
<1>1. disk' \in [Bundles -> [Hashes -> Contents \union {None}]]
  BY DEF TypeOK, Put, Contents
<1>2. TypeOK'
  BY <1>1 DEF TypeOK
<1>3. ShapeInv' /\ DownInv' /\ CurrentInv'
  BY DEF ShapeInv, DownInv, CurrentInv
<1>4. EveryWaiterIsQueued'
  BY ChainKept DEF Waits
<1> QED
  BY <1>2, <1>3, <1>4

(* Lemma: a download ends. *)
LEMMA DownloadsStep == ASSUME Inv, NEW t \in Tasks, Downloads(t) PROVE Inv'
<1> USE DEF Inv, Downloads, At
<1>1. t \in Tasks /\ TypeOK
  BY DEF Tasks
<1>2. /\ task' \in [Tasks -> TaskRecord] /\ OthersStay(t)
      /\ task'[t].pc = "fetched" /\ task'[t].bundle = task[t].bundle
      /\ task'[t].hash = task[t].hash
      /\ disk' \in [Bundles -> [Hashes -> Contents \union {None}]]
  <2>1. PICK content \in Contents :
          /\ \/ Put(task[t].bundle, task[t].hash, content)
             \/ UNCHANGED disk
          /\ task' = [task EXCEPT ![t].pc = "fetched", ![t].sha = content]
    BY Zenon
  <2> DEFINE r == [task[t] EXCEPT !.pc = "fetched", !.sha = content]
  <2>2. task[t] \in TaskRecord
    BY DEF TypeOK
  <2>3. r \in TaskRecord
    BY <2>2 DEF TaskRecord
  <2>4. r.pc = "fetched" /\ r.bundle = task[t].bundle /\ r.hash = task[t].hash
    BY <2>2 DEF TaskRecord
  <2>5. task' = [task EXCEPT ![t] = r]
    BY <2>1 DEF TypeOK
  <2>6. disk' \in [Bundles -> [Hashes -> Contents \union {None}]]
    BY <2>1 DEF TypeOK, Put, ShapeInv
  <2> HIDE DEF r
  <2> QED
    BY <1>1, <2>3, <2>4, <2>5, <2>6, Moved
<1>3. TypeOK'
  BY <1>1, <1>2 DEF TypeOK, ShapeInv, Index, Contents
<1>4. ShapeInv'
  BY <1>1, <1>2 DEF ShapeInv, OthersStay
<1>5. DownInv' /\ CurrentInv'
  BY <1>1, <1>2 DEF TypeOK, DownInv, CurrentInv
<1>6. EveryWaiterIsQueued'
  <2>1. \A u \in Tasks \ {t} : Waits(u)' <=> Waits(u)
    BY <1>2 DEF Waits, OthersStay
  <2>2. ~ Waits(t) /\ ~ Waits(t)'
    BY <1>2 DEF Waits
  <2> QED
    BY <1>1, <2>1, <2>2, ChainKept
<1> QED
  BY <1>3, <1>4, <1>5, <1>6

(* Lemma: a download fails. *)
LEMMA DownloadFailsStep == ASSUME Inv, NEW t \in Tasks, DownloadFails(t) PROVE Inv'
<1> USE DEF Inv, DownloadFails, At
<1>1. t \in Tasks /\ TypeOK
  BY DEF Tasks
<1>2. /\ task' \in [Tasks -> TaskRecord] /\ OthersStay(t)
      /\ task'[t].pc \in {"idle", "asking"}
      /\ answer' \in [Bundles -> {"none", "waiting", "loaded", "strayed", "skipped", "rejected"}]
      /\ disk' \in [Bundles -> [Hashes -> Contents \union {None}]]
  <2>1. disk' \in [Bundles -> [Hashes -> Contents \union {None}]]
    BY DEF TypeOK, Put
  <2> QED
    BY <1>1, <2>1, Finished
<1>3. TypeOK'
  BY <1>1, <1>2 DEF TypeOK, ShapeInv, Index, Contents
<1>4. ShapeInv'
  BY <1>1, <1>2 DEF ShapeInv, OthersStay
<1>5. DownInv' /\ CurrentInv'
  BY <1>1, <1>2 DEF TypeOK, DownInv, CurrentInv
<1>6. EveryWaiterIsQueued'
  <2>1. \A u \in Tasks \ {t} : Waits(u)' <=> Waits(u)
    BY <1>2 DEF Waits, OthersStay
  <2>2. ~ Waits(t) /\ ~ Waits(t)'
    BY <1>2 DEF Waits
  <2> QED
    BY <1>1, <2>1, <2>2, ChainKept
<1> QED
  BY <1>3, <1>4, <1>5, <1>6

(* Lemma: a wrong content is deleted. *)
LEMMA MismatchesStep == ASSUME Inv, NEW t \in Tasks, Mismatches(t) PROVE Inv'
<1> USE DEF Inv, Mismatches, Put, At
<1>1. t \in Tasks /\ TypeOK
  BY DEF Tasks
<1>2. /\ task' \in [Tasks -> TaskRecord] /\ OthersStay(t)
      /\ task'[t].pc \in {"idle", "asking"}
      /\ answer' \in [Bundles -> {"none", "waiting", "loaded", "strayed", "skipped", "rejected"}]
  BY <1>1, Finished
<1>3. TypeOK'
  BY <1>1, <1>2 DEF TypeOK, ShapeInv, Index, Contents
<1>4. ShapeInv'
  BY <1>1, <1>2 DEF ShapeInv, OthersStay
<1>5. DownInv' /\ CurrentInv'
  BY <1>1, <1>2 DEF TypeOK, DownInv, CurrentInv
<1>6. EveryWaiterIsQueued'
  <2>1. \A u \in Tasks \ {t} : Waits(u)' <=> Waits(u)
    BY <1>2 DEF Waits, OthersStay
  <2>2. ~ Waits(t) /\ ~ Waits(t)'
    BY <1>2 DEF Waits
  <2> QED
    BY <1>1, <2>1, <2>2, ChainKept
<1> QED
  BY <1>3, <1>4, <1>5, <1>6

(* Lemma: a verified bundle is saved. *)
LEMMA SavesStep == ASSUME Inv, NEW t \in Tasks, Saves(t) PROVE Inv'
<1> USE DEF Inv, Saves, At
<1>1. t \in Tasks /\ TypeOK
  BY DEF Tasks
<1>2. /\ task' \in [Tasks -> TaskRecord] /\ OthersStay(t)
      /\ task'[t].pc = "saving" /\ task'[t].bundle = task[t].bundle
      /\ task'[t].hash = task[t].hash
  <2> DEFINE r == [task[t] EXCEPT !.pc = "saving", !.seen = index[task[t].bundle], !.sha = None]
  <2>1. task[t] \in TaskRecord /\ index[task[t].bundle] \in Hashes \union {None}
    BY DEF TypeOK, ShapeInv, Index
  <2>2. r \in TaskRecord
    BY <2>1 DEF TaskRecord
  <2>3. r.pc = "saving" /\ r.bundle = task[t].bundle /\ r.hash = task[t].hash
    BY <2>1 DEF TaskRecord
  <2>4. task' = [task EXCEPT ![t] = r]
    BY DEF TypeOK
  <2> HIDE DEF r
  <2> QED
    BY <1>1, <2>2, <2>3, <2>4, Moved
<1>3. writes' \in Seq(Tasks \union {Nobody}) /\ Len(writes') = Len(writes) + 1 /\ Len(writes) \in Nat
  BY <1>1, Appended
<1>4. (writes = <<>> <=> Len(writes) = 0) /\ writes' # <<>>
  BY <1>1, <1>3 DEF TypeOK
<1>5. TypeOK'
  BY <1>1, <1>2, <1>3, <1>4 DEF TypeOK, ShapeInv, Index, Contents
<1>6. ShapeInv'
  BY <1>1, <1>2, <1>3, <1>4 DEF ShapeInv, OthersStay
<1>7. DownInv' /\ CurrentInv'
  BY <1>1, <1>2, <1>3, <1>4 DEF TypeOK, DownInv, CurrentInv
<1>8. EveryWaiterIsQueued'
  <2>1. \A u \in Tasks \ {t} : Waits(u)' <=> Waits(u)
    BY <1>2 DEF Waits, OthersStay
  <2>2. ~ Waits(t) /\ Waits(t)'
    BY <1>2 DEF Waits
  <2> QED
    BY <1>1, <2>1, <2>2, ChainJoined
<1> QED
  BY <1>5, <1>6, <1>7, <1>8

(* Lemma: a replaced file is deleted. *)
LEMMA PurgesStep == ASSUME Inv, NEW t \in Tasks, Purges(t) PROVE Inv'
<1> USE DEF Inv, Purges, Put, Saved, At
<1>1. t \in Tasks /\ TypeOK
  BY DEF Tasks
<1>2. /\ task' \in [Tasks -> TaskRecord] /\ OthersStay(t)
      /\ task'[t].pc = Saved(t) /\ task'[t].bundle = task[t].bundle
      /\ task'[t].hash = task[t].hash
  BY <1>1, Proceeded DEF Places
<1>3. TypeOK'
  BY <1>1, <1>2 DEF TypeOK, ShapeInv, Index, Contents
<1>4. ShapeInv'
  BY <1>1, <1>2 DEF ShapeInv, OthersStay
<1>5. DownInv' /\ CurrentInv'
  BY <1>1, <1>2 DEF TypeOK, DownInv, CurrentInv
<1>6. EveryWaiterIsQueued'
  <2>1. \A u \in Tasks \ {t} : Waits(u)' <=> Waits(u)
    BY <1>2 DEF Waits, OthersStay
  <2>2. ~ Waits(t) /\ ~ Waits(t)'
    BY <1>2 DEF Waits
  <2> QED
    BY <1>1, <2>1, <2>2, ChainKept
<1> QED
  BY <1>3, <1>4, <1>5, <1>6

(* Lemma: a write takes the index as it is. *)
LEMMA WriteStartsStep == ASSUME Inv, WriteStarts PROVE Inv'
<1> USE DEF Inv, WriteStarts
<1>1. TypeOK'
  BY DEF TypeOK
<1>2. ShapeInv' /\ DownInv' /\ CurrentInv'
  BY DEF TypeOK, ShapeInv, DownInv, CurrentInv
<1>3. EveryWaiterIsQueued'
  BY ChainKept DEF Waits
<1> QED
  BY <1>1, <1>2, <1>3

(* Lemma: a write ends, and the task that awaited it goes on; as it is the *)
(* first of the chain, that task does wait. *)
LEMMA WriteEndsStep ==
  ASSUME Inv, NEW persisted \in BOOLEAN, WriteEnds(persisted) PROVE Inv'
<1> USE DEF Inv, WriteEnds
<1>1. /\ writes # <<>> /\ writes' \in Seq(Tasks \union {Nobody})
      /\ Head(writes) \in Tasks \union {Nobody}
      /\ Head(writes) = writes[1] /\ 1 \in 1 .. Len(writes)
  BY DEF DownInv, TypeOK
<1>2. Nobody \notin Tasks
  BY NativeCacheAssumption DEF Tasks
<1>3. ASSUME Head(writes) # Nobody
      PROVE  /\ Head(writes) \in Tasks
             /\ Waits(Head(writes))
             /\ After(Head(writes), persisted) \in {"fetching", "purging", "counting", "reading"}
             /\ After(Head(writes), persisted) = "purging" => task[Head(writes)].seen \in Hashes
  <2>1. Head(writes) \in Tasks
    BY <1>1, <1>3
  <2>2. Waits(Head(writes))
    BY <1>1, <2>1 DEF EveryWaiterIsQueued, Waits
  <2>3. task[Head(writes)].seen \in Hashes \union {None}
    BY <2>1 DEF TypeOK, TaskRecord
  <2> QED
    BY <2>1, <2>2, <2>3 DEF After, Saved, Waits
<1>4. /\ task' \in [Tasks -> TaskRecord]
      /\ \A u \in Tasks \ {Head(writes)} : task'[u] = task[u]
      /\ Head(writes) \in Tasks =>
           /\ task'[Head(writes)].pc = After(Head(writes), persisted)
           /\ task'[Head(writes)].bundle = task[Head(writes)].bundle
           /\ task'[Head(writes)].hash = task[Head(writes)].hash
           /\ task'[Head(writes)].seen = task[Head(writes)].seen
  <2>1. CASE Head(writes) = Nobody
    BY <1>2, <2>1 DEF TypeOK
  <2>2. CASE Head(writes) # Nobody
    BY <1>3, <2>2, Gone DEF Places, OthersStay
  <2> QED
    BY <2>1, <2>2
<1>5. TypeOK'
  <2>1. snapshot \in Index /\ manifest' \in Index
    BY DEF TypeOK, Written, Empty, Index
  <2>2. clear' \in ClearRecord
    BY DEF TypeOK, ClearRecord
  <2> QED
    BY <1>1, <1>4, <2>1, <2>2 DEF TypeOK
<1>6. ShapeInv'
  <2>1. clear'.pc = clear.pc /\ clear'.bundle = clear.bundle
    BY DEF TypeOK, ClearRecord
  <2> QED
    BY <1>2, <1>3, <1>4, <2>1 DEF ShapeInv, Waits
<1>7. DownInv' /\ CurrentInv'
  BY <1>1 DEF DownInv, CurrentInv
<1>8. EveryWaiterIsQueued'
  <2>1. \A u \in Tasks : Waits(u)' <=> Waits(u) /\ u # Head(writes)
    BY <1>2, <1>3, <1>4 DEF Waits
  <2> QED
    BY <1>1, <2>1, ChainShortened
<1> QED
  BY <1>5, <1>6, <1>7, <1>8

(* Lemma: the steps that clear the cache keep the invariant; a clearing    *)
(* that awaits nothing any more has seen every write of an older index end. *)
LEMMA ClearStep == ASSUME Inv, ClearStarts \/ Clear PROVE Inv'
<1> USE DEF Inv
<1>1. CASE ClearStarts
  <2>1. clear'.pc = "clearing" /\ clear' \in ClearRecord
    BY <1>1 DEF ClearStarts, IdleClear, ClearRecord
  <2>2. TypeOK' /\ ShapeInv' /\ DownInv' /\ CurrentInv'
    BY <1>1, <2>1 DEF ClearStarts, TypeOK, ShapeInv, DownInv, CurrentInv
  <2> QED
    BY <1>1, <2>2, ChainKept DEF ClearStarts, Waits
<1>2. ASSUME NEW b \in Bundles, ClearDeletes(b) PROVE Inv'
  <2>1. clear' \in ClearRecord
    BY <1>2 DEF ClearDeletes, ClearRecord, TypeOK
  <2>2. clear'.pc \in {"clearing", "forgetting"} /\ (clear'.pc = "forgetting" => clear'.bundle \in Bundles)
    BY <1>2 DEF ClearDeletes, ClearRecord, TypeOK
  <2>3. disk' \in [Bundles -> [Hashes -> Contents \union {None}]]
    BY <1>2 DEF ClearDeletes, TypeOK, Put, Index
  <2>4. TypeOK' /\ ShapeInv' /\ DownInv' /\ CurrentInv'
    BY <1>2, <2>1, <2>2, <2>3 DEF ClearDeletes, TypeOK, ShapeInv, DownInv, CurrentInv
  <2> QED
    BY <1>2, <2>4, ChainKept DEF ClearDeletes, Waits
<1>3. CASE ClearForgets
  <2>1. clear'.pc = "clearing" /\ clear' \in ClearRecord
    BY <1>3 DEF ClearForgets, ClearRecord, TypeOK
  <2>2. TypeOK' /\ ShapeInv' /\ DownInv' /\ CurrentInv'
    BY <1>3, <2>1 DEF ClearForgets, TypeOK, Index, ShapeInv, DownInv, CurrentInv
  <2> QED
    BY <1>3, <2>2, ChainKept DEF ClearForgets, Waits
<1>4. CASE ClearWaits
  <2>1. clear'.pc = "waiting" /\ clear'.behind = Len(writes) /\ clear' \in ClearRecord
    <3>1. Len(writes) \in Nat
      BY DEF TypeOK
    <3> QED
      BY <1>4, <3>1 DEF ClearWaits, ClearRecord, TypeOK
  <2>2. TypeOK' /\ ShapeInv' /\ DownInv' /\ CurrentInv'
    BY <1>4, <2>1 DEF ClearWaits, TypeOK, ShapeInv, DownInv, CurrentInv
  <2> QED
    BY <1>4, <2>2, ChainKept DEF ClearWaits, Waits
<1>5. CASE ClearEnds
  <2>1. clear'.pc = "idle" /\ clear' \in ClearRecord
    BY <1>5 DEF ClearEnds, IdleClear, ClearRecord
  <2>2. TypeOK' /\ ShapeInv' /\ DownInv' /\ CurrentInv'
    BY <1>5, <2>1 DEF ClearEnds, Empty, TypeOK, Index, ShapeInv, DownInv, CurrentInv
  <2> QED
    BY <1>5, <2>2, ChainKept DEF ClearEnds, Waits
<1> QED
  BY <1>1, <1>2, <1>3, <1>4, <1>5 DEF Clear

(* Lemma: the end of the process leaves the manifest and the files. *)
LEMMA RestartStep == ASSUME Inv, Restart PROVE Inv'
<1> USE DEF Inv, Restart, IdleTask, IdleClear, Empty
<1>1. task' \in [Tasks -> TaskRecord] /\ clear' \in ClearRecord
  BY DEF TaskRecord, ClearRecord
<1>2. disk' \in [Bundles -> [Hashes -> Contents \union {None}]]
  OBVIOUS
<1>3. manifest' \in Index /\ index' \in Index /\ expected' \in Index
  BY DEF TypeOK, Index
<1>4. TypeOK'
  <2>1. writes' \in Seq(Tasks \union {Nobody})
    OBVIOUS
  <2>2. answer' \in [Bundles -> {"none", "waiting", "loaded", "strayed", "skipped", "rejected"}]
    OBVIOUS
  <2> QED
    BY <1>1, <1>2, <1>3, <2>1, <2>2 DEF TypeOK
<1>5. ShapeInv' /\ DownInv' /\ CurrentInv'
  BY DEF ShapeInv, DownInv, CurrentInv
<1>6. EveryWaiterIsQueued'
  BY DEF EveryWaiterIsQueued
<1> QED
  BY <1>4, <1>5, <1>6

(* Lemma: every step of a task keeps the invariant. *)
LEMMA TaskStep == ASSUME Inv, NEW t \in Tasks, Task(t) PROVE Inv'
<1>1. CASE Hits(t)
  BY <1>1, PollHitsStep, LoadHitsStep
<1> QED
  BY <1>1, MissesStep, FindsNoneStep, DropsStep, ReplacesStep, CopiesStep, DownloadsStep,
     DownloadFailsStep, MismatchesStep, SavesStep, PurgesStep DEF Task

(* Lemma: the invariant is inductive. *)
LEMMA Induction == Inv /\ [Next]_vars => Inv'
<1> SUFFICES ASSUME Inv, [Next]_vars PROVE Inv'
  OBVIOUS
<1>1. CASE UNCHANGED vars
  BY <1>1 DEF vars, Inv, TypeOK, ShapeInv, DownInv, CurrentInv, EveryWaiterIsQueued
<1>2. CASE Recover \/ Ready
  BY <1>2, RecoverStep, ReadyStep
<1>3. ASSUME NEW b \in Bundles,
             Evict(b) \/ LoadStarts(b) \/ LoadSkips(b) \/ LoadReads(b)
      PROVE  Inv'
  BY <1>3, EvictStep, LoadStartsStep, LoadSkipsStep, LoadReadsStep
<1>4. ASSUME NEW b \in Bundles, NEW h \in Hashes, Register(b, h) \/ PollTurns(b, h)
      PROVE  Inv'
  BY <1>4, RegisterStep, PollTurnsStep
<1>5. CASE PollStarts \/ PollCounts \/ PollEnds
  BY <1>5, PollStartsStep, PollCountsStep, PollEndsStep
<1>6. CASE PollApplies \/ Crash
  BY <1>6, RestartStep DEF PollApplies, Crash
<1>7. CASE Writer
  BY <1>7, WriteStartsStep, WriteEndsStep DEF Writer
<1>8. CASE ClearStarts \/ Clear
  BY <1>8, ClearStep
<1> QED
  BY <1>1, <1>2, <1>3, <1>4, <1>5, <1>6, <1>7, <1>8, TaskStep DEF Next

(* Lemma: it holds in every state. *)
LEMMA Invariance == Spec => []Inv
<1> QED
  BY InitInv, Induction, PTL DEF Spec

-----------------------------------------------------------------------------
(* Theorem: every variable keeps its type. *)
THEOREM TypeCorrect == Spec => []TypeOK
<1>1. Inv => TypeOK
  BY DEF Inv
<1> QED
  BY <1>1, Invariance, PTL

(* Theorem: on either platform, and however many loads overlap, whoever    *)
(* awaits the persisting of the index is in the chain of writes, once.     *)
THEOREM WaitersAreQueued == Spec => []EveryWaiterIsQueued
<1>1. Inv => EveryWaiterIsQueued
  BY DEF Inv
<1> QED
  BY <1>1, Invariance, PTL

(* Theorem: no older view of the index is persisted after a newer one.     *)
THEOREM LastWrite == Spec => []LastWriteIsCurrent
<1>1. Inv => LastWriteIsCurrent
  <2>1. CurrentInv => LastWriteIsCurrent
    BY DEF CurrentInv, LastWriteIsCurrent
  <2> QED
    BY <2>1 DEF Inv
<1> QED
  BY <1>1, Invariance, PTL

-----------------------------------------------------------------------------
(* What a step does to the wrong files, for WrongFilesAreOwned.            *)

Wrong(f) == disk[f[1]][f[2]] \notin {None, f[2]}

(* t has received a wrong content for file f, and will delete it. *)
Condemns(t, f) ==
  /\ task[t].pc = "fetched" /\ task[t].bundle = f[1] /\ task[t].hash = f[2]
  /\ task[t].sha # f[2]

(* t is putting file f in place. *)
Placing(t, f) ==
  task[t].pc = "placing" /\ task[t].bundle = f[1] /\ task[t].hash = f[2]

(* On iOS, which puts a file in place in one move, a wrong one that lies   *)
(* where a task means to put its own has been put there by another, which  *)
(* will delete it.                                                         *)
PlacedInv ==
  Platform = "ios" =>
    \A f \in Bundles \X Hashes, t \in Tasks :
      Placing(t, f) /\ Wrong(f) => \E u \in Tasks : Condemns(u, f)

FilesOwned ==
  phase' # "down" =>
    \A f \in (WrongFiles' \ Owned') \ (WrongFiles \ Owned) :
      \E t \in Tasks : FailsHalfway(t, f)

(* What a step must do to file f. *)
FileKept(f) ==
  Wrong(f)' =>
    \/ \E t \in Tasks : Condemns(t, f)'
    \/ Platform = "android" /\ \E t \in Tasks : Placing(t, f)'
    \/ Wrong(f) /\ \A t \in Tasks : ~ Condemns(t, f) /\ ~ Placing(t, f) /\ ~ Placing(t, f)'
    \/ \E t \in Tasks : FailsHalfway(t, f)

FilesKept == \A f \in Bundles \X Hashes : FileKept(f)

(* Lemma: that is enough. *)
LEMMA KeptIsOwned == ASSUME FilesKept PROVE FilesOwned /\ PlacedInv'
<1>1. FilesOwned
  <2> SUFFICES ASSUME NEW f \in WrongFiles', f \notin Owned',
                      ~ (f \in WrongFiles /\ f \notin Owned)
               PROVE  \E t \in Tasks : FailsHalfway(t, f)
    BY DEF FilesOwned
  <2>1. f \in Bundles \X Hashes /\ Wrong(f)'
    BY DEF WrongFiles, Wrong
  <2>2. \A t \in Tasks : ~ Condemns(t, f)' /\ ~ Placing(t, f)'
    BY <2>1 DEF Owned, Condemns, Placing
  <2>3. CASE Wrong(f) /\ \A t \in Tasks : ~ Condemns(t, f) /\ ~ Placing(t, f)
    BY <2>1, <2>3 DEF WrongFiles, Wrong, Owned, Condemns, Placing
  <2> QED
    BY <2>1, <2>2, <2>3 DEF FilesKept, FileKept
<1>2. PlacedInv'
  <2> SUFFICES ASSUME Platform = "ios", NEW f \in Bundles \X Hashes, NEW t \in Tasks,
                      Placing(t, f)', Wrong(f)'
               PROVE  \E u \in Tasks : Condemns(u, f)'
    BY DEF PlacedInv
  <2>1. \A u \in Tasks : ~ FailsHalfway(u, f)
    BY DEF FailsHalfway
  <2> QED
    BY <2>1 DEF FilesKept, FileKept
<1> QED
  BY <1>1, <1>2

(* Lemma: a wrong file is kept when those who own it stay and nobody else  *)
(* means to replace it.                                                    *)
LEMMA StayingKeeps ==
  ASSUME PlacedInv, NEW f \in Bundles \X Hashes, Wrong(f)' => Wrong(f),
         \A u \in Tasks : Condemns(u, f) => Condemns(u, f)',
         \A u \in Tasks : Placing(u, f) <=> Placing(u, f)'
  PROVE  FileKept(f)
<1>1. Platform = "android" \/ Platform = "ios"
  BY NativeCacheAssumption
<1>2. CASE \E u \in Tasks : Condemns(u, f)
  BY <1>2 DEF FileKept
<1>3. CASE ~ (\E u \in Tasks : Condemns(u, f)) /\ \E u \in Tasks : Placing(u, f)
  BY <1>1, <1>3 DEF FileKept, PlacedInv
<1>4. CASE ~ \E u \in Tasks : Condemns(u, f) \/ Placing(u, f)
  BY <1>4 DEF FileKept
<1> QED
  BY <1>2, <1>3, <1>4

(* Lemma: so a step of a task that does not own the file keeps it. *)
LEMMA OthersKeep ==
  ASSUME PlacedInv, NEW f \in Bundles \X Hashes, Wrong(f)' => Wrong(f),
         NEW t \in Tasks, OthersStay(t), ~ Condemns(t, f), ~ Placing(t, f), ~ Placing(t, f)'
  PROVE  FileKept(f)
<1>1. ASSUME NEW u \in Tasks, u # t
      PROVE  (Condemns(u, f) <=> Condemns(u, f)') /\ (Placing(u, f) <=> Placing(u, f)')
  BY <1>1 DEF OthersStay, Condemns, Placing
<1> QED
  BY <1>1, StayingKeeps

(* Lemma: a step that makes no file wrong, of a task that owns none before *)
(* or after it, keeps them all.                                            *)
LEMMA NotOwner ==
  ASSUME PlacedInv, NEW t \in Tasks, OthersStay(t),
         task[t].pc \notin {"fetched", "placing"}, task'[t].pc # "placing",
         \A f \in Bundles \X Hashes : Wrong(f)' => Wrong(f)
  PROVE  FilesKept
<1>1. \A f \in Bundles \X Hashes : ~ Condemns(t, f) /\ ~ Placing(t, f) /\ ~ Placing(t, f)'
  BY DEF Condemns, Placing
<1> QED
  BY <1>1, OthersKeep DEF FilesKept

(* Lemma: so does one that moves no task. *)
LEMMA TasksStay ==
  ASSUME PlacedInv, UNCHANGED task, \A f \in Bundles \X Hashes : Wrong(f)' => Wrong(f)
  PROVE  FilesKept
BY StayingKeeps DEF FilesKept, Condemns, Placing

(* Lemma: what a file holds after another one was replaced. *)
LEMMA OtherFiles ==
  ASSUME Inv, NEW b \in Bundles, NEW h \in Hashes, NEW content, Put(b, h, content)
  PROVE  \A f \in Bundles \X Hashes :
           disk'[f[1]][f[2]] = IF f[1] = b /\ f[2] = h THEN content ELSE disk[f[1]][f[2]]
<1> SUFFICES ASSUME NEW f \in Bundles \X Hashes
             PROVE  disk'[f[1]][f[2]] = IF f[1] = b /\ f[2] = h
                                        THEN content ELSE disk[f[1]][f[2]]
  OBVIOUS
<1>1. f[1] \in Bundles /\ f[2] \in Hashes
  OBVIOUS
<1> QED
  BY <1>1 DEF Put, Inv, TypeOK

(* Lemma: deleting a file makes none wrong. *)
LEMMA DeletedIsRight ==
  ASSUME Inv, NEW b \in Bundles, NEW h \in Hashes, Put(b, h, None)
  PROVE  \A f \in Bundles \X Hashes : Wrong(f)' => Wrong(f)
BY OtherFiles DEF Wrong

(* Lemma: whoever means to replace a file deletes it first. *)
LEMMA ReplacesKeeps == ASSUME Inv, PlacedInv, NEW t \in Tasks, Replaces(t) PROVE FilesKept
<1>1. task[t].pc = "fetching" /\ task[t].bundle \in Bundles /\ task[t].hash \in Hashes
  BY DEF Replaces, At, Inv, ShapeInv
<1>2. /\ OthersStay(t) /\ task'[t].bundle = task[t].bundle /\ task'[t].hash = task[t].hash
  BY Gone DEF Replaces, Inv, Places
<1>3. Put(task[t].bundle, task[t].hash, None)
  BY DEF Replaces
<1>4. ASSUME NEW f \in Bundles \X Hashes PROVE FileKept(f)
  <2>1. CASE f[1] = task[t].bundle /\ f[2] = task[t].hash
    <3>1. disk'[f[1]][f[2]] = None
      BY <1>1, <1>3, <2>1, OtherFiles
    <3> QED
      BY <3>1 DEF FileKept, Wrong
  <2>2. CASE ~ (f[1] = task[t].bundle /\ f[2] = task[t].hash)
    <3>1. ~ Condemns(t, f) /\ ~ Placing(t, f) /\ ~ Placing(t, f)'
      BY <1>2, <2>2 DEF Condemns, Placing
    <3>2. Wrong(f)' => Wrong(f)
      BY <1>1, <1>3, DeletedIsRight
    <3> QED
      BY <1>2, <3>1, <3>2, OthersKeep
  <2> QED
    BY <2>1, <2>2
<1> QED
  BY <1>4 DEF FilesKept

(* Lemma: the part of a file that is there belongs to the task that copies *)
(* it.                                                                     *)
LEMMA CopiesKeeps == ASSUME Inv, PlacedInv, NEW t \in Tasks, Copies(t) PROVE FilesKept
<1>1. /\ task[t].pc = "placing" /\ task[t].bundle \in Bundles /\ task[t].hash \in Hashes
      /\ Platform = "android" /\ UNCHANGED task
      /\ Put(task[t].bundle, task[t].hash, Stray)
  BY DEF Copies, At, Inv, ShapeInv
<1>2. ASSUME NEW f \in Bundles \X Hashes PROVE FileKept(f)
  <2>1. CASE f[1] = task[t].bundle /\ f[2] = task[t].hash
    <3>1. Placing(t, f)'
      BY <1>1, <2>1 DEF Placing
    <3> QED
      BY <1>1, <3>1 DEF FileKept
  <2>2. CASE ~ (f[1] = task[t].bundle /\ f[2] = task[t].hash)
    <3>1. Wrong(f)' => Wrong(f)
      BY <1>1, <2>2, OtherFiles DEF Wrong
    <3> QED
      BY <1>1, <3>1, StayingKeeps DEF Condemns, Placing
  <2> QED
    BY <2>1, <2>2
<1> QED
  BY <1>2 DEF FilesKept

(* Lemma: a download that brings a wrong content condemns it; on iOS one   *)
(* that leaves another's wrong content leaves it to the other.             *)
LEMMA DownloadKeeps == ASSUME Inv, PlacedInv, NEW t \in Tasks, Downloads(t) PROVE FilesKept
<1>1. PICK content \in Contents :
        /\ \/ Put(task[t].bundle, task[t].hash, content)
           \/ Platform = "ios" /\ UNCHANGED disk
        /\ task' = [task EXCEPT ![t].pc = "fetched", ![t].sha = content]
  BY Zenon DEF Downloads
<1>2. task[t] \in TaskRecord
  BY DEF Inv, TypeOK
<1>3. /\ task'[t].pc = "fetched" /\ task'[t].sha = content
      /\ task'[t].bundle = task[t].bundle /\ task'[t].hash = task[t].hash
  BY <1>1, <1>2 DEF Inv, TypeOK, TaskRecord
<1>4. OthersStay(t)
  BY <1>1 DEF Inv, TypeOK, OthersStay
<1>5. task[t].pc = "placing" /\ task[t].bundle \in Bundles /\ task[t].hash \in Hashes
  BY DEF Downloads, At, Inv, ShapeInv
<1>6. ASSUME NEW f \in Bundles \X Hashes,
             ~ (f[1] = task[t].bundle /\ f[2] = task[t].hash)
      PROVE  FileKept(f)
  <2>1. Wrong(f)' => Wrong(f)
    BY <1>1, <1>5, <1>6, OtherFiles DEF Wrong
  <2>2. ~ Condemns(t, f) /\ ~ Placing(t, f) /\ ~ Placing(t, f)'
    BY <1>3, <1>6 DEF Condemns, Placing
  <2> QED
    BY <1>4, <2>1, <2>2, OthersKeep
<1>7. ASSUME NEW f \in Bundles \X Hashes, f[1] = task[t].bundle, f[2] = task[t].hash
      PROVE  FileKept(f)
  <2>1. CASE Put(task[t].bundle, task[t].hash, content)
    <3>1. disk'[f[1]][f[2]] = content
      BY <1>5, <1>7, <2>1, OtherFiles
    <3>2. Wrong(f)' => Condemns(t, f)'
      BY <1>3, <1>7, <3>1 DEF Wrong, Condemns
    <3> QED
      BY <3>2 DEF FileKept
  <2>2. CASE Platform = "ios" /\ UNCHANGED disk
    <3>1. Placing(t, f) /\ (Wrong(f)' => Wrong(f))
      BY <1>5, <1>7, <2>2 DEF Placing, Wrong
    <3>2. ASSUME Wrong(f)' PROVE \E u \in Tasks : Condemns(u, f)'
      <4>1. PICK u \in Tasks : Condemns(u, f)
        BY <2>2, <3>1, <3>2 DEF PlacedInv
      <4>2. u # t
        BY <1>5, <4>1 DEF Condemns
      <4>3. task'[u] = task[u]
        BY <1>4, <4>2 DEF OthersStay
      <4> QED
        BY <4>1, <4>3 DEF Condemns
    <3> QED
      BY <3>2 DEF FileKept
  <2> QED
    BY <1>1, <2>1, <2>2
<1> QED
  BY <1>6, <1>7 DEF FilesKept

(* Lemma: a download that fails keeps the other files, and its own unless  *)
(* it fails half-way.                                                      *)
LEMMA FailureKeeps == ASSUME Inv, PlacedInv, NEW t \in Tasks, DownloadFails(t) PROVE FilesKept
<1>1. OthersStay(t) /\ task'[t].pc \in {"idle", "asking"}
  BY Finished DEF DownloadFails, Inv
<1>2. task[t].pc \in {"fetching", "placing"} /\ task[t].bundle \in Bundles /\ task[t].hash \in Hashes
  BY DEF DownloadFails, At, Inv, ShapeInv
<1>3. UNCHANGED disk \/ Put(task[t].bundle, task[t].hash, None)
  BY DEF DownloadFails
<1>4. \A f \in Bundles \X Hashes : Wrong(f)' => Wrong(f)
  BY <1>2, <1>3, DeletedIsRight DEF Wrong
<1>5. CASE task[t].pc = "fetching"
  BY <1>1, <1>4, <1>5, NotOwner
<1>6. CASE task[t].pc = "placing"
  <2> SUFFICES ASSUME NEW f \in Bundles \X Hashes PROVE FileKept(f)
    BY DEF FilesKept
  <2>1. CASE Placing(t, f)
    <3>1. CASE Platform = "android"
      <4>1. FailsHalfway(t, f)
        BY <1>1, <2>1, <3>1 DEF FailsHalfway, Placing
      <4> QED
        BY <4>1 DEF FileKept
    <3>2. CASE disk[task[t].bundle][task[t].hash] = None /\ UNCHANGED disk
      BY <2>1, <3>2 DEF FileKept, Wrong, Placing
    <3> QED
      BY <1>6, <3>1, <3>2 DEF DownloadFails, At
  <2>2. CASE ~ Placing(t, f)
    <3>1. ~ Condemns(t, f) /\ ~ Placing(t, f)'
      BY <1>1, <1>6 DEF Condemns, Placing
    <3> QED
      BY <1>1, <1>4, <2>2, <3>1, OthersKeep
  <2> QED
    BY <2>1, <2>2
<1> QED
  BY <1>2, <1>5, <1>6

(* Lemma: the file of a wrong content is gone when its task goes on. *)
LEMMA MismatchKeeps == ASSUME Inv, PlacedInv, NEW t \in Tasks, Mismatches(t) PROVE FilesKept
<1>1. /\ task[t].pc = "fetched" /\ task[t].bundle \in Bundles /\ task[t].hash \in Hashes
      /\ Put(task[t].bundle, task[t].hash, None)
  BY DEF Mismatches, At, Inv, ShapeInv
<1>2. OthersStay(t) /\ task'[t].pc \in {"idle", "asking"}
  BY Finished DEF Mismatches, Inv
<1>3. ASSUME NEW f \in Bundles \X Hashes PROVE FileKept(f)
  <2>1. CASE Condemns(t, f)
    <3>1. disk'[f[1]][f[2]] = None
      BY <1>1, <2>1, OtherFiles DEF Condemns
    <3> QED
      BY <3>1 DEF FileKept, Wrong
  <2>2. CASE ~ Condemns(t, f)
    <3>1. ~ Placing(t, f) /\ ~ Placing(t, f)'
      BY <1>1, <1>2 DEF Placing
    <3>2. Wrong(f)' => Wrong(f)
      BY <1>1, DeletedIsRight
    <3> QED
      BY <1>2, <2>2, <3>1, <3>2, OthersKeep
  <2> QED
    BY <2>1, <2>2
<1> QED
  BY <1>3 DEF FilesKept

(* Lemma: whoever saves what it received condemns nothing. *)
LEMMA SavesKeeps == ASSUME Inv, PlacedInv, NEW t \in Tasks, Saves(t) PROVE FilesKept
<1>1. /\ task[t].pc = "fetched" /\ task[t].sha = task[t].hash /\ UNCHANGED disk
      /\ OthersStay(t) /\ task'[t].pc = "saving"
  BY DEF Saves, At, Inv, TypeOK, TaskRecord, OthersStay
<1>2. ASSUME NEW f \in Bundles \X Hashes PROVE FileKept(f)
  <2>1. ~ Condemns(t, f) /\ ~ Placing(t, f) /\ ~ Placing(t, f)'
    BY <1>1 DEF Condemns, Placing
  <2>2. Wrong(f)' => Wrong(f)
    BY <1>1 DEF Wrong
  <2> QED
    BY <1>1, <2>1, <2>2, OthersKeep
<1> QED
  BY <1>2 DEF FilesKept

(* Lemma: no other step of a task makes a file wrong. *)
LEMMA TaskKeeps == ASSUME Inv, PlacedInv, NEW t \in Tasks, Task(t) PROVE FilesKept
<1> USE DEF Inv
<1>1. ASSUME UNCHANGED disk PROVE \A f \in Bundles \X Hashes : Wrong(f)' => Wrong(f)
  BY <1>1 DEF Wrong
<1>2. CASE Hits(t)
  <2>1. OthersStay(t) /\ task'[t].pc # "placing"
    BY <1>2, Finished, Proceeded DEF Hits, Places
  <2> QED
    BY <1>1, <1>2, <2>1, NotOwner DEF Hits, At
<1>3. CASE Misses(t) \/ Drops(t)
  <2>1. OthersStay(t) /\ task'[t].pc # "placing"
    BY <1>3, Proceeded DEF Misses, Drops, Places
  <2> QED
    BY <1>1, <1>3, <2>1, NotOwner DEF Misses, Drops, At
<1>4. CASE FindsNone(t)
  <2>1. OthersStay(t) /\ task'[t].pc # "placing"
    BY <1>4, Gone DEF FindsNone, Places
  <2> QED
    BY <1>1, <1>4, <2>1, NotOwner DEF FindsNone, At
<1>5. CASE Purges(t)
  <2>1. OthersStay(t) /\ task[t].pc \notin {"fetched", "placing"} /\ task'[t].pc # "placing"
    BY <1>5, Proceeded DEF Purges, Saved, Places, At
  <2>2. task[t].bundle \in Bundles /\ task[t].seen \in Hashes
    BY <1>5 DEF Purges, At, ShapeInv
  <2> QED
    BY <1>5, <2>1, <2>2, DeletedIsRight, NotOwner DEF Purges
<1> QED
  BY <1>2, <1>3, <1>4, <1>5, ReplacesKeeps, CopiesKeeps, DownloadKeeps, FailureKeeps,
     MismatchKeeps, SavesKeeps DEF Task

(* Lemma: the start and the end of a load make no file wrong. *)
LEMMA LoadKeeps ==
  ASSUME Inv, PlacedInv, NEW b \in Bundles, LoadStarts(b) \/ LoadReads(b) PROVE FilesKept
<1> USE DEF Inv
<1>1. UNCHANGED disk /\ task[b].pc \notin {"fetched", "placing"}
  BY DEF LoadStarts, LoadReads, At
<1>2. \A f \in Bundles \X Hashes : Wrong(f)' => Wrong(f)
  BY <1>1 DEF Wrong
<1>3. b \in Tasks
  BY DEF Tasks
<1>4. OthersStay(b) /\ task'[b].pc # "placing"
  <2>1. CASE LoadStarts(b)
    <3>1. expected[b] \in Hashes
      BY <2>1 DEF LoadStarts, TypeOK, Index
    <3> QED
      BY <1>3, <2>1, <3>1, LookedUp DEF LoadStarts
  <2>2. CASE LoadReads(b)
    BY <1>3, <2>2, Finished DEF LoadReads
  <2> QED
    BY <2>1, <2>2
<1> QED
  BY <1>1, <1>2, <1>3, <1>4, NotOwner

(* Lemma: nor do the steps of the update check's own. *)
LEMMA PollKeeps ==
  ASSUME Inv, PlacedInv,
         \/ PollStarts \/ PollEnds \/ PollCounts
         \/ \E b \in Bundles, h \in Hashes : PollTurns(b, h)
  PROVE  FilesKept
<1> USE DEF Inv
<1>1. UNCHANGED disk /\ task[Poll].pc \notin {"fetched", "placing"}
  BY DEF PollStarts, PollEnds, PollCounts, PollTurns, At
<1>2. \A f \in Bundles \X Hashes : Wrong(f)' => Wrong(f)
  BY <1>1 DEF Wrong
<1>3. Poll \in Tasks
  BY DEF Tasks
<1>4. OthersStay(Poll) /\ task'[Poll].pc # "placing"
  <2>1. CASE PollStarts
    BY <1>3, <2>1, Gone DEF PollStarts, Places
  <2>2. CASE PollEnds
    BY <1>3, <2>2 DEF PollEnds, OthersStay, IdleTask, TypeOK
  <2>3. CASE PollCounts
    BY <1>3, <2>3, Finished DEF PollCounts
  <2>4. ASSUME NEW b \in Bundles, NEW h \in Hashes, PollTurns(b, h) PROVE <1>4!:
    BY <1>3, <2>4, LookedUp DEF PollTurns
  <2> QED
    BY <2>1, <2>2, <2>3, <2>4
<1> QED
  BY <1>1, <1>2, <1>3, <1>4, NotOwner

(* Lemma: who awaited a write has received nothing wrong. *)
LEMMA WriterKeeps == ASSUME Inv, PlacedInv, Writer PROVE FilesKept
<1> USE DEF Inv
<1>1. UNCHANGED disk
  BY DEF Writer, WriteStarts, WriteEnds
<1>2. \A f \in Bundles \X Hashes : Wrong(f)' => Wrong(f)
  BY <1>1 DEF Wrong
<1>3. CASE UNCHANGED task
  BY <1>2, <1>3, TasksStay
<1>4. ASSUME NEW persisted \in BOOLEAN, WriteEnds(persisted), ~ UNCHANGED task
      PROVE  FilesKept
  <2>1. Head(writes) # Nobody /\ Goto(Head(writes), After(Head(writes), persisted))
    BY <1>4 DEF WriteEnds
  <2>2. writes # <<>>
    BY <1>4 DEF WriteEnds, DownInv
  <2>3. Head(writes) \in Tasks /\ Head(writes) = writes[1] /\ 1 \in 1 .. Len(writes)
    BY <2>1, <2>2 DEF TypeOK
  <2>4. task[Head(writes)].pc \in {"saving", "dropping"}
    BY <2>3 DEF EveryWaiterIsQueued
  <2>5. After(Head(writes), persisted) \in Places \ {"placing"}
    BY <2>4 DEF After, Saved, Places
  <2>6. OthersStay(Head(writes)) /\ task'[Head(writes)].pc # "placing"
    BY <2>1, <2>3, <2>5, Gone
  <2> QED
    BY <1>2, <2>3, <2>4, <2>6, NotOwner
<1> QED
  BY <1>3, <1>4 DEF Writer, WriteStarts

(* Lemma: every step but the end of the process keeps every file. *)
LEMMA StepKeeps ==
  ASSUME Inv, PlacedInv, Next, ~ PollApplies, ~ Crash PROVE FilesKept
<1>1. ASSUME UNCHANGED <<task, disk>> PROVE FilesKept
  BY <1>1, TasksStay DEF Wrong
<1>2. CASE Recover \/ Ready
  BY <1>1, <1>2 DEF Recover, Ready
<1>3. ASSUME NEW b \in Bundles, Evict(b) PROVE FilesKept
  <2>1. index[b] \in Hashes /\ Put(b, index[b], None) /\ UNCHANGED task
    BY <1>3 DEF Evict, Inv, TypeOK, Index
  <2> QED
    BY <2>1, DeletedIsRight, TasksStay
<1>4. ASSUME NEW b \in Bundles, LoadSkips(b) PROVE FilesKept
  BY <1>1, <1>4 DEF LoadSkips
<1>5. ASSUME NEW b \in Bundles, NEW h \in Hashes, Register(b, h) PROVE FilesKept
  BY <1>1, <1>5 DEF Register
<1>6. ASSUME NEW b \in Bundles, ClearDeletes(b) PROVE FilesKept
  <2>1. CASE index[b] = None
    BY <1>1, <1>6, <2>1 DEF ClearDeletes
  <2>2. CASE index[b] # None
    <3>1. index[b] \in Hashes /\ Put(b, index[b], None) /\ UNCHANGED task
      BY <1>6, <2>2 DEF ClearDeletes, Inv, TypeOK, Index
    <3> QED
      BY <3>1, DeletedIsRight, TasksStay
  <2> QED
    BY <2>1, <2>2
<1>7. CASE ClearStarts \/ ClearForgets \/ ClearWaits \/ ClearEnds
  BY <1>1, <1>7 DEF ClearStarts, ClearForgets, ClearWaits, ClearEnds
<1> QED
  BY <1>2, <1>3, <1>4, <1>5, <1>6, <1>7, LoadKeeps, PollKeeps, TaskKeeps, WriterKeeps
     DEF Next, Clear

(* Lemma: PlacedInv holds in every state. *)
LEMMA PlacedInvariance == Spec => []PlacedInv
<1>1. Init => PlacedInv
  BY DEF Init, PlacedInv, Placing, IdleTask
<1>2. ASSUME Inv, PlacedInv, [Next]_vars PROVE PlacedInv'
  <2>1. CASE UNCHANGED vars
    BY <1>2, <2>1 DEF vars, PlacedInv, Placing, Wrong, Condemns
  <2>2. CASE PollApplies \/ Crash
    BY <2>2 DEF PollApplies, Crash, Restart, PlacedInv, Placing, IdleTask
  <2>3. CASE Next /\ ~ PollApplies /\ ~ Crash
    BY <1>2, <2>3, StepKeeps, KeptIsOwned
  <2> QED
    BY <1>2, <2>1, <2>2, <2>3
<1> QED
  BY <1>1, <1>2, Invariance, PTL DEF Spec

(* Theorem: on either platform, whatever downloads overlap on one file, a  *)
(* content of the wrong hash is there only while a task is putting the     *)
(* file in place or goes on to delete it; what leaves one behind is a copy *)
(* that fails half-way, which only Android makes, or the process's end.    *)
THEOREM WrongFilesHaveOwners == Spec => WrongFilesAreOwned
<1>1. ASSUME Inv, PlacedInv, [Next]_vars PROVE [FilesOwned]_vars
  <2>1. CASE PollApplies \/ Crash
    BY <2>1 DEF PollApplies, Crash, Restart, FilesOwned
  <2>2. CASE Next /\ ~ PollApplies /\ ~ Crash
    BY <1>1, <2>2, StepKeeps, KeptIsOwned
  <2> QED
    BY <1>1, <2>1, <2>2
<1> QED
  BY <1>1, Invariance, PlacedInvariance, PTL DEF Spec, WrongFilesAreOwned, FilesOwned

-----------------------------------------------------------------------------
(* Who has saved what, for KnownGoodIsKept.  ws is a chain of writes and   *)
(* ts the tasks.                                                           *)

(* The j-th write is awaited by a task that saves hash h of bundle b. *)
SavesAt(ws, ts, j, b, h) ==
  /\ j \in 1 .. Len(ws) /\ ws[j] \in Tasks
  /\ ts[ws[j]].pc = "saving" /\ ts[ws[j]].bundle = b /\ ts[ws[j]].hash = h

(* If the i-th write is awaited by a task that saves, view has no entry    *)
(* for its bundle, or one that it or a later one in the chain has saved.   *)
Accounted(ws, ts, i, view) ==
  \A b \in Bundles, h \in Hashes :
    SavesAt(ws, ts, i, b, h) =>
      view[b] = None \/ \E j \in i .. Len(ws) : SavesAt(ws, ts, j, b, view[b])

SaverInv ==
  /\ \A i \in 1 .. Len(writes) : Accounted(writes, task, i, index)
  /\ snapshot # None => Accounted(writes, task, 1, snapshot)

(* t saves after the step what it saved before it. *)
SavesOn(t) ==
  /\ task'[t].pc = "saving" <=> task[t].pc = "saving"
  /\ task[t].pc = "saving" => /\ task'[t].bundle = task[t].bundle
                              /\ task'[t].hash = task[t].hash

(* Lemma: an empty chain accounts for itself. *)
LEMMA NobodySaves ==
  ASSUME writes' = <<>>, snapshot' = None PROVE SaverInv'
BY DEF SaverInv

(* Lemma: dropping entries, and adding a write of one who saves nothing,   *)
(* leaves every write accounted for.                                       *)
LEMMA AccountKept ==
  ASSUME TypeOK, SaverInv, UNCHANGED snapshot, \A t \in Tasks : SavesOn(t),
         \A b \in Bundles : index'[b] \in {index[b], None},
         \/ UNCHANGED writes
         \/ \E w \in Tasks \union {Nobody} :
              /\ writes' = Append(writes, w)
              /\ w \in Tasks => task[w].pc # "saving"
  PROVE  SaverInv'
<1>1. /\ Len(writes) \in Nat /\ Len(writes') \in Nat /\ Len(writes) <= Len(writes')
      /\ \A j \in 1 .. Len(writes) : writes'[j] = writes[j]
      /\ \A j \in 1 .. Len(writes') : j > Len(writes) /\ writes'[j] \in Tasks =>
                                        task[writes'[j]].pc # "saving"
  <2>1. CASE UNCHANGED writes
    BY <2>1 DEF TypeOK
  <2>2. ASSUME NEW w \in Tasks \union {Nobody}, writes' = Append(writes, w),
               w \in Tasks => task[w].pc # "saving"
        PROVE  <1>1!:
    BY <2>2, Appended
  <2> QED
    BY <2>1, <2>2
<1>2. \A j, b, h : SavesAt(writes', task', j, b, h) <=> SavesAt(writes, task, j, b, h)
  BY <1>1 DEF SavesAt, SavesOn
<1>3. \A i, v : Accounted(writes, task, i, v) => Accounted(writes', task', i, v)
  <2> SUFFICES ASSUME NEW i, NEW v, Accounted(writes, task, i, v),
                      NEW b \in Bundles, NEW h \in Hashes,
                      SavesAt(writes', task', i, b, h), v[b] # None
               PROVE  \E j \in i .. Len(writes') : SavesAt(writes', task', j, b, v[b])
    BY DEF Accounted
  <2>1. SavesAt(writes, task, i, b, h) /\ i \in 1 .. Len(writes)
    <3>1. SavesAt(writes, task, i, b, h)
      BY <1>2
    <3> QED
      BY <3>1 DEF SavesAt
  <2>2. PICK j \in i .. Len(writes) : SavesAt(writes, task, j, b, v[b])
    BY <2>1 DEF Accounted
  <2> QED
    BY <1>1, <1>2, <2>1, <2>2
<1>4. ASSUME NEW i \in 1 .. Len(writes') PROVE Accounted(writes', task', i, index')
  <2> SUFFICES ASSUME NEW b \in Bundles, NEW h \in Hashes,
                      SavesAt(writes', task', i, b, h), index'[b] # None
               PROVE  \E j \in i .. Len(writes') : SavesAt(writes', task', j, b, index'[b])
    BY DEF Accounted
  <2>1. index'[b] = index[b] /\ i \in 1 .. Len(writes)
    BY <1>2 DEF SavesAt
  <2>2. Accounted(writes', task', i, index)
    BY <1>3, <2>1 DEF SaverInv
  <2> QED
    BY <2>1, <2>2 DEF Accounted
<1>5. snapshot' # None => Accounted(writes', task', 1, snapshot')
  BY <1>3 DEF SaverInv
<1> QED
  BY <1>4, <1>5 DEF SaverInv

(* Lemma: the same for a step of one task that saves nothing. *)
LEMMA TaskKeepsAccount ==
  ASSUME Inv, SaverInv, NEW t \in Tasks, OthersStay(t), UNCHANGED snapshot,
         task[t].pc # "saving", task'[t].pc # "saving",
         \A b \in Bundles : index'[b] \in {index[b], None},
         UNCHANGED writes \/ writes' = Append(writes, t) \/ writes' = Append(writes, Nobody)
  PROVE  SaverInv'
<1>1. \A u \in Tasks : SavesOn(u)
  BY DEF SavesOn, OthersStay
<1>2. Nobody \notin Tasks
  BY NativeCacheAssumption DEF Tasks
<1> QED
  BY <1>1, <1>2, AccountKept DEF Inv

(* Lemma: a task that saves accounts for the entry it makes, and so for    *)
(* those before it in the chain.                                           *)
LEMMA SavesAccount == ASSUME Inv, SaverInv, NEW t \in Tasks, Saves(t) PROVE SaverInv'
<1> DEFINE b == task[t].bundle
           h == task[t].hash
           n == Len(writes) + 1
<1>1. b \in Bundles /\ h \in Hashes /\ index \in [Bundles -> Hashes \union {None}]
  BY DEF Inv, ShapeInv, TypeOK, Index, Saves, At
<1>2. /\ Len(writes') = n /\ Len(writes) \in Nat
      /\ \A j \in 1 .. Len(writes) : writes'[j] = writes[j]
      /\ writes'[n] = t
  BY Appended DEF Saves, Inv
<1>3. /\ OthersStay(t) /\ task[t].pc # "saving"
      /\ task'[t].pc = "saving" /\ task'[t].bundle = b /\ task'[t].hash = h
  BY DEF Saves, At, OthersStay, Inv, TypeOK, TaskRecord
<1>4. index' = [index EXCEPT ![b] = h] /\ UNCHANGED snapshot
  BY DEF Saves
<1> HIDE DEF b, h
<1>5. SavesAt(writes', task', n, b, h)
  BY <1>2, <1>3 DEF SavesAt
<1>6. \A j \in 1 .. Len(writes) : \A c, k :
        SavesAt(writes', task', j, c, k) <=> SavesAt(writes, task, j, c, k)
  <2>1. \A j \in 1 .. Len(writes) : writes[j] # t
    BY DEF Saves, At, Inv, EveryWaiterIsQueued
  <2> QED
    BY <1>2, <1>3, <2>1 DEF SavesAt, OthersStay
<1>7. \A i \in 1 .. Len(writes) : \A v :
        Accounted(writes, task, i, v) => Accounted(writes', task', i, v)
  <2> SUFFICES ASSUME NEW i \in 1 .. Len(writes), NEW v, Accounted(writes, task, i, v),
                      NEW c \in Bundles, NEW k \in Hashes,
                      SavesAt(writes', task', i, c, k), v[c] # None
               PROVE  \E j \in i .. Len(writes') : SavesAt(writes', task', j, c, v[c])
    BY DEF Accounted
  <2>1. PICK j \in i .. Len(writes) : SavesAt(writes, task, j, c, v[c])
    BY <1>6 DEF Accounted
  <2> QED
    BY <1>2, <1>6, <2>1
<1>8. ASSUME NEW i \in 1 .. Len(writes') PROVE Accounted(writes', task', i, index')
  <2> SUFFICES ASSUME NEW c \in Bundles, NEW k \in Hashes,
                      SavesAt(writes', task', i, c, k), index'[c] # None
               PROVE  \E j \in i .. Len(writes') : SavesAt(writes', task', j, c, index'[c])
    BY DEF Accounted
  <2>1. CASE c = b
    BY <1>1, <1>2, <1>4, <1>5, <2>1
  <2>2. CASE c # b
    <3>1. index'[c] = index[c]
      BY <1>1, <1>4, <2>2
    <3>2. i \in 1 .. Len(writes)
      <4>1. i # n
        BY <1>2, <1>3, <2>2 DEF SavesAt
      <4> QED
        BY <1>2, <4>1
    <3>3. Accounted(writes', task', i, index)
      BY <1>7, <3>2 DEF SaverInv
    <3> QED
      BY <3>1, <3>3 DEF Accounted
  <2> QED
    BY <2>1, <2>2
<1>9. snapshot' # None => Accounted(writes', task', 1, snapshot')
  <2> SUFFICES ASSUME snapshot # None PROVE Accounted(writes', task', 1, snapshot)
    BY <1>4
  <2>1. 1 \in 1 .. Len(writes)
    BY DEF Inv, DownInv, TypeOK
  <2> QED
    BY <1>7, <2>1 DEF SaverInv
<1> QED
  BY <1>8, <1>9 DEF SaverInv

(* Lemma: the end of a write leaves the others accounted for. *)
LEMMA WriteEndsAccount ==
  ASSUME Inv, SaverInv, NEW persisted \in BOOLEAN, WriteEnds(persisted) PROVE SaverInv'
<1>1. /\ Len(writes') = Len(writes) - 1 /\ Len(writes) \in Nat \ {0}
      /\ \A j \in 1 .. Len(writes') : writes'[j] = writes[j + 1]
      /\ Head(writes) = writes[1]
  BY DEF WriteEnds, Inv, DownInv, TypeOK
<1>2. \A u \in Tasks : u # writes[1] => task'[u] = task[u]
  <2>1. CASE Head(writes) = Nobody
    BY <2>1 DEF WriteEnds
  <2>2. CASE Head(writes) # Nobody
    BY <1>1, <2>2 DEF WriteEnds, Goto, Inv, TypeOK
  <2> QED
    BY <2>1, <2>2
<1>3. \A j \in 1 .. Len(writes') : writes[j + 1] \in Tasks => writes[j + 1] # writes[1]
  <2>1. Nobody \notin Tasks
    BY NativeCacheAssumption DEF Tasks
  <2> QED
    BY <1>1, <2>1 DEF Inv, EveryWaiterIsQueued
<1>4. \A j \in 1 .. Len(writes') : \A b, h :
        SavesAt(writes', task', j, b, h) <=> SavesAt(writes, task, j + 1, b, h)
  BY <1>1, <1>2, <1>3 DEF SavesAt
<1>5. ASSUME NEW i \in 1 .. Len(writes') PROVE Accounted(writes', task', i, index')
  <2> SUFFICES ASSUME NEW b \in Bundles, NEW h \in Hashes,
                      SavesAt(writes', task', i, b, h), index[b] # None
               PROVE  \E j \in i .. Len(writes') : SavesAt(writes', task', j, b, index[b])
    BY DEF Accounted, WriteEnds
  <2>1. i + 1 \in 1 .. Len(writes)
    BY <1>1
  <2>2. SavesAt(writes, task, i + 1, b, h) /\ Accounted(writes, task, i + 1, index)
    BY <1>4, <2>1 DEF SaverInv
  <2>3. PICK j \in i + 1 .. Len(writes) : SavesAt(writes, task, j, b, index[b])
    BY <2>2 DEF Accounted
  <2>4. j - 1 \in i .. Len(writes') /\ j - 1 \in 1 .. Len(writes') /\ (j - 1) + 1 = j
    BY <1>1, <2>3
  <2> QED
    BY <1>4, <2>3, <2>4
<1> QED
  BY <1>5 DEF SaverInv, WriteEnds

(* Lemma: a step of a task leaves every write accounted for. *)
LEMMA TaskAccount == ASSUME Inv, SaverInv, NEW t \in Tasks, Task(t) PROVE SaverInv'
<1> USE DEF Inv
<1>1. ASSUME OthersStay(t), task[t].pc # "saving", task'[t].pc # "saving",
             UNCHANGED <<snapshot, index, writes>>
      PROVE  SaverInv'
  BY <1>1, TaskKeepsAccount
<1>2. CASE Hits(t)
  <2>1. CASE t = Poll
    <3>1. OthersStay(t) /\ task[t].pc # "saving" /\ task'[t].pc # "saving"
      BY <1>2, <2>1, Finished DEF Hits, At
    <3> QED
      BY <1>1, <1>2, <2>1, <3>1 DEF Hits
  <2>2. CASE t # Poll
    <3>1. OthersStay(t) /\ task[t].pc # "saving" /\ task'[t].pc # "saving"
      BY <1>2, <2>2, Proceeded DEF Hits, At, Places
    <3> QED
      BY <1>2, <2>2, <3>1, TaskKeepsAccount DEF Hits
  <2> QED
    BY <2>1, <2>2
<1>3. CASE Misses(t) \/ Purges(t)
  <2>1. PICK pc \in {"fetching", "reading", "counting"} : Proceed(t, pc)
    BY <1>3 DEF Misses, Purges, Saved
  <2>2. OthersStay(t) /\ task[t].pc # "saving" /\ task'[t].pc # "saving"
    BY <1>3, <2>1, Proceeded DEF Misses, Purges, At, Places
  <2> QED
    BY <1>1, <1>3, <2>2 DEF Misses, Purges
<1>4. CASE FindsNone(t)
  <2>1. OthersStay(t) /\ task[t].pc # "saving" /\ task'[t].pc # "saving"
    BY <1>4, Gone DEF FindsNone, At, Places
  <2> QED
    BY <1>1, <1>4, <2>1 DEF FindsNone
<1>5. CASE Drops(t)
  <2>1. OthersStay(t) /\ task[t].pc # "saving" /\ task'[t].pc # "saving"
    BY <1>5, Proceeded DEF Drops, At, Places
  <2>2. \A b \in Bundles : index'[b] \in {index[b], None}
    BY <1>5 DEF Drops, TypeOK, Index
  <2> QED
    BY <1>5, <2>1, <2>2, TaskKeepsAccount DEF Drops
<1>6. CASE Downloads(t)
  <2>1. OthersStay(t) /\ task[t].pc # "saving" /\ task'[t].pc # "saving"
    BY <1>6 DEF Downloads, At, OthersStay, TypeOK, TaskRecord
  <2> QED
    BY <1>1, <1>6, <2>1 DEF Downloads
<1>7. CASE DownloadFails(t) \/ Mismatches(t)
  <2>1. OthersStay(t) /\ task[t].pc # "saving" /\ task'[t].pc # "saving"
    BY <1>7, Finished DEF DownloadFails, Mismatches, At
  <2> QED
    BY <1>1, <1>7, <2>1 DEF DownloadFails, Mismatches
<1>8. CASE Replaces(t)
  <2>1. OthersStay(t) /\ task[t].pc # "saving" /\ task'[t].pc # "saving"
    BY <1>8, Gone DEF Replaces, At, Places
  <2> QED
    BY <1>1, <1>8, <2>1 DEF Replaces
<1>9. CASE Copies(t)
  <2>1. OthersStay(t) /\ task[t].pc # "saving" /\ task'[t].pc # "saving"
    BY <1>9 DEF Copies, At, OthersStay
  <2> QED
    BY <1>1, <1>9, <2>1 DEF Copies
<1> QED
  BY <1>2, <1>3, <1>4, <1>5, <1>6, <1>7, <1>8, <1>9, SavesAccount DEF Task

(* Lemma: every write is accounted for in every state. *)
LEMMA AccountInduction == Inv /\ SaverInv /\ [Next]_vars => SaverInv'
<1> SUFFICES ASSUME Inv, SaverInv, [Next]_vars PROVE SaverInv'
  OBVIOUS
<1>1. ASSUME UNCHANGED <<task, writes, snapshot>>,
             \A b \in Bundles : index'[b] \in {index[b], None}
      PROVE  SaverInv'
  BY <1>1, AccountKept DEF SavesOn, Inv
<1>2. ASSUME phase # "up", UNCHANGED <<writes, snapshot>> PROVE SaverInv'
  BY <1>2, NobodySaves DEF Inv, DownInv
<1>3. CASE UNCHANGED vars
  BY <1>1, <1>3 DEF vars
<1>4. CASE Recover \/ Ready
  BY <1>2, <1>4 DEF Recover, Ready
<1>5. ASSUME NEW b \in Bundles, Evict(b) PROVE SaverInv'
  BY <1>2, <1>5 DEF Evict
<1>6. ASSUME NEW b \in Bundles, LoadSkips(b) PROVE SaverInv'
  BY <1>1, <1>6 DEF LoadSkips
<1>7. ASSUME NEW b \in Bundles, NEW h \in Hashes, Register(b, h) PROVE SaverInv'
  BY <1>1, <1>7 DEF Register
<1>8. ASSUME NEW b \in Bundles, LoadStarts(b) \/ LoadReads(b) PROVE SaverInv'
  <2>1. b \in Tasks
    BY DEF Tasks
  <2>2. OthersStay(b) /\ task[b].pc # "saving" /\ task'[b].pc # "saving"
    <3>1. CASE LoadStarts(b)
      <4>1. expected[b] \in Hashes
        BY <3>1 DEF LoadStarts, Inv, TypeOK, Index
      <4> QED
        BY <2>1, <3>1, <4>1, LookedUp DEF LoadStarts, At, Inv
    <3>2. CASE LoadReads(b)
      BY <2>1, <3>2, Finished DEF LoadReads, At, Inv
    <3> QED
      BY <1>8, <3>1, <3>2
  <2> QED
    BY <1>8, <2>1, <2>2, TaskKeepsAccount DEF LoadStarts, LoadReads
<1>9. CASE \/ PollStarts \/ PollEnds \/ PollCounts
           \/ \E b \in Bundles, h \in Hashes : PollTurns(b, h)
  <2>1. Poll \in Tasks
    BY DEF Tasks
  <2>2. OthersStay(Poll) /\ task[Poll].pc # "saving" /\ task'[Poll].pc # "saving"
    <3>1. CASE PollStarts
      BY <2>1, <3>1, Gone DEF PollStarts, At, Places, Inv
    <3>2. CASE PollEnds
      BY <2>1, <3>2 DEF PollEnds, At, OthersStay, IdleTask, Inv, TypeOK
    <3>3. CASE PollCounts
      BY <2>1, <3>3, Finished DEF PollCounts, At, Inv
    <3>4. ASSUME NEW b \in Bundles, NEW h \in Hashes, PollTurns(b, h) PROVE <2>2!:
      BY <2>1, <3>4, LookedUp DEF PollTurns, At, Inv
    <3> QED
      BY <1>9, <3>1, <3>2, <3>3, <3>4
  <2> QED
    BY <1>9, <2>1, <2>2, TaskKeepsAccount DEF PollStarts, PollEnds, PollCounts, PollTurns
<1>10. CASE PollApplies \/ Crash
  BY <1>10, NobodySaves DEF PollApplies, Crash, Restart
<1>11. CASE WriteStarts
  <2>1. 1 \in 1 .. Len(writes)
    BY <1>11 DEF WriteStarts, Inv, TypeOK
  <2> QED
    BY <1>11, <2>1 DEF WriteStarts, SaverInv
<1>12. CASE ClearStarts \/ ClearWaits \/ ClearEnds
  BY <1>1, <1>12 DEF ClearStarts, ClearWaits, ClearEnds
<1>13. ASSUME NEW b \in Bundles, ClearDeletes(b) PROVE SaverInv'
  BY <1>1, <1>13 DEF ClearDeletes
<1>14. CASE ClearForgets
  BY <1>1, <1>14 DEF ClearForgets, Inv, TypeOK, Index
<1> QED
  BY <1>3, <1>4, <1>5, <1>6, <1>7, <1>8, <1>9, <1>10, <1>11, <1>12, <1>13, <1>14,
     TaskAccount, WriteEndsAccount DEF Next, Writer, Clear

(* What KnownGoodIsKept says of a step. *)
KnownGood ==
  \A t \in Tasks :
    LET b == task[t].bundle
        old == task[t].seen
    IN task[t].pc = "saving" /\ task'[t].pc = "purging" /\ manifest'[b] = old =>
         \E u \in Tasks : /\ task[u].pc = "saving"
                          /\ task[u].bundle = b
                          /\ task[u].hash = old

(* Lemma: a task starts to delete a file only when its write has persisted *)
(* a view of the index, and what that view names is accounted for.         *)
LEMMA PurgeIsRight ==
  ASSUME Inv, SaverInv, Platform = "android", NEW persisted \in BOOLEAN, WriteEnds(persisted)
  PROVE  KnownGood
<1> SUFFICES ASSUME NEW t \in Tasks, task[t].pc = "saving", task'[t].pc = "purging",
                    manifest'[task[t].bundle] = task[t].seen
             PROVE  \E u \in Tasks : /\ task[u].pc = "saving"
                                     /\ task[u].bundle = task[t].bundle
                                     /\ task[u].hash = task[t].seen
  BY DEF KnownGood
<1>1. /\ 1 \in 1 .. Len(writes) /\ Head(writes) = writes[1]
  BY DEF WriteEnds, Inv, DownInv, TypeOK
<1>2. writes[1] = t /\ After(t, persisted) = "purging"
  <2>1. Head(writes) # Nobody /\ Goto(Head(writes), After(Head(writes), persisted))
    BY DEF WriteEnds
  <2>2. Head(writes) = t
    BY <2>1 DEF Goto, Inv, TypeOK
  <2>3. task'[t].pc = After(t, persisted)
    BY <2>1, <2>2 DEF Goto, Inv, TypeOK, TaskRecord
  <2> QED
    BY <1>1, <2>2, <2>3
<1>3. persisted /\ task[t].seen # None
  BY <1>2 DEF After, Saved
<1>4. manifest' = snapshot /\ snapshot # None
  BY <1>3 DEF WriteEnds, Written
<1>5. task[t].bundle \in Bundles /\ task[t].hash \in Hashes
  BY DEF Inv, ShapeInv
<1>6. SavesAt(writes, task, 1, task[t].bundle, task[t].hash)
  BY <1>1, <1>2 DEF SavesAt
<1>7. PICK j \in 1 .. Len(writes) : SavesAt(writes, task, j, task[t].bundle, task[t].seen)
  BY <1>3, <1>4, <1>5, <1>6 DEF SaverInv, Accounted
<1> QED
  BY <1>7 DEF SavesAt

(* Lemma: only the end of a write has a task delete the file it replaced. *)
LEMMA OnlyWritesPurge ==
  ASSUME Inv, Next, \A persisted \in BOOLEAN : ~ WriteEnds(persisted),
         NEW t \in Tasks, task[t].pc = "saving"
  PROVE  task'[t].pc # "purging"
<1> USE DEF Inv
<1>1. CASE UNCHANGED task
  BY <1>1
<1>2. ASSUME NEW u \in Tasks, OthersStay(u), task[u].pc # "saving" PROVE task'[t].pc # "purging"
  BY <1>2 DEF OthersStay
<1>3. ASSUME NEW u \in Tasks, Task(u) PROVE task'[t].pc # "purging"
  <2>1. task[u].pc # "saving"
    BY <1>3 DEF Task, Hits, Misses, FindsNone, Drops, Replaces, Copies, Downloads,
       DownloadFails, Mismatches, Saves, Purges, At
  <2>2. OthersStay(u)
    BY <1>3 DEF Task, Hits, Misses, FindsNone, Drops, Replaces, Copies, Downloads,
       DownloadFails, Mismatches, Saves, Purges, Leave, Proceed, Goto, OthersStay, TypeOK
  <2> QED
    BY <1>2, <2>1, <2>2
<1>4. ASSUME NEW b \in Bundles, LoadStarts(b) \/ LoadReads(b) PROVE task'[t].pc # "purging"
  <2>1. b \in Tasks /\ task[b].pc # "saving"
    BY <1>4 DEF Tasks, LoadStarts, LoadReads, At
  <2>2. OthersStay(b)
    BY <1>4 DEF LoadStarts, LoadReads, Lookup, Leave, OthersStay, TypeOK
  <2> QED
    BY <1>2, <2>1, <2>2
<1>5. CASE \/ PollStarts \/ PollEnds \/ PollCounts
           \/ \E b \in Bundles, h \in Hashes : PollTurns(b, h)
  <2>1. Poll \in Tasks /\ task[Poll].pc # "saving"
    BY <1>5 DEF Tasks, PollStarts, PollEnds, PollCounts, PollTurns, At
  <2>2. OthersStay(Poll)
    BY <1>5 DEF PollStarts, PollEnds, PollCounts, PollTurns, Lookup, Leave, Goto,
       OthersStay, TypeOK
  <2> QED
    BY <1>2, <2>1, <2>2
<1>6. CASE PollApplies \/ Crash
  BY <1>6 DEF PollApplies, Crash, Restart, IdleTask
<1> QED
  BY <1>1, <1>3, <1>4, <1>5, <1>6 DEF Next, Recover, Ready, Evict, LoadSkips, Register,
     Writer, WriteStarts, ClearStarts, Clear, ClearDeletes, ClearForgets, ClearWaits, ClearEnds

(* Theorem: with a native module that reports failed writes, as Android's  *)
(* does, a task that has saved a version deletes the one it replaced only  *)
(* when the manifest no longer names it, or another task has saved it anew. *)
THEOREM ReplacedFileGoes == ASSUME Platform = "android" PROVE Spec => KnownGoodIsKept
<1>1. Init => SaverInv
  BY DEF Init, SaverInv
<1>2. ASSUME Inv, SaverInv, [Next]_vars PROVE [KnownGood]_vars
  <2>1. ASSUME NEW persisted \in BOOLEAN, WriteEnds(persisted) PROVE KnownGood
    BY <1>2, <2>1, PurgeIsRight
  <2>2. ASSUME Next, \A persisted \in BOOLEAN : ~ WriteEnds(persisted) PROVE KnownGood
    BY <1>2, <2>2, OnlyWritesPurge DEF KnownGood
  <2> QED
    BY <1>2, <2>1, <2>2
<1> QED
  BY <1>1, <1>2, Invariance, AccountInduction, PTL DEF Spec, KnownGoodIsKept, KnownGood

=============================================================================
