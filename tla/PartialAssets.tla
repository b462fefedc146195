---------------------------- MODULE PartialAssets ----------------------------
(***************************************************************************)
(* The store through which the compilers of one application hand partial   *)
(* asset maps to the process that publishes them (zephyr-agent,            *)
(* lib/node-persist/partial-assets-map.ts), and the finalizers that use it *)
(* (vite-plugin-zephyr): claim a batch of scopes, publish, commit, or roll *)
(* back.  Every operation of the store is a read-modify-write of one file  *)
(* under an inter-process lock and one action here; that the lock cannot   *)
(* be had is an outcome of the operations that matter.                     *)
(*                                                                         *)
(* A scope is an invocation and its generation.  A contribution is known   *)
(* by its revision and by how often the store was removed before it was    *)
(* saved (epoch), since removal starts the revisions again.  The two ages  *)
(* after which claims and groups are abandoned are sets that grow at will. *)
(*                                                                         *)
(* Bug_X is X with a plausible slip, and no part of the model.             *)
(***************************************************************************)
EXTENDS Naturals, FiniteSets

CONSTANTS Scopes, Keys, Finalizers,
          Wanted,        \* the scopes each finalizer claims in one batch
          MaxRevision,   \* bound: contributions saved between two removals
          MaxEpoch       \* bound: removals of the store

ASSUME PartialAssetsAssumption ==
  /\ Wanted \in [Finalizers -> SUBSET Scopes]
  /\ MaxRevision \in Nat
  /\ MaxEpoch \in Nat

VARIABLES nextRevision,
          entries,       \* by scope and key, the revision stored, 0 for none
          claims,        \* the claims of the store
          staleClaims,   \* those created CLAIM_STALE_MS ago
          staleGroups,   \* scopes not updated for GROUP_STALE_MS
          pc,            \* where each finalizer stands
          snapshot,      \* the contributions its claims returned
          \* History.
          epoch,         \* removals of the store
          latest,        \* by scope and key, the contribution last saved
          dropped,       \* contributions pruned or removed
          published,     \* by finalizer, the contributions it published
          forfeited      \* finalizers that lost or gave back what they claimed

store   == <<nextRevision, entries, claims, staleClaims, staleGroups>>
history == <<epoch, latest, dropped, published, forfeited>>
vars    == <<store, pc, snapshot, history>>

-----------------------------------------------------------------------------
None == <<0, 0>>

Stored(s) == {k \in Keys : entries[s][k] # 0}

(* The contributions of a group, as the revisions of a claim record them.  *)
Revisions(es, s) == {<<k, es[s][k]>> : k \in {k \in Keys : es[s][k] # 0}}

(* pruneStaleStore: abandoned claims go first, then abandoned groups that  *)
(* no remaining claim protects.                                            *)
FreshClaims == claims \ staleClaims

Abandoned == {s \in staleGroups : \A c \in FreshClaims : c.scope # s}

PrunedEntries ==
  [s \in Scopes |-> IF s \in Abandoned THEN [k \in Keys |-> 0] ELSE entries[s]]

PrunedContributions ==
  {<<epoch, entries[s][k]>> : s \in Abandoned, k \in Keys} \ {<<epoch, 0>>}

(* The owners of pruned claims may see their contributions claimed again.  *)
PrunedOwners == {c.owner : c \in staleClaims}

Prune ==
  /\ dropped' = dropped \union PrunedContributions
  /\ forfeited' = forfeited \union PrunedOwners
  /\ staleClaims' = {}

Bug_AlreadyClaimed(s) == FALSE

(* A live claim holds a revision that is still stored. *)
AlreadyClaimed(s) ==
  \E c \in FreshClaims :
     c.scope = s /\ c.revisions \intersect Revisions(PrunedEntries, s) # {}

Available(s) == Revisions(PrunedEntries, s) # {} /\ ~ AlreadyClaimed(s)

ClaimOf(f, s) ==
  [owner |-> f, scope |-> s, revisions |-> Revisions(PrunedEntries, s)]

Owned(f) == {c \in claims : c.owner = f}

Bug_CommittedEntries(f) ==
  [s \in Scopes |-> [k \in Keys |->
     IF \E c \in Owned(f) : c.scope = s /\ \E r \in 1 .. nextRevision : <<k, r>> \in c.revisions
     THEN 0 ELSE entries[s][k]]]

(* What a commit leaves: it deletes only the exact revisions it claimed.   *)
CommittedEntries(f) ==
  [s \in Scopes |-> [k \in Keys |->
     IF \E c \in Owned(f) : c.scope = s /\ <<k, entries[s][k]>> \in c.revisions
     THEN 0 ELSE entries[s][k]]]

ReleaseClaims(f) ==
  /\ claims' = claims \ Owned(f)
  /\ staleClaims' = staleClaims \ Owned(f)

-----------------------------------------------------------------------------
Init ==
  /\ nextRevision = 1
  /\ entries = [s \in Scopes |-> [k \in Keys |-> 0]]
  /\ claims = {}
  /\ staleClaims = {}
  /\ staleGroups = {}
  /\ pc = [f \in Finalizers |-> "idle"]
  /\ snapshot = [f \in Finalizers |-> {}]
  /\ epoch = 0
  /\ latest = [s \in Scopes |-> [k \in Keys |-> None]]
  /\ dropped = {}
  /\ published = [f \in Finalizers |-> {}]
  /\ forfeited = {}

(* savePartialAssetMap by a compiler: a new revision of its key. *)
SavePartialAssetMap(s, k) ==
  /\ nextRevision <= MaxRevision
  /\ Prune
  /\ claims' = FreshClaims
  /\ entries' = [PrunedEntries EXCEPT ![s][k] = nextRevision]
  /\ staleGroups' = (staleGroups \ Abandoned) \ {s}
  /\ nextRevision' = nextRevision + 1
  /\ latest' = [latest EXCEPT ![s][k] = <<epoch, nextRevision>>]
  /\ UNCHANGED <<pc, snapshot, epoch, published>>

(* claimPartialAssetMapBatch: every wanted scope, or none of them; when    *)
(* one is unavailable nothing is written, not even the pruning.            *)
ClaimBatch(f) ==
  /\ pc[f] = "idle"
  /\ Wanted[f] # {}
  /\ \A s \in Wanted[f] : Available(s)
  /\ Prune
  /\ entries' = PrunedEntries
  /\ staleGroups' = staleGroups \ Abandoned
  /\ claims' = FreshClaims \union {ClaimOf(f, s) : s \in Wanted[f]}
  /\ snapshot' = [snapshot EXCEPT ![f] =
       {<<epoch, PrunedEntries[s][k]>> : s \in Wanted[f], k \in Keys} \ {<<epoch, 0>>}]
  /\ pc' = [pc EXCEPT ![f] = "claimed"]
  /\ UNCHANGED <<nextRevision, epoch, latest, published>>

(* The finalizer merges what it claimed and publishes it, or fails to.     *)
PublishSucceeds(f) ==
  /\ pc[f] = "claimed"
  /\ pc' = [pc EXCEPT ![f] = "published"]
  /\ published' = [published EXCEPT ![f] = snapshot[f]]
  /\ UNCHANGED <<store, snapshot, epoch, latest, dropped, forfeited>>

PublishFails(f) ==
  /\ pc[f] = "claimed"
  /\ pc' = [pc EXCEPT ![f] = "aborting"]
  /\ UNCHANGED <<store, snapshot, history>>

(* commitPartialAssetMapClaimBatch; a claim no longer stored is skipped.   *)
CommitBatch(f) ==
  /\ pc[f] = "published"
  /\ entries' = CommittedEntries(f)
  /\ staleGroups' =
       {s \in staleGroups : \E k \in Keys : CommittedEntries(f)[s][k] # 0}
  /\ ReleaseClaims(f)
  /\ pc' = [pc EXCEPT ![f] = "done"]
  /\ UNCHANGED <<nextRevision, snapshot, history>>

(* The lock of the store stays busy beyond the retries: the error reaches  *)
(* the catch clause of the finalizer.                                      *)
CommitUnavailable(f) ==
  /\ pc[f] = "published"
  /\ pc' = [pc EXCEPT ![f] = "aborting"]
  /\ UNCHANGED <<store, snapshot, history>>

(* rollbackPartialAssetMapClaimBatch in the catch clause. *)
RollbackBatch(f) ==
  /\ pc[f] = "aborting"
  /\ ReleaseClaims(f)
  /\ pc' = [pc EXCEPT ![f] = "failed"]
  /\ forfeited' = forfeited \union {f}
  /\ UNCHANGED <<nextRevision, entries, staleGroups, snapshot, epoch, latest,
                 dropped, published>>

RollbackUnavailable(f) ==
  /\ pc[f] = "aborting"
  /\ pc' = [pc EXCEPT ![f] = "failed"]
  /\ UNCHANGED <<store, snapshot, history>>

(* The finalizer's process dies; its claims stay in the store. *)
Crash(f) ==
  /\ pc[f] \in {"claimed", "published", "aborting"}
  /\ pc' = [pc EXCEPT ![f] = "crashed"]
  /\ UNCHANGED <<store, snapshot, history>>

ClaimTurnsStale(c) ==
  /\ c \notin staleClaims
  /\ staleClaims' = staleClaims \union {c}
  /\ UNCHANGED <<nextRevision, entries, claims, staleGroups, pc, snapshot, history>>

GroupTurnsStale(s) ==
  /\ s \notin staleGroups
  /\ Stored(s) # {}
  /\ staleGroups' = staleGroups \union {s}
  /\ UNCHANGED <<nextRevision, entries, claims, staleClaims, pc, snapshot, history>>

(* removePartialAssetMap deletes the file, with its claims and its counter. *)
RemovePartialAssetMap ==
  /\ epoch < MaxEpoch
  /\ nextRevision' = 1
  /\ entries' = [s \in Scopes |-> [k \in Keys |-> 0]]
  /\ claims' = {}
  /\ staleClaims' = {}
  /\ staleGroups' = {}
  /\ dropped' = dropped \union
       ({<<epoch, entries[s][k]>> : s \in Scopes, k \in Keys} \ {<<epoch, 0>>})
  /\ epoch' = epoch + 1
  /\ UNCHANGED <<pc, snapshot, latest, published, forfeited>>

Next ==
  \/ \E s \in Scopes, k \in Keys : SavePartialAssetMap(s, k)
  \/ \E f \in Finalizers :
       \/ ClaimBatch(f)
       \/ PublishSucceeds(f)
       \/ PublishFails(f)
       \/ CommitBatch(f)
       \/ CommitUnavailable(f)
       \/ RollbackBatch(f)
       \/ RollbackUnavailable(f)
       \/ Crash(f)
  \/ \E c \in claims : ClaimTurnsStale(c)
  \/ \E s \in Scopes : GroupTurnsStale(s)
  \/ RemovePartialAssetMap

Spec == Init /\ [][Next]_vars

-----------------------------------------------------------------------------
(* Properties.                                                             *)

Contributions == (0 .. MaxEpoch) \X (0 .. MaxRevision)
Claims == [owner: Finalizers, scope: Scopes, revisions: SUBSET (Keys \X (1 .. MaxRevision))]

TypeOK ==
  /\ nextRevision \in 1 .. MaxRevision + 1
  /\ entries \in [Scopes -> [Keys -> 0 .. MaxRevision]]
  /\ claims \subseteq Claims
  /\ staleClaims \subseteq claims
  /\ staleGroups \subseteq Scopes
  /\ pc \in [Finalizers -> {"idle", "claimed", "published", "aborting", "done",
                            "failed", "crashed"}]
  /\ snapshot \in [Finalizers -> SUBSET Contributions]
  /\ epoch \in 0 .. MaxEpoch
  /\ latest \in [Scopes -> [Keys -> Contributions]]
  /\ dropped \subseteq Contributions
  /\ published \in [Finalizers -> SUBSET Contributions]
  /\ forfeited \subseteq Finalizers

(* "newer writes always survive" (partial-assets-map.ts:585): the latest   *)
(* contribution of every key is stored until some finalizer publishes it,  *)
(* the store is removed, or its group is abandoned; no commit, rollback,   *)
(* crash or pruning of a claim makes it disappear before.                  *)
NothingLost ==
  \A s \in Scopes, k \in Keys :
     \/ latest[s][k] = None
     \/ latest[s][k] = <<epoch, entries[s][k]>>
     \/ latest[s][k] \in dropped
     \/ \E f \in Finalizers : latest[s][k] \in published[f]

(* Two finalizers publish the same contribution only when the first one    *)
(* went silent until its claim was abandoned, or rolled its claim back     *)
(* after its commit failed.                                                *)
PublishedTwiceOnlyIfForfeited ==
  \A f, g \in Finalizers :
     f # g /\ published[f] \intersect published[g] # {} => {f, g} \intersect forfeited # {}

=============================================================================
