------------------------- MODULE PartialAssetsProofs -------------------------
(***************************************************************************)
(* Proofs about PartialAssets, for any scopes, keys, finalizers, wanted    *)
(* scopes, and numbers of revisions and removals.                          *)
(*                                                                         *)
(* A revision is given out once between two removals, so it names one      *)
(* place (EntryInv), also in a claim that holds it (PlaceInv), whose owner *)
(* has it in its snapshot (ClaimInv).  A finalizer that forfeited nothing  *)
(* still has the claims of its snapshot, or committed them and nothing     *)
(* stored is of its snapshot any more (SnapshotInv): whoever claims what   *)
(* is stored gets what no such finalizer has (Disjoint).                   *)
(***************************************************************************)
EXTENDS PartialAssets, TLAPS

EntryInv ==
  /\ \A s \in Scopes, k \in Keys : entries[s][k] < nextRevision
  /\ \A s, t \in Scopes, k, l \in Keys :
       entries[s][k] # 0 /\ entries[s][k] = entries[t][l] => s = t /\ k = l

ClaimInv ==
  \A c \in claims :
    /\ pc[c.owner] # "idle"
    /\ \A k \in Keys, r \in 1 .. MaxRevision :
         <<k, r>> \in c.revisions => <<epoch, r>> \in snapshot[c.owner]

PlaceInv ==
  \A c \in claims, s \in Scopes, k, l \in Keys :
    entries[s][k] # 0 /\ <<l, entries[s][k]>> \in c.revisions => s = c.scope /\ l = k

Claimed(f, r) ==
  \E c \in claims, k \in Keys : c.owner = f /\ <<k, r>> \in c.revisions

Gone(r) == \A s \in Scopes, k \in Keys : entries[s][k] # r

SnapshotInv ==
  \A f \in Finalizers, e \in 0 .. MaxEpoch, r \in 0 .. MaxRevision :
    <<e, r>> \in snapshot[f] =>
      /\ e <= epoch /\ r # 0
      /\ e = epoch => r < nextRevision
      /\ e = epoch /\ f \notin forfeited => Claimed(f, r) \/ Gone(r)

PublishedInv ==
  \A f \in Finalizers :
    /\ published[f] \subseteq snapshot[f]
    /\ pc[f] = "idle" => snapshot[f] = {}
    /\ pc[f] = "published" => published[f] = snapshot[f]

Disjoint ==
  \A f, g \in Finalizers : f # g /\ {f, g} \intersect forfeited = {} =>
    snapshot[f] \intersect snapshot[g] = {}

LatestInv ==
  \A s \in Scopes, k \in Keys : latest[s][k] # None => latest[s][k][2] # 0

Inv ==
  /\ TypeOK /\ EntryInv /\ ClaimInv /\ PlaceInv /\ SnapshotInv
  /\ PublishedInv /\ Disjoint /\ LatestInv /\ NothingLost

-----------------------------------------------------------------------------
(* Lemmas about the store.                                                 *)

(* Lemma: what Revisions are. *)
LEMMA RevisionsAre ==
  ASSUME NEW es, NEW s, NEW k, NEW r
  PROVE  <<k, r>> \in Revisions(es, s) <=> k \in Keys /\ r = es[s][k] /\ r # 0
BY DEF Revisions

(* Lemma: pruning leaves an entry or drops its contribution. *)
LEMMA Pruning ==
  ASSUME TypeOK
  PROVE  /\ PrunedEntries \in [Scopes -> [Keys -> 0 .. MaxRevision]]
         /\ \A s \in Scopes, k \in Keys :
              /\ entries[s][k] \in 0 .. MaxRevision
              /\ \/ PrunedEntries[s][k] = entries[s][k]
                 \/ /\ PrunedEntries[s][k] = 0
                    /\ entries[s][k] # 0 =>
                         <<epoch, entries[s][k]>> \in PrunedContributions
         /\ PrunedContributions \subseteq Contributions
         /\ PrunedOwners \subseteq Finalizers
         /\ FreshClaims \subseteq claims
<1> USE PartialAssetsAssumption DEF TypeOK
<1>1. PrunedEntries \in [Scopes -> [Keys -> 0 .. MaxRevision]]
  BY DEF PrunedEntries
<1>2. ASSUME NEW s \in Scopes, NEW k \in Keys
      PROVE  \/ PrunedEntries[s][k] = entries[s][k]
             \/ /\ PrunedEntries[s][k] = 0
                /\ entries[s][k] # 0 => <<epoch, entries[s][k]>> \in PrunedContributions
  <2>1. CASE s \in Abandoned
    BY <2>1 DEF PrunedEntries, PrunedContributions
  <2>2. CASE s \notin Abandoned
    BY <2>2 DEF PrunedEntries
  <2> QED
    BY <2>1, <2>2
<1>3. PrunedContributions \subseteq Contributions
  BY DEF PrunedContributions, Contributions, Abandoned
<1>4. PrunedOwners \subseteq Finalizers /\ FreshClaims \subseteq claims
  BY DEF PrunedOwners, FreshClaims, Claims
<1> QED
  BY <1>1, <1>2, <1>3, <1>4

(* Lemma: the claims a finalizer makes. *)
LEMMA ClaimOfType ==
  ASSUME TypeOK, NEW f \in Finalizers, NEW s \in Scopes
  PROVE  /\ ClaimOf(f, s) \in Claims
         /\ ClaimOf(f, s).owner = f /\ ClaimOf(f, s).scope = s
         /\ ClaimOf(f, s).revisions = Revisions(PrunedEntries, s)
<1>1. Revisions(PrunedEntries, s) \subseteq Keys \X (1 .. MaxRevision)
  BY Pruning, PartialAssetsAssumption DEF Revisions
<1> QED
  BY <1>1 DEF ClaimOf, Claims

(* Lemma: a revision that is claimed, or in a snapshot, is a number. *)
LEMMA ClaimedType ==
  ASSUME TypeOK, NEW c \in claims
  PROVE  /\ c.owner \in Finalizers /\ c.scope \in Scopes
         /\ \A k, r : <<k, r>> \in c.revisions => k \in Keys /\ r \in 1 .. MaxRevision
BY DEF TypeOK, Claims

(* Lemma: what pruning leaves was there. *)
LEMMA PrunedPlace ==
  ASSUME TypeOK, NEW s \in Scopes, NEW k \in Keys, PrunedEntries[s][k] # 0
  PROVE  PrunedEntries[s][k] = entries[s][k]
BY Pruning

(* Lemma: a live claim holds what is still stored of it. *)
LEMMA LiveClaim ==
  ASSUME TypeOK, PlaceInv
  PROVE  \A s \in Scopes, k, l \in Keys, c \in FreshClaims :
           PrunedEntries[s][k] # 0 /\ <<l, PrunedEntries[s][k]>> \in c.revisions =>
             AlreadyClaimed(s)
<1> SUFFICES ASSUME NEW s \in Scopes, NEW k \in Keys, NEW l \in Keys, NEW c \in FreshClaims,
                    NEW r, r = PrunedEntries[s][k], r # 0, <<l, r>> \in c.revisions
             PROVE  AlreadyClaimed(s)
  OBVIOUS
<1>0. c \in claims
  BY Pruning
<1>1. r = entries[s][k] /\ r # 0
  BY PrunedPlace
<1>2. <<l, entries[s][k]>> \in c.revisions /\ entries[s][k] # 0
  BY <1>1
<1>3. c.scope = s /\ l = k
  BY <1>0, <1>2 DEF PlaceInv
<1>4. <<k, r>> \in Revisions(PrunedEntries, s)
  BY <1>1, RevisionsAre
<1> QED
  BY <1>3, <1>4 DEF AlreadyClaimed

-----------------------------------------------------------------------------
(* Lemmas: each step keeps the invariant.                                  *)

(* Lemma: it holds at the start. *)
LEMMA InitInv == Init => Inv
<1> SUFFICES ASSUME Init PROVE Inv
  OBVIOUS
<1> USE PartialAssetsAssumption DEF Init
<1>1. TypeOK
  BY DEF TypeOK, Contributions, None
<1>2. EntryInv /\ ClaimInv /\ PlaceInv /\ SnapshotInv /\ PublishedInv
  BY DEF EntryInv, ClaimInv, PlaceInv, SnapshotInv, PublishedInv
<1>3. Disjoint /\ LatestInv /\ NothingLost
  BY DEF Disjoint, LatestInv, NothingLost
<1> QED
  BY <1>1, <1>2, <1>3 DEF Inv

(* Lemma: what a pruning leaves of the claims and of the snapshots that    *)
(* they account for, when entries may disappear but no revision appears.   *)
LEMMA Shrinking ==
  ASSUME Inv, TypeOK',
         claims' \subseteq claims,
         UNCHANGED <<epoch, snapshot>>, forfeited \subseteq forfeited',
         \A c \in claims \ claims' : c.owner \in forfeited',
         \A f \in Finalizers : pc[f] # "idle" => pc'[f] # "idle",
         nextRevision <= nextRevision',
         \A s \in Scopes, k \in Keys :
           \/ entries'[s][k] \in {0, entries[s][k]}
           \/ entries'[s][k] = nextRevision
  PROVE  ClaimInv' /\ PlaceInv' /\ SnapshotInv' /\ Disjoint'
<1> USE PartialAssetsAssumption DEF Inv
<1>1. ClaimInv'
  BY ClaimedType DEF ClaimInv
<1>4. PlaceInv'
  <2> SUFFICES ASSUME NEW c \in claims, NEW s \in Scopes, NEW k \in Keys, NEW l \in Keys,
                      entries'[s][k] # 0, <<l, entries'[s][k]>> \in c.revisions
               PROVE  s = c.scope /\ l = k
    BY DEF PlaceInv
  <2>1. entries'[s][k] # nextRevision
    <3>1. entries'[s][k] \in 1 .. MaxRevision /\ c.owner \in Finalizers
      BY ClaimedType
    <3>2. <<epoch, entries'[s][k]>> \in snapshot[c.owner]
      BY <3>1 DEF ClaimInv
    <3>3. \A r \in 0 .. MaxRevision :
            <<epoch, r>> \in snapshot[c.owner] => r < nextRevision /\ r # nextRevision
      BY <3>1 DEF SnapshotInv, TypeOK
    <3> QED
      BY <3>1, <3>2, <3>3
  <2>2. entries'[s][k] = entries[s][k]
    BY <2>1
  <2> QED
    BY <2>2 DEF PlaceInv
<1>2. SnapshotInv'
  <2> SUFFICES ASSUME NEW f \in Finalizers, NEW e \in 0 .. MaxEpoch, NEW r \in 0 .. MaxRevision,
                      <<e, r>> \in snapshot[f]
               PROVE  /\ e <= epoch /\ r # 0
                      /\ e = epoch => r < nextRevision'
                      /\ e = epoch /\ f \notin forfeited' => (Claimed(f, r) \/ Gone(r))'
    BY DEF SnapshotInv
  <2>1. /\ e <= epoch /\ r # 0
        /\ e = epoch => r < nextRevision
        /\ e = epoch /\ f \notin forfeited => Claimed(f, r) \/ Gone(r)
    BY DEF SnapshotInv
  <2>2. e = epoch => r < nextRevision'
    BY <2>1 DEF TypeOK
  <2>3. ASSUME e = epoch, f \notin forfeited', Claimed(f, r) PROVE Claimed(f, r)'
    BY <2>3 DEF Claimed
  <2>4. ASSUME e = epoch, Gone(r) PROVE Gone(r)'
    <3> SUFFICES ASSUME NEW s \in Scopes, NEW k \in Keys, entries'[s][k] = r PROVE FALSE
      BY DEF Gone
    <3>1. r < nextRevision /\ r # 0 /\ entries[s][k] # r
      BY <2>1, <2>4 DEF Gone
    <3>2. r # nextRevision
      BY <3>1 DEF TypeOK
    <3> QED
      BY <3>1, <3>2
  <2> QED
    BY <2>1, <2>2, <2>3, <2>4
<1>3. Disjoint'
  BY DEF Disjoint
<1> QED
  BY <1>1, <1>2, <1>3, <1>4

(* Lemma: a compiler saves. *)
LEMMA SaveStep ==
  ASSUME Inv, NEW s \in Scopes, NEW k \in Keys, SavePartialAssetMap(s, k) PROVE Inv'
<1> USE PartialAssetsAssumption DEF Inv, SavePartialAssetMap, Prune
<1>1. TypeOK'
  <2>1. <<epoch, nextRevision>> \in Contributions
    BY DEF TypeOK, Contributions
  <2>2. /\ nextRevision' \in 1 .. MaxRevision + 1
        /\ entries' \in [Scopes -> [Keys -> 0 .. MaxRevision]]
        /\ latest' \in [Scopes -> [Keys -> Contributions]]
    BY <2>1, Pruning DEF TypeOK
  <2>3. /\ claims' \subseteq Claims /\ staleClaims' \subseteq claims'
        /\ staleGroups' \subseteq Scopes
        /\ dropped' \subseteq Contributions /\ forfeited' \subseteq Finalizers
    BY Pruning DEF TypeOK
  <2> QED
    BY <2>2, <2>3 DEF TypeOK
<1>2. \A t \in Scopes, l \in Keys :
        entries'[t][l] = IF t = s /\ l = k THEN nextRevision ELSE PrunedEntries[t][l]
  BY Pruning
<1>3. \A t \in Scopes, l \in Keys : ~ (t = s /\ l = k) => entries'[t][l] \in {0, entries[t][l]}
  BY <1>2, Pruning
<1>4. EntryInv'
  <2>1. /\ nextRevision \in Nat /\ nextRevision' = nextRevision + 1
        /\ \A t \in Scopes, l \in Keys : entries[t][l] \in Nat /\ entries[t][l] < nextRevision
    BY DEF EntryInv, TypeOK
  <2>2. \A t \in Scopes, l \in Keys :
          /\ entries'[t][l] < nextRevision'
          /\ entries'[t][l] = nextRevision => t = s /\ l = k
    BY <1>2, <1>3, <2>1
  <2>3. ASSUME NEW t \in Scopes, NEW u \in Scopes, NEW l \in Keys, NEW m \in Keys,
               entries'[t][l] # 0, entries'[t][l] = entries'[u][m]
        PROVE  t = u /\ l = m
    <3>1. CASE entries'[t][l] = nextRevision
      BY <2>2, <2>3, <3>1
    <3>2. CASE entries'[t][l] # nextRevision
      <4>1. entries'[t][l] = entries[t][l] /\ entries'[u][m] = entries[u][m]
        BY <1>2, <1>3, <2>3, <3>2
      <4> QED
        BY <2>3, <4>1 DEF EntryInv
    <3> QED
      BY <3>1, <3>2
  <2> QED
    BY <2>2, <2>3 DEF EntryInv
<1>5. ClaimInv' /\ PlaceInv' /\ SnapshotInv' /\ Disjoint'
  <2>1. \A c \in claims \ claims' : c.owner \in forfeited'
    BY DEF FreshClaims, PrunedOwners, TypeOK
  <2>2. nextRevision <= nextRevision'
    BY DEF TypeOK
  <2> QED
    BY <1>1, <1>2, <1>3, <2>1, <2>2, Shrinking, Pruning
<1>6. PublishedInv'
  BY DEF PublishedInv
<1>7. \A t \in Scopes, l \in Keys :
        latest'[t][l] = IF t = s /\ l = k THEN <<epoch, nextRevision>> ELSE latest[t][l]
  BY DEF TypeOK
<1>8. LatestInv'
  BY <1>7 DEF LatestInv, TypeOK
<1>9. NothingLost'
  <2> SUFFICES ASSUME NEW t \in Scopes, NEW l \in Keys, latest'[t][l] # None
               PROVE  \/ latest'[t][l] = <<epoch, entries'[t][l]>>
                      \/ latest'[t][l] \in dropped'
                      \/ \E f \in Finalizers : latest'[t][l] \in published[f]
    BY DEF NothingLost
  <2>1. CASE t = s /\ l = k
    BY <1>2, <1>7, <2>1
  <2>2. CASE ~ (t = s /\ l = k)
    <3>1. latest'[t][l] = latest[t][l] /\ entries'[t][l] = PrunedEntries[t][l]
      BY <1>2, <1>7, <2>2
    <3>2. latest[t][l] = <<epoch, entries[t][l]>> => entries[t][l] # 0
      BY <3>1 DEF LatestInv
    <3>3. CASE latest[t][l] = <<epoch, entries[t][l]>>
      BY <3>1, <3>2, <3>3, Pruning
    <3>4. CASE latest[t][l] # <<epoch, entries[t][l]>>
      BY <3>1, <3>4 DEF NothingLost
    <3> QED
      BY <3>3, <3>4
  <2> QED
    BY <2>1, <2>2
<1> QED
  BY <1>1, <1>4, <1>5, <1>6, <1>8, <1>9

(* Lemma: a finalizer claims.  What it claims is in no snapshot of one     *)
(* that forfeited nothing: the claim that holds it would be a live one.    *)
LEMMA ClaimStep ==
  ASSUME Inv, NEW f \in Finalizers, ClaimBatch(f) PROVE Inv'
<1> USE PartialAssetsAssumption DEF Inv, ClaimBatch, Prune
<1> DEFINE taken == {<<epoch, PrunedEntries[s][k]>> : s \in Wanted[f], k \in Keys}
                      \ {<<epoch, 0>>}
<1>1. Wanted[f] \subseteq Scopes
  OBVIOUS
<1>2. /\ taken \subseteq Contributions
      /\ \A e, r : <<e, r>> \in taken =>
           e = epoch /\ r # 0 /\ \E s \in Wanted[f], k \in Keys :
             r = PrunedEntries[s][k] /\ r = entries[s][k]
  <2>1. taken \subseteq Contributions
    BY <1>1, Pruning DEF TypeOK, Contributions
  <2>2. ASSUME NEW e, NEW r, <<e, r>> \in taken
        PROVE  e = epoch /\ r # 0 /\ \E s \in Wanted[f], k \in Keys :
                 r = PrunedEntries[s][k] /\ r = entries[s][k]
    <3>1. PICK s \in Wanted[f], k \in Keys : <<e, r>> = <<epoch, PrunedEntries[s][k]>>
      BY <2>2
    <3>2. e = epoch /\ r # 0 /\ r = PrunedEntries[s][k]
      BY <2>2, <3>1
    <3> QED
      BY <1>1, <3>2, Pruning
  <2> QED
    BY <2>1, <2>2
<1>3. /\ snapshot'[f] = taken
      /\ \A g \in Finalizers : g # f => snapshot'[g] = snapshot[g]
      /\ pc'[f] = "claimed"
      /\ \A g \in Finalizers : g # f => pc'[g] = pc[g]
  BY DEF TypeOK
<1>4. TypeOK'
  <2>1. snapshot' \in [Finalizers -> SUBSET Contributions]
    BY <1>2 DEF TypeOK
  <2>2. claims' \subseteq Claims /\ staleClaims' \subseteq claims'
    BY <1>1, Pruning, ClaimOfType DEF TypeOK
  <2> QED
    BY <2>1, <2>2, Pruning DEF TypeOK
<1>5. EntryInv'
  <2>1. \A s \in Scopes, k \in Keys : entries'[s][k] \in {0, entries[s][k]}
    BY Pruning
  <2>2. \A s \in Scopes, k \in Keys : entries'[s][k] < nextRevision
    <3>1. 0 < nextRevision
      BY DEF TypeOK
    <3>2. \A s \in Scopes, k \in Keys : entries[s][k] < nextRevision
      BY DEF EntryInv
    <3> QED
      BY <2>1, <3>1, <3>2
  <2>3. ASSUME NEW s \in Scopes, NEW t \in Scopes, NEW k \in Keys, NEW l \in Keys,
               entries'[s][k] # 0, entries'[s][k] = entries'[t][l]
        PROVE  s = t /\ k = l
    <3>1. entries'[s][k] = entries[s][k] /\ entries'[t][l] = entries[t][l]
      BY <2>1, <2>3
    <3> QED
      BY <2>3, <3>1 DEF EntryInv
  <2> QED
    BY <2>2, <2>3 DEF EntryInv
<1>6. \A c \in claims : c.owner # f
  BY DEF ClaimInv
<1>7. \A c \in claims' : \/ c \in FreshClaims
                         \/ \E s \in Wanted[f] : c = ClaimOf(f, s)
  OBVIOUS
<1>8. ClaimInv' /\ PlaceInv'
  <2>1. ASSUME NEW c \in FreshClaims
        PROVE  /\ pc'[c.owner] # "idle"
               /\ \A k \in Keys, r \in 1 .. MaxRevision :
                    <<k, r>> \in c.revisions => <<epoch, r>> \in snapshot'[c.owner]
               /\ \A s \in Scopes, k, l \in Keys :
                    entries'[s][k] # 0 /\ <<l, entries'[s][k]>> \in c.revisions =>
                      s = c.scope /\ l = k
    <3>1. c \in claims /\ c.owner \in Finalizers /\ c.owner # f
      BY <1>6, <2>1, Pruning, ClaimedType
    <3>2. \A s \in Scopes, k \in Keys : entries'[s][k] # 0 => entries'[s][k] = entries[s][k]
      BY Pruning
    <3>3. \A s \in Scopes, k, l \in Keys :
            entries[s][k] # 0 /\ <<l, entries[s][k]>> \in c.revisions => s = c.scope /\ l = k
      BY <3>1 DEF PlaceInv
    <3>4. \A s \in Scopes, k, l \in Keys :
            entries'[s][k] # 0 /\ <<l, entries'[s][k]>> \in c.revisions => s = c.scope /\ l = k
      BY ONLY <3>2, <3>3
    <3> QED
      BY <1>3, <3>1, <3>4 DEF ClaimInv
  <2>2. ASSUME NEW u \in Wanted[f]
        PROVE  /\ ClaimOf(f, u).owner = f
               /\ \A k \in Keys, r \in 1 .. MaxRevision :
                    <<k, r>> \in ClaimOf(f, u).revisions => <<epoch, r>> \in taken
               /\ \A s \in Scopes, k, l \in Keys :
                    entries'[s][k] # 0 /\ <<l, entries'[s][k]>> \in ClaimOf(f, u).revisions =>
                      s = ClaimOf(f, u).scope /\ l = k
    <3>1. /\ ClaimOf(f, u).owner = f /\ ClaimOf(f, u).scope = u /\ u \in Scopes
          /\ ClaimOf(f, u).revisions = Revisions(PrunedEntries, u)
      BY <1>1, <2>2, ClaimOfType
    <3>2. \A l, r : <<l, r>> \in ClaimOf(f, u).revisions =>
            l \in Keys /\ r = PrunedEntries[u][l] /\ r # 0
      BY <3>1, RevisionsAre
    <3>3. ASSUME NEW k \in Keys, NEW r \in 1 .. MaxRevision,
                 <<k, r>> \in ClaimOf(f, u).revisions
          PROVE  <<epoch, r>> \in taken
      BY <3>2, <3>3
    <3>4. ASSUME NEW s \in Scopes, NEW k \in Keys, NEW l \in Keys, entries'[s][k] # 0,
                 <<l, entries'[s][k]>> \in ClaimOf(f, u).revisions
          PROVE  s = u /\ l = k
      <4>1. entries'[u][l] = entries'[s][k]
        BY <3>2, <3>4
      <4> QED
        BY <1>5, <3>1, <3>4, <4>1 DEF EntryInv
    <3> QED
      BY <3>1, <3>3, <3>4
  <2>3. ASSUME NEW c \in claims'
        PROVE  /\ pc'[c.owner] # "idle"
               /\ \A k \in Keys, r \in 1 .. MaxRevision :
                    <<k, r>> \in c.revisions => <<epoch, r>> \in snapshot'[c.owner]
    <3>1. CASE c \in FreshClaims
      BY <2>1, <3>1
    <3>2. ASSUME NEW u \in Wanted[f], c = ClaimOf(f, u)
          PROVE  /\ pc'[c.owner] # "idle"
                 /\ \A k \in Keys, r \in 1 .. MaxRevision :
                      <<k, r>> \in c.revisions => <<epoch, r>> \in snapshot'[c.owner]
      <4>1. /\ c.owner = f
            /\ \A k \in Keys, r \in 1 .. MaxRevision :
                 <<k, r>> \in c.revisions => <<epoch, r>> \in taken
        BY <2>2, <3>2
      <4> HIDE DEF taken
      <4> QED
        BY ONLY <1>3, <4>1
    <3> QED
      BY <1>7, <3>1, <3>2
  <2>4. ClaimInv'
    <3> SUFFICES \A c \in claims' :
                   /\ pc'[c.owner] # "idle"
                   /\ \A k \in Keys, r \in 1 .. MaxRevision :
                        <<k, r>> \in c.revisions => <<epoch', r>> \in snapshot'[c.owner]
      BY DEF ClaimInv
    <3>1. epoch' = epoch
      OBVIOUS
    <3> QED
      BY ONLY <2>3, <3>1
  <2> QED
    BY <1>7, <2>1, <2>2, <2>4 DEF PlaceInv
<1>9. ASSUME NEW r, <<epoch, r>> \in taken
      PROVE  r \in 0 .. MaxRevision /\ r # 0 /\ r < nextRevision /\ Claimed(f, r)'
  <2>1. PICK s \in Wanted[f], k \in Keys : r = PrunedEntries[s][k] /\ r = entries[s][k] /\ r # 0
    <3> HIDE DEF taken
    <3> QED
      BY ONLY <1>2, <1>9
  <2>2. <<k, r>> \in ClaimOf(f, s).revisions /\ ClaimOf(f, s).owner = f
    <3>1. <<k, r>> \in Revisions(PrunedEntries, s)
      BY <2>1, RevisionsAre
    <3> QED
      BY <1>1, <3>1, ClaimOfType
  <2>3. ClaimOf(f, s) \in claims'
    OBVIOUS
  <2>4. r \in 0 .. MaxRevision /\ r < nextRevision
    BY <1>1, <2>1 DEF EntryInv, TypeOK
  <2>5. Claimed(f, r)'
    BY <2>2, <2>3 DEF Claimed
  <2> QED
    BY <2>1, <2>4, <2>5
<1>10. SnapshotInv'
  <2> SUFFICES ASSUME NEW g \in Finalizers, NEW e \in 0 .. MaxEpoch, NEW r \in 0 .. MaxRevision,
                      <<e, r>> \in snapshot'[g]
               PROVE  /\ e <= epoch /\ r # 0
                      /\ e = epoch => r < nextRevision
                      /\ e = epoch /\ g \notin forfeited' => (Claimed(g, r) \/ Gone(r))'
    BY DEF SnapshotInv
  <2>1. CASE g = f
    BY <1>2, <1>3, <1>9, <2>1 DEF TypeOK
  <2>2. CASE g # f
    <3>1. /\ e <= epoch /\ r # 0
          /\ e = epoch => r < nextRevision
          /\ e = epoch /\ g \notin forfeited => Claimed(g, r) \/ Gone(r)
      BY <1>3, <2>2 DEF SnapshotInv
    <3>2. ASSUME g \notin forfeited', Claimed(g, r) PROVE Claimed(g, r)'
      BY <3>2 DEF Claimed, FreshClaims, PrunedOwners
    <3>3. ASSUME Gone(r) PROVE Gone(r)'
      BY <3>1, <3>3, Pruning DEF Gone
    <3> QED
      BY <3>1, <3>2, <3>3
  <2> QED
    BY <2>1, <2>2
<1>11. ASSUME NEW g \in Finalizers, g # f, g \notin forfeited'
       PROVE  taken \intersect snapshot[g] = {}
  <2> SUFFICES ASSUME NEW x \in taken, x \in snapshot[g] PROVE FALSE
    OBVIOUS
  <2>1. PICK e, r : x = <<e, r>> /\ e \in 0 .. MaxEpoch /\ r \in 0 .. MaxRevision
    BY <1>2 DEF Contributions
  <2>2. PICK s \in Wanted[f], k \in Keys :
          e = epoch /\ r # 0 /\ r = PrunedEntries[s][k] /\ r = entries[s][k]
    BY <1>2, <2>1
  <2>3. Claimed(g, r) \/ Gone(r)
    BY <1>11, <2>1, <2>2 DEF SnapshotInv
  <2>4. PICK c \in claims, l \in Keys : c.owner = g /\ <<l, r>> \in c.revisions
    <3>1. ~ Gone(r)
      BY <1>1, <2>2 DEF Gone
    <3> QED
      BY <2>3, <3>1 DEF Claimed
  <2>5. c \in FreshClaims
    BY <1>11, <2>4 DEF FreshClaims, PrunedOwners
  <2>6. <<l, PrunedEntries[s][k]>> \in c.revisions /\ PrunedEntries[s][k] # 0
    BY <2>2, <2>4
  <2>7. AlreadyClaimed(s)
    BY <1>1, <2>5, <2>6, LiveClaim
  <2> QED
    BY <2>7 DEF Available
<1>12. Disjoint'
  <2> SUFFICES ASSUME NEW g \in Finalizers, NEW h \in Finalizers, g # h,
                      g \notin forfeited', h \notin forfeited'
               PROVE  snapshot'[g] \intersect snapshot'[h] = {}
    BY DEF Disjoint
  <2>1. CASE g = f
    BY <1>3, <1>11, <2>1
  <2>2. CASE h = f
    BY <1>3, <1>11, <2>2
  <2>3. CASE g # f /\ h # f
    BY <1>3, <2>3 DEF Disjoint
  <2> QED
    BY <2>1, <2>2, <2>3
<1>13. PublishedInv'
  BY <1>3 DEF PublishedInv
<1>14. LatestInv'
  BY DEF LatestInv
<1>15. NothingLost'
  <2> SUFFICES ASSUME NEW t \in Scopes, NEW l \in Keys, latest[t][l] # None
               PROVE  \/ latest[t][l] = <<epoch, PrunedEntries[t][l]>>
                      \/ latest[t][l] \in dropped'
                      \/ \E g \in Finalizers : latest[t][l] \in published[g]
    BY DEF NothingLost
  <2>1. CASE latest[t][l] = <<epoch, entries[t][l]>>
    <3>1. entries[t][l] # 0
      <4>1. latest[t][l][2] # 0
        BY DEF LatestInv
      <4> QED
        BY ONLY <2>1, <4>1
    <3> QED
      BY <2>1, <3>1, Pruning
  <2>2. CASE latest[t][l] # <<epoch, entries[t][l]>>
    BY <2>2 DEF NothingLost
  <2> QED
    BY <2>1, <2>2
<1> QED
  BY <1>4, <1>5, <1>8, <1>10, <1>12, <1>13, <1>14, <1>15

(* Lemma: a commit.  The revisions of its claims are deleted, so that      *)
(* nothing stored is left of its snapshot, and all of it is published.     *)
LEMMA CommitStep ==
  ASSUME Inv, NEW f \in Finalizers, CommitBatch(f) PROVE Inv'
<1> USE PartialAssetsAssumption DEF Inv, CommitBatch, ReleaseClaims, history
<1>1. \A s \in Scopes, k \in Keys :
        \/ entries'[s][k] = entries[s][k]
        \/ /\ entries'[s][k] = 0
           /\ \E c \in claims : c.owner = f /\ <<k, entries[s][k]>> \in c.revisions
  BY DEF CommittedEntries, Owned
<1>2. TypeOK'
  <2>1. entries' \in [Scopes -> [Keys -> 0 .. MaxRevision]]
    BY DEF CommittedEntries, TypeOK
  <2> QED
    BY <2>1 DEF TypeOK
<1>3. EntryInv'
  <2>1. \A s \in Scopes, k \in Keys : entries'[s][k] < nextRevision
    <3>1. 0 < nextRevision
      BY DEF TypeOK
    <3>2. \A s \in Scopes, k \in Keys : entries[s][k] < nextRevision
      BY DEF EntryInv
    <3> QED
      BY ONLY <1>1, <3>1, <3>2
  <2>2. ASSUME NEW s \in Scopes, NEW t \in Scopes, NEW k \in Keys, NEW l \in Keys,
               entries'[s][k] # 0, entries'[s][k] = entries'[t][l]
        PROVE  s = t /\ k = l
    <3>1. entries'[s][k] = entries[s][k] /\ entries'[t][l] = entries[t][l]
      BY <1>1, <2>2
    <3>2. entries[s][k] # 0 /\ entries[s][k] = entries[t][l]
      BY <2>2, <3>1
    <3> QED
      BY <3>2 DEF EntryInv
  <2> QED
    BY <2>1, <2>2 DEF EntryInv
<1>4. \A g \in Finalizers : pc[g] # "idle" => pc'[g] # "idle"
  BY DEF TypeOK
<1>5. ClaimInv' /\ PlaceInv'
  <2>1. ClaimInv'
    BY <1>4, ClaimedType DEF ClaimInv
  <2>2. ASSUME NEW c \in claims, NEW s \in Scopes, NEW k \in Keys, NEW l \in Keys,
               entries'[s][k] # 0, <<l, entries'[s][k]>> \in c.revisions
        PROVE  s = c.scope /\ l = k
    <3>1. entries'[s][k] = entries[s][k]
      BY <1>1, <2>2
    <3> QED
      BY <2>2, <3>1 DEF PlaceInv
  <2> QED
    BY <2>1, <2>2 DEF PlaceInv
<1>6. SnapshotInv'
  <2> SUFFICES ASSUME NEW g \in Finalizers, NEW e \in 0 .. MaxEpoch, NEW r \in 0 .. MaxRevision,
                      <<e, r>> \in snapshot[g]
               PROVE  /\ e <= epoch /\ r # 0
                      /\ e = epoch => r < nextRevision
                      /\ e = epoch /\ g \notin forfeited => (Claimed(g, r) \/ Gone(r))'
    BY DEF SnapshotInv
  <2>1. /\ e <= epoch /\ r # 0
        /\ e = epoch => r < nextRevision
        /\ e = epoch /\ g \notin forfeited => Claimed(g, r) \/ Gone(r)
    BY DEF SnapshotInv
  <2>2. ASSUME Gone(r) PROVE Gone(r)'
    BY <1>1, <2>1, <2>2 DEF Gone
  <2>3. ASSUME Claimed(g, r), g # f PROVE Claimed(g, r)'
    BY <2>3 DEF Claimed, Owned
  <2>4. ASSUME Claimed(f, r) PROVE Gone(r)'
    <3>1. PICK c \in claims, k \in Keys : c.owner = f /\ <<k, r>> \in c.revisions
      BY <2>4 DEF Claimed
    <3>2. ASSUME NEW s \in Scopes, NEW l \in Keys, entries'[s][l] = r PROVE FALSE
      <4>1. entries[s][l] = r /\ r \in 1 .. MaxRevision
        <5>1. entries'[s][l] # 0 /\ r \in 1 .. MaxRevision
          BY <2>1, <3>2
        <5> QED
          BY <1>1, <3>2, <5>1
      <4>2. s = c.scope /\ l = k
        <5>1. entries[s][l] # 0 /\ <<k, entries[s][l]>> \in c.revisions
          BY <3>1, <4>1
        <5> QED
          BY <3>1, <5>1 DEF PlaceInv
      <4>3. entries'[s][l] = 0
        BY <3>1, <4>1, <4>2 DEF CommittedEntries, Owned
      <4> QED
        BY <2>1, <3>2, <4>3
    <3> QED
      BY <3>2 DEF Gone
  <2> QED
    BY <2>1, <2>2, <2>3, <2>4
<1>7. PublishedInv'
  BY DEF PublishedInv, TypeOK
<1>8. Disjoint' /\ LatestInv'
  BY DEF Disjoint, LatestInv
<1>9. NothingLost'
  <2> SUFFICES ASSUME NEW s \in Scopes, NEW k \in Keys, latest[s][k] # None,
                      latest[s][k] = <<epoch, entries[s][k]>>
               PROVE  \/ latest[s][k] = <<epoch, entries'[s][k]>>
                      \/ \E g \in Finalizers : latest[s][k] \in published[g]
    BY DEF NothingLost
  <2>1. CASE entries'[s][k] = entries[s][k]
    BY <2>1
  <2>2. CASE entries'[s][k] # entries[s][k]
    <3>1. PICK c \in claims : c.owner = f /\ <<k, entries[s][k]>> \in c.revisions
      BY <1>1, <2>2
    <3>2. entries[s][k] \in 1 .. MaxRevision
      BY <3>1, ClaimedType
    <3>3. <<epoch, entries[s][k]>> \in snapshot[f]
      BY <3>1, <3>2 DEF ClaimInv
    <3> QED
      BY <3>3 DEF PublishedInv
  <2> QED
    BY <2>1, <2>2
<1> QED
  BY <1>2, <1>3, <1>5, <1>6, <1>7, <1>8, <1>9

(* Lemma: the store is removed, and what it held is dropped. *)
LEMMA RemoveStep ==
  ASSUME Inv, RemovePartialAssetMap PROVE Inv'
<1> USE PartialAssetsAssumption DEF Inv, RemovePartialAssetMap
<1> DEFINE lost == {<<epoch, entries[s][k]>> : s \in Scopes, k \in Keys} \ {<<epoch, 0>>}
<1>1. lost \subseteq Contributions
  BY DEF TypeOK, Contributions
<1>2. TypeOK'
  BY <1>1 DEF TypeOK
<1>3. EntryInv' /\ ClaimInv' /\ PlaceInv' /\ PublishedInv' /\ Disjoint' /\ LatestInv'
  BY DEF EntryInv, ClaimInv, PlaceInv, PublishedInv, Disjoint, LatestInv
<1>4. SnapshotInv'
  BY DEF SnapshotInv, TypeOK
<1>5. NothingLost'
  <2> SUFFICES ASSUME NEW s \in Scopes, NEW k \in Keys, latest[s][k] # None,
                      latest[s][k] = <<epoch, entries[s][k]>>
               PROVE  latest[s][k] \in lost
    BY DEF NothingLost
  <2>1. entries[s][k] # 0
    <3>1. latest[s][k][2] # 0
      BY DEF LatestInv
    <3>2. latest[s][k] = <<epoch, entries[s][k]>>
      OBVIOUS
    <3> QED
      BY ONLY <3>1, <3>2
  <2> QED
    BY <2>1
<1> QED
  BY <1>2, <1>3, <1>4, <1>5

(* Lemma: a finalizer publishes. *)
LEMMA PublishStep ==
  ASSUME Inv, NEW f \in Finalizers, PublishSucceeds(f) PROVE Inv'
<1> USE DEF Inv, PublishSucceeds, store
<1>1. TypeOK'
  BY DEF TypeOK
<1>2. EntryInv' /\ Disjoint' /\ LatestInv'
  BY DEF EntryInv, Disjoint, LatestInv
<1>3. ClaimInv' /\ PlaceInv'
  BY ClaimedType DEF ClaimInv, PlaceInv, TypeOK
<1>4. SnapshotInv'
  BY DEF SnapshotInv, Claimed, Gone
<1>5. PublishedInv'
  BY DEF PublishedInv, TypeOK
<1>6. NothingLost'
  BY DEF NothingLost, PublishedInv, TypeOK
<1> QED
  BY <1>1, <1>2, <1>3, <1>4, <1>5, <1>6

(* Lemma: a rollback. *)
LEMMA RollbackStep ==
  ASSUME Inv, NEW f \in Finalizers, RollbackBatch(f) PROVE Inv'
<1> USE DEF Inv, RollbackBatch, ReleaseClaims, Owned
<1>1. TypeOK'
  BY DEF TypeOK
<1>2. EntryInv' /\ LatestInv' /\ NothingLost'
  BY DEF EntryInv, LatestInv, NothingLost
<1>3. ClaimInv' /\ PlaceInv' /\ SnapshotInv' /\ Disjoint'
  <2>1. \A g \in Finalizers : pc[g] # "idle" => pc'[g] # "idle"
    BY DEF TypeOK
  <2>2. nextRevision <= nextRevision'
    BY DEF TypeOK
  <2> QED
    BY <1>1, <2>1, <2>2, Shrinking
<1>4. PublishedInv'
  BY DEF PublishedInv, TypeOK
<1> QED
  BY <1>1, <1>2, <1>3, <1>4

(* Lemma: a finalizer fails or dies, and its claims stay. *)
LEMMA OtherSteps ==
  ASSUME Inv, NEW f \in Finalizers,
         \/ PublishFails(f) \/ CommitUnavailable(f) \/ RollbackUnavailable(f) \/ Crash(f)
  PROVE  Inv'
<1> USE DEF Inv, PublishFails, CommitUnavailable, RollbackUnavailable, Crash, store, history
<1>1. TypeOK'
  BY DEF TypeOK
<1>2. EntryInv' /\ Disjoint' /\ LatestInv' /\ NothingLost'
  BY DEF EntryInv, Disjoint, LatestInv, NothingLost
<1>3. ClaimInv' /\ PlaceInv'
  BY ClaimedType DEF ClaimInv, PlaceInv, TypeOK
<1>4. SnapshotInv'
  BY DEF SnapshotInv, Claimed, Gone
<1>5. PublishedInv'
  BY DEF PublishedInv, TypeOK
<1> QED
  BY <1>1, <1>2, <1>3, <1>4, <1>5

(* Lemma: nothing but the ages changes. *)
LEMMA AgeSteps ==
  ASSUME Inv,
         \/ \E c \in claims : ClaimTurnsStale(c)
         \/ \E s \in Scopes : GroupTurnsStale(s)
         \/ UNCHANGED vars
  PROVE  Inv'
<1> USE DEF Inv, ClaimTurnsStale, GroupTurnsStale, vars, store, history
<1>1. /\ UNCHANGED <<nextRevision, entries, claims, pc, snapshot>>
      /\ UNCHANGED <<epoch, latest, dropped, published, forfeited>>
  OBVIOUS
<1>2. TypeOK'
  BY DEF TypeOK
<1>3. EntryInv' /\ Disjoint' /\ LatestInv' /\ NothingLost' /\ PublishedInv'
  BY ONLY <1>1, Inv DEF Inv, EntryInv, Disjoint, LatestInv, NothingLost, PublishedInv
<1>4. ClaimInv' /\ PlaceInv' /\ SnapshotInv'
  BY ONLY <1>1, Inv DEF Inv, ClaimInv, PlaceInv, SnapshotInv, Claimed, Gone
<1> QED
  BY <1>2, <1>3, <1>4

-----------------------------------------------------------------------------
(* Theorem: the invariant holds. *)
THEOREM Invariance == Spec => []Inv
<1>1. Inv /\ [Next]_vars => Inv'
  BY SaveStep, ClaimStep, PublishStep, CommitStep, RollbackStep, OtherSteps, RemoveStep,
     AgeSteps DEF Next
<1> QED
  BY <1>1, InitInv, PTL DEF Spec

(* Theorem: the types are right. *)
THEOREM TypeCorrect == Spec => []TypeOK
<1>1. Inv => TypeOK
  BY DEF Inv
<1> QED
  BY <1>1, Invariance, PTL

(* Theorem: however savers, finalizers, failures, crashes and prunings     *)
(* interleave, the latest contribution of a key stays until it is          *)
(* published, its group is abandoned or the store is removed.              *)
THEOREM NewerWritesSurvive == Spec => []NothingLost
<1>1. Inv => NothingLost
  BY DEF Inv
<1> QED
  BY <1>1, Invariance, PTL

(* Theorem: two finalizers publish the same contribution only after one of *)
(* them forfeited its claim.                                               *)
THEOREM PublishedOnce == Spec => []PublishedTwiceOnlyIfForfeited
<1>1. Inv => PublishedTwiceOnlyIfForfeited
  BY DEF Inv, PublishedInv, Disjoint, PublishedTwiceOnlyIfForfeited
<1> QED
  BY <1>1, Invariance, PTL

=============================================================================
