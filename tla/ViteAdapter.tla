----------------------------- MODULE ViteAdapter -----------------------------
(***************************************************************************)
(* vite-plugin-zephyr on Vite 6 and later: how the environments of one     *)
(* application build become one snapshot.                                  *)
(*                                                                         *)
(* Every environment's writeBundle hook saves its output in the partial    *)
(* asset store, under a scope of the plugin's own invocation and its       *)
(* current generation.  The buildApp hook, which runs after those of the   *)
(* framework, claims that scope together with a scope that independent     *)
(* producers (withZephyrPartial) fill, checks what it claimed, publishes   *)
(* it through a build session, and commits or rolls back the claims.       *)
(* A process may run its build again with the same plugin.                 *)
(*                                                                         *)
(* An output is known by its environment and the run that emitted it: its  *)
(* files, and what the plugin asks of their paths and of a server's        *)
(* entrypoint, are left out, and may fail a publication.  That claims are  *)
(* given up after a while, and that the store may be removed, is in        *)
(* PartialAssets; sessions are in BuildSession.                            *)
(* Bug_X is X with a plausible slip, and no part of the model.             *)
(***************************************************************************)
EXTENDS Naturals

CONSTANTS
  Finalizers,          \* processes whose build has withZephyr
  EnvironmentSets,     \* the sets of environments a run may have
  Keys,                \* the outputs of the producers
  Wanting,             \* the finalizers that are told to wait for producers
  MaxRuns,             \* bound: the runs of each process
  MaxRevision          \* bound: outputs of the producers

Environments == UNION EnvironmentSets

ASSUME ViteAssumption ==
  /\ Wanting \subseteq Finalizers
  /\ MaxRuns \in [Finalizers -> Nat] /\ MaxRevision \in Nat

VARIABLES
  pc,           \* where the build of each finalizer stands
  run,          \* its current run
  environments, \* builder.environments of that run
  built,        \* those whose isBuilt is set
  generation,   \* buildGeneration
  saved,        \* the outputs in its own scopes
  external,     \* the shared scope: the revision under each key, or 0
  claims,       \* the claims of the store
  \* History.
  revision,     \* the last output of a producer
  snapshots,    \* what was published
  cut,          \* runs that ended before they had a generation of their own
  uncommitted,  \* runs that published and could not commit
  unreleased    \* runs that could not roll back

store    == <<saved, external, claims>>
outcomes == <<snapshots, cut, uncommitted, unreleased>>
history  == <<revision, outcomes>>
builder  == <<run, environments, built>>
viteVars == <<builder, pc, generation, store, history>>

-----------------------------------------------------------------------------
Revisions == {<<k, external[k]>> : k \in {k \in Keys : external[k] # 0}}

(* The outputs of the generation that the run of f is to publish. *)
Own(f) == {o \in saved[f] : o.generation = generation[f]}

ClaimOf(f) == CHOOSE c \in claims : c.owner = f /\ c.run = run[f]

(* writeBundle keys an output by its environment, its destination and what *)
(* it holds, so that the outputs of two runs lie side by side.             *)
EnvironmentOutput(f, e) ==
  [environment |-> e, run |-> run[f], generation |-> generation[f]]

(* Every environment of this run has an output, and no other one has. *)
Whole(f, outputs) ==
  {o.environment : o \in outputs} = environments[f]

Ends(f) == pc' = [pc EXCEPT ![f] = "idle"]
Goto(f, where) == pc' = [pc EXCEPT ![f] = where]

-----------------------------------------------------------------------------
ViteInit ==
  /\ pc = [f \in Finalizers |-> "idle"]
  /\ run = [f \in Finalizers |-> 0]
  /\ environments = [f \in Finalizers |-> {}]
  /\ built = [f \in Finalizers |-> {}]
  /\ generation = [f \in Finalizers |-> 0]
  /\ saved = [f \in Finalizers |-> {}]
  /\ external = [k \in Keys |-> 0]
  /\ claims = {}
  /\ revision = 0
  /\ snapshots = {}
  /\ cut = {} /\ uncommitted = {} /\ unreleased = {}

(* A producer's writeBundle saves its output; what fails it only logs.     *)
Produce(k) ==
  /\ revision < MaxRevision
  /\ revision' = revision + 1
  /\ external' = [external EXCEPT ![k] = revision']
  /\ UNCHANGED <<builder, pc, generation, saved, claims, outcomes>>

RunStarts(f, es) ==
  /\ pc[f] = "idle"
  /\ run[f] < MaxRuns[f]
  /\ run' = [run EXCEPT ![f] = @ + 1]
  /\ environments' = [environments EXCEPT ![f] = es]
  /\ built' = [built EXCEPT ![f] = {}]
  /\ Goto(f, "framework")
  /\ UNCHANGED <<generation, store, history>>

-----------------------------------------------------------------------------
(* Compiling, by the framework or by the plugin's own buildApp hook.       *)

Compiling(f) == pc[f] \in {"framework", "orchestrating"}

(* writeBundle of an environment; what fails in it is only logged, and     *)
(* then nothing is saved.                                                  *)
WriteBundle(f, e) ==
  /\ Compiling(f)
  /\ e \in environments[f] \ built[f]
  /\ saved' = [saved EXCEPT ![f] = @ \union {EnvironmentOutput(f, e)}]
  /\ UNCHANGED <<builder, pc, generation, external, claims, history>>

EnvironmentBuilt(f, e) ==
  /\ Compiling(f)
  /\ e \in environments[f] \ built[f]
  /\ built' = [built EXCEPT ![f] = @ \union {e}]
  /\ UNCHANGED <<run, environments, pc, generation, store, history>>

(* An environment does not compile: the build is over. *)
BuildFails(f) ==
  /\ Compiling(f)
  /\ environments[f] # built[f]
  /\ Ends(f)
  /\ cut' = cut \union {<<f, run[f]>>}
  /\ UNCHANGED <<builder, generation, store, revision, snapshots, uncommitted, unreleased>>

(* The hook builds the environments if the framework has built none; if    *)
(* only some were built it throws.                                         *)
BuildApp(f) ==
  /\ pc[f] = "framework"
  /\ CASE built[f] = environments[f] -> Goto(f, "claiming") /\ UNCHANGED cut
       [] built[f] = {} -> Goto(f, "orchestrating") /\ UNCHANGED cut
       [] OTHER -> Ends(f) /\ cut' = cut \union {<<f, run[f]>>}
  /\ UNCHANGED <<builder, generation, store, revision, snapshots, uncommitted, unreleased>>

AllBuilt(f) ==
  /\ pc[f] = "orchestrating"
  /\ built[f] = environments[f]
  /\ Goto(f, "claiming")
  /\ UNCHANGED <<builder, generation, store, history>>

-----------------------------------------------------------------------------
(* The rest of buildApp.                                                   *)

Wants(f) == f \in Wanting

Bug_Available(f) ==
  /\ Own(f) # {}
  /\ Wants(f) => Revisions # {}

(* claimPartialAssetMapBatch has every scope, or none. *)
Available(f) ==
  /\ Own(f) # {}
  /\ Wants(f) => /\ Revisions # {}
                 /\ \A c \in claims : c.external \intersect Revisions = {}

Bug_Claim(f) ==
  /\ pc[f] = "claiming"
  /\ Available(f)
  /\ claims' = claims \union
       {[owner |-> f, run |-> run[f], outputs |-> Own(f),
         external |-> IF Wants(f) THEN Revisions ELSE {}]}
  /\ Goto(f, "checking")
  /\ UNCHANGED <<builder, generation, saved, external, history>>

(* The generation is over, whatever comes of its claim. *)
Claim(f) ==
  /\ pc[f] = "claiming"
  /\ Available(f)
  /\ claims' = claims \union
       {[owner |-> f, run |-> run[f], outputs |-> Own(f),
         external |-> IF Wants(f) THEN Revisions ELSE {}]}
  /\ generation' = [generation EXCEPT ![f] = @ + 1]
  /\ Goto(f, "checking")
  /\ UNCHANGED <<builder, saved, external, history>>

(* A scope is empty or taken, or the store can not be locked. *)
ClaimFails(f) ==
  /\ pc[f] = "claiming"
  /\ generation' = [generation EXCEPT ![f] = @ + 1]
  /\ Ends(f)
  /\ UNCHANGED <<builder, store, history>>

(* An environment is missing, or there is one of an earlier run. *)
Refuse(f) ==
  /\ pc[f] = "checking"
  /\ ~ Whole(f, ClaimOf(f).outputs)
  /\ Goto(f, "aborting")
  /\ UNCHANGED <<builder, generation, store, history>>

(* session.publish() *)
Publish(f) ==
  /\ pc[f] = "checking"
  /\ Whole(f, ClaimOf(f).outputs)
  /\ snapshots' = snapshots \union
       {[owner |-> f, run |-> run[f], environments |-> environments[f],
         outputs |-> ClaimOf(f).outputs, external |-> ClaimOf(f).external]}
  /\ Goto(f, "committing")
  /\ UNCHANGED <<builder, generation, store, revision, cut, uncommitted, unreleased>>

(* There is no entrypoint for a server, two outputs have different         *)
(* contents for a path, or the engine fails.                               *)
PublishFails(f) ==
  /\ pc[f] = "checking"
  /\ Goto(f, "aborting")
  /\ UNCHANGED <<builder, generation, store, history>>

(* commitPartialAssetMapClaimBatch: what was claimed and is unchanged goes. *)
Commit(f) ==
  /\ pc[f] = "committing"
  /\ LET c == ClaimOf(f)
     IN /\ saved' = [saved EXCEPT ![f] = @ \ c.outputs]
        /\ external' = [k \in Keys |-> IF <<k, external[k]>> \in c.external
                                       THEN 0 ELSE external[k]]
        /\ claims' = claims \ {c}
  /\ Ends(f)
  /\ UNCHANGED <<builder, generation, history>>

(* The store can not be locked. *)
CommitFails(f) ==
  /\ pc[f] = "committing"
  /\ Goto(f, "aborting")
  /\ uncommitted' = uncommitted \union {<<f, run[f]>>}
  /\ UNCHANGED <<builder, generation, store, revision, snapshots, cut, unreleased>>

Bug_Rollback(f) ==
  /\ pc[f] = "aborting"
  /\ Ends(f)
  /\ claims' = IF <<f, run[f]>> \in uncommitted THEN claims ELSE claims \ {ClaimOf(f)}
  /\ UNCHANGED <<builder, generation, saved, external, history>>

(* rollbackPartialAssetMapClaimBatch, in the catch clause. *)
Rollback(f) ==
  /\ pc[f] = "aborting"
  /\ Ends(f)
  /\ claims' = claims \ {ClaimOf(f)}
  /\ UNCHANGED <<builder, generation, saved, external, history>>

RollbackFails(f) ==
  /\ pc[f] = "aborting"
  /\ Ends(f)
  /\ unreleased' = unreleased \union {<<f, run[f]>>}
  /\ UNCHANGED <<builder, generation, store, revision, snapshots, cut, uncommitted>>

Step(f) ==
  \/ \E es \in EnvironmentSets : RunStarts(f, es)
  \/ \E e \in Environments :
       EnvironmentBuilt(f, e) \/ WriteBundle(f, e)
  \/ BuildFails(f) \/ BuildApp(f) \/ AllBuilt(f)
  \/ Claim(f) \/ ClaimFails(f) \/ Refuse(f) \/ Publish(f) \/ PublishFails(f)
  \/ Commit(f) \/ CommitFails(f) \/ Rollback(f) \/ RollbackFails(f)

ViteNext == (\E k \in Keys : Produce(k)) \/ \E f \in Finalizers : Step(f)

ViteSpec == ViteInit /\ [][ViteNext]_viteVars

-----------------------------------------------------------------------------
(* Properties.                                                             *)

Output == [environment: Environments, run: Nat, generation: Nat]

ViteTypeOK ==
  /\ pc \in [Finalizers -> {"idle", "framework", "orchestrating", "claiming", "checking",
                            "committing", "aborting"}]
  /\ run \in [Finalizers -> Nat] /\ generation \in [Finalizers -> Nat]
  /\ environments \in [Finalizers -> SUBSET Environments]
  /\ built \in [Finalizers -> SUBSET Environments]
  /\ saved \in [Finalizers -> SUBSET Output]
  /\ revision \in Nat /\ external \in [Keys -> 0 .. revision]
  /\ claims \subseteq [owner: Finalizers, run: Nat, outputs: SUBSET Output,
                      external: SUBSET (Keys \X (1 .. revision))]
  /\ snapshots \subseteq [owner: Finalizers, run: Nat, environments: SUBSET Environments,
                         outputs: SUBSET Output, external: SUBSET (Keys \X (1 .. revision))]
  /\ cut \union uncommitted \union unreleased \subseteq Finalizers \X Nat

(* A snapshot has outputs of all environments of its run and of no others, *)
(* and what an earlier run emitted is in it only if that run and all since *)
(* were cut short before they had a generation: a failed publication never *)
(* leaks into the next one.                                                *)
SnapshotIsOfItsRun ==
  \A s \in snapshots :
    /\ {o.environment : o \in s.outputs} = s.environments
    /\ \A o \in s.outputs : \A r \in o.run .. s.run - 1 : <<s.owner, r>> \in cut

(* Two builds publish the same output of a producer only if the one that   *)
(* published it first could not commit.                                    *)
ExternalPublishedOnce ==
  \A s, t \in snapshots :
    s # t /\ s.external \intersect t.external # {} =>
      {<<s.owner, s.run>>, <<t.owner, t.run>>} \intersect uncommitted # {}

(* A build that has ended claims nothing, however it ended, unless the     *)
(* store refused its rollback: others may claim what it did not publish.   *)
ClaimsEndWithBuild ==
  \A c \in claims :
    \/ c.run = run[c.owner] /\ pc[c.owner] \in {"checking", "committing", "aborting"}
    \/ <<c.owner, c.run>> \in unreleased

=============================================================================
