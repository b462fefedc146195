---------------------------- MODULE MCViteAdapter ----------------------------
(* A process that builds a client, with or without a server, three times,  *)
(* and a second finalizer that competes for the output of one producer.    *)
EXTENDS ViteAdapter

CONSTANTS client, server, first, second

MCEnvironmentSets == {{client, server}, {client}}

MCMaxRuns == [f \in {first, second} |-> IF f = first THEN 3 ELSE 1]

(* The second is there for the producer's output: it has a client only. *)
MCNext ==
  \/ \E k \in Keys : Produce(k)
  \/ Step(first)
  \/ Step(second) /\ server \notin environments'[second]

MCSpec == ViteInit /\ [][MCNext]_viteVars
=============================================================================
