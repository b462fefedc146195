---------------------------- MODULE MCTapLifecycle ----------------------------
(* Small instances of TapLifecycle: one transition with every deferral, or  *)
(* two that are neither forced nor deferred.                                *)
EXTENDS TapLifecycle

CONSTANTS mount, c1

Plain(r) == ~ r.force /\ r.longest = 0 /\ r.deadline = 1

MCNext == Next /\ (count' > 1 => \A i \in Ids : tr'[i].pc = "none" \/ Plain(tr'[i]))

MCSpec == Init /\ [][MCNext]_vars /\ Progress
=============================================================================
