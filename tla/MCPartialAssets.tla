-------------------------- MODULE MCPartialAssets ---------------------------
(* Two scopes and two finalizers that overlap: the first needs both        *)
(* scopes, the second only the shared one.                                 *)
EXTENDS PartialAssets

CONSTANTS environments, external, client, first, second

MCWanted == [f \in Finalizers |-> IF f = first THEN {environments, external}
                                               ELSE {external}]
=============================================================================
