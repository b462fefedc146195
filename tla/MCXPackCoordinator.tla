------------------------ MODULE MCXPackCoordinator ------------------------
(* Instances of XPackCoordinator: two compilers share a file, and a third   *)
(* one, where there is one, shares another with the first.  While sources   *)
(* may be edited at any moment MCSpec has a single edit.                    *)
EXTENDS XPackCoordinator, TLC

CONSTANTS client, server, extra, shared, own

MCReads == shared :> ({client, server} \intersect Participants)
        @@ own    :> ({client, extra} \intersect Participants)

MCNext == Next /\ (mode = "busy" => rev' <= 1)

MCSpec == Init /\ [][MCNext]_vars /\ Progress
===========================================================================
