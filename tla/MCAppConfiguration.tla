------------------------- MODULE MCAppConfiguration -------------------------
(* Two callers of one application, and one login by another process; a     *)
(* request may be tried three times, with pauses of 1 and 2 units or what  *)
(* the server asks for, and the platform may answer for the other          *)
(* application.                                                            *)
EXTENDS AppConfiguration

CONSTANTS c1, c2, shop, cart

MCApplicationOf == [c \in Callers |-> shop]

(* The stored token is that of an earlier login until somebody logs in. *)
MCInit == Init /\ token = "old"

MCNext == Next /\ (token' = "old" => token = "old")

MCSpec == MCInit /\ [][MCNext]_vars

=============================================================================
