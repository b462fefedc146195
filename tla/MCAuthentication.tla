-------------------------- MODULE MCAuthentication --------------------------
(* Three builds of a monorepo that log in at the same time.                *)
EXTENDS Authentication

CONSTANTS p1, p2, p3

Plain == [expired |-> FALSE, rejects |-> FALSE, crashes |-> FALSE]

(* Everyone may die; or tokens expire and are rejected, and nobody dies.   *)
MCSettings == {[Plain EXCEPT !.crashes = TRUE],
               [Plain EXCEPT !.expired = TRUE, !.rejects = TRUE]}
=============================================================================
