--------------------------- MODULE MCZephyrEngine ---------------------------
(* Small instances of ZephyrEngine: successive builds of a watch session,  *)
(* or the two outputs of one bundle written in parallel.                   *)
EXTENDS ZephyrEngine
=============================================================================
