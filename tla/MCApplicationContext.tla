------------------------ MODULE MCApplicationContext ------------------------
(* ApplicationContext with a handful of generations, some of them skipped. *)
EXTENDS ApplicationContext

CONSTANT MaxGeneration

MCGenerations == 0 .. MaxGeneration
=============================================================================
