--------------------------- MODULE MCNativeCache ---------------------------
(* A small instance of NativeCache. *)
EXTENDS NativeCache, TLC

Symmetry == Permutations(Hashes)
=============================================================================
