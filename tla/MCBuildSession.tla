--------------------------- MODULE MCBuildSession ---------------------------
(* A small instance of BuildSession: two required compilers and an optional *)
(* one, a postprocessor, and asset maps of which some pairs collide.        *)
EXTENDS BuildSession

CONSTANTS client, server, extra, pages, main, path1, path2, hash1, hash2

\* The second map collides with the first by path, the third by hash.
MCAssetMaps ==
  { {[path |-> path1, hash |-> hash1]},
    {[path |-> path1, hash |-> hash2]},
    {[path |-> path2, hash |-> hash1]} }
=============================================================================
