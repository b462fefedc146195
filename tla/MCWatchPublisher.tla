-------------------------- MODULE MCWatchPublisher --------------------------
(* Two assets and a sidecar, all of them below the watched directory.      *)
EXTENDS WatchPublisher

CONSTANTS bundle, descriptor, metadata
=============================================================================
