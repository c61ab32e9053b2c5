---------------------------- MODULE LayerCacheMC ----------------------------
(* Instances of LayerCache for TLC. *)
EXTENDS LayerCache

\* Every version has facts of its own.
OwnFacts == [v \in Versions |-> v]
=============================================================================
