--------------------------- MODULE SidecarCacheMC ---------------------------
(* Instances of SidecarCache for TLC. *)
EXTENDS SidecarCache, TLC

\* Processes are interchangeable, and so are source files.
Symmetry == Permutations(Procs) \union Permutations(Files)

=============================================================================
