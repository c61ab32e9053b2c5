-------------------------- MODULE RuleHostStoreMC --------------------------
(* Instances of RuleHostStore for TLC. *)
EXTENDS RuleHostStore, TLC

\* Processes, checkouts and lockfile contents are interchangeable; sources are
\* not, since Shareable tells them apart.
Symmetry == Permutations(Procs) \union Permutations(Checkouts) \union Permutations(LockFiles)

=============================================================================
