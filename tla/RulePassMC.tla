----------------------------- MODULE RulePassMC -----------------------------
(* Instances of RulePass for TLC. *)
EXTENDS RulePass

CONSTANTS a, b

\* Three rules, the first and the last with one id; the first two may wait for parallel
\* work, and each may end in any way, but for the second, which does not fail.
SmallSuites ==
  { [id |-> <<a, b, a>>, fate |-> fate, events |-> <<1, 2, 1>>, waits |-> waits, parallel |-> parallel] :
      fate \in {f \in [1..3 -> Fates] : f[2] # "fails"}, waits \in {{}, {1, 2}}, parallel \in BOOLEAN }
=============================================================================
