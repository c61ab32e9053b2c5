----------------------------- MODULE AtomicPass -----------------------------
(***************************************************************************)
(* What a pass over the rules promises, whatever runs them: each rule runs *)
(* once, at one moment and undisturbed by the others, its row stays as it  *)
(* was until the pass returns, and the pass returns when every rule has    *)
(* its row, with the diagnostics of all of them.  Then there may be        *)
(* another pass.                                                           *)
(***************************************************************************)
CONSTANTS
  Rules,   \* the registered rules
  None     \* no row

VARIABLES
  may,     \* may[i]: the rows that rule i may get when it runs
  row,     \* row[i]: the row of rule i, once it has run
  result   \* what the pass returned, as a set of one, or of none so far

Init ==
  /\ row = [i \in Rules |-> None]
  /\ result = {}

Run(i) ==
  /\ row[i] = None
  /\ \E r \in may[i] : row' = [row EXCEPT ![i] = r]
  /\ UNCHANGED <<may, result>>

Return ==
  /\ result = {} /\ \A i \in Rules : row[i] # None
  /\ result' = {UNION {row[i].diagnostics : i \in Rules}}
  /\ UNCHANGED <<may, row>>

Again ==
  /\ result # {}
  /\ row' = [i \in Rules |-> None]
  /\ result' = {}
  /\ UNCHANGED may

Next == (\E i \in Rules : Run(i)) \/ Return \/ Again

Spec == Init /\ [][Next]_<<may, row, result>>

=============================================================================
