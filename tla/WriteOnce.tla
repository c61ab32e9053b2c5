----------------------------- MODULE WriteOnce -----------------------------
(***************************************************************************)
(* What the sidecar cache promises its callers: a shelf that is filled at  *)
(* most once with one build, and is never changed after that, and callers  *)
(* that are each answered once, with what is on a shelf.                   *)
(***************************************************************************)
CONSTANTS
  Shelves,   \* where a build may be kept
  Callers,   \* who may ask for one
  Builds,    \* what may be kept
  Nothing    \* no build, no answer

VARIABLES
  shelf,     \* shelf[d]: the build kept at d
  answer     \* answer[p]: the shelf caller p was sent to, and what it was given

Init ==
  /\ shelf = [d \in Shelves |-> Nothing]
  /\ answer = [p \in Callers |-> Nothing]

Fill(d, b) ==
  /\ shelf[d] = Nothing
  /\ shelf' = [shelf EXCEPT ![d] = b]
  /\ UNCHANGED answer

Answer(p, d) ==
  /\ answer[p] = Nothing
  /\ shelf[d] # Nothing
  /\ answer' = [answer EXCEPT ![p] = [shelf |-> d, build |-> shelf[d]]]
  /\ UNCHANGED shelf

Next ==
  \/ \E d \in Shelves, b \in Builds : Fill(d, b)
  \/ \E p \in Callers, d \in Shelves : Answer(p, d)

Spec == Init /\ [][Next]_<<shelf, answer>>

=============================================================================
