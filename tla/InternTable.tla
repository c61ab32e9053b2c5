---------------------------- MODULE InternTable ----------------------------
(***************************************************************************)
(* What the shared stable-key interner promises its callers: a table of    *)
(* texts that only grows at its end, and an intern that looks a text up,   *)
(* appends it if it is new and answers with its position, all at once.     *)
(***************************************************************************)
EXTENDS Naturals, Sequences

CONSTANTS
  Keys,       \* the key texts
  Existing    \* the table before the first call

VARIABLES
  table,      \* the texts; the id of table[i] is i - 1
  given       \* every answer so far, as the text asked for and the id answered

Holds(tab, k) == \E i \in 1..Len(tab) : tab[i] = k

IdOf(tab, k) == (CHOOSE i \in 1..Len(tab) : tab[i] = k) - 1

Init ==
  /\ table = Existing
  /\ given = {}

Intern(k) ==
  /\ table' = IF Holds(table, k) THEN table ELSE Append(table, k)
  /\ given' = given \union {[key |-> k, id |-> IdOf(table', k)]}

Next == \E k \in Keys : Intern(k)

Spec == Init /\ [][Next]_<<table, given>>

=============================================================================
