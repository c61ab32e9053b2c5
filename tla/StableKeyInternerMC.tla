------------------------ MODULE StableKeyInternerMC ------------------------
(* Instances of StableKeyInterner for TLC, and the sequential interner as a
   fold, with which NumberedInOrder is compared. *)
EXTENDS StableKeyInterner, TLC
LOCAL INSTANCE SequencesExt

CONSTANTS k0, k1, k2

MCKeys == {k0, k1, k2}
MCExisting == <<k0>>

\* intern on a bare sequence of keys: the sequential interner.
InternAll(known, texts) ==
  FoldLeft(LAMBDA acc, k : IF Contains(acc, k) THEN acc ELSE Append(acc, k), known, texts)

\* The keys a single thread would have interned, task after task.
SequentialKeys(asks) == FoldLeft(InternAll, Existing, asks)

\* NumberedInOrder says of a table that it is a beginning of the sequential one: for
\* what two tasks may ask for, and every table of up to four keys.
ASSUME OrderIsSequential ==
  \A asks \in [1..2 -> BoundedSeq(Keys, 2)] : \A s \in BoundedSeq(Keys, 4) :
    NumberedInOrder(s, Existing, asks)
      <=> IsPrefix(Existing, s) /\ IsPrefix(s, SequentialKeys(asks))

=============================================================================
