------------------------- MODULE SidecarCacheProofs -------------------------
(***************************************************************************)
(* Proofs about SidecarCache, for any number of processes and of files:    *)
(* what is handed out is sound and stays, as WriteOnce says, refusals are  *)
(* explained, and every process gets nearer to its answer.                 *)
(***************************************************************************)
EXTENDS SidecarCache, Naturals, TLAPS

\* The steps at which a process has a source directory, and those of them it takes
\* with the binary cache lock.
HasSources ==
  {"walk", "published", "lost", "rewalk", "lookup", "compare", "locking", "recheck", "build",
   "link", "exists_already", "receipt", "confirm", "ok"}
Locked == {"recheck", "build", "link", "exists_already", "receipt", "confirm"}

Undamaged  == "damage" \notin Faults
OnlyKilled == Faults \subseteq {"crash"}
Faultless  == Faults = {}

\* The directories that nobody damages: a process's own fallback in any case.
Intact == IF Undamaged THEN Dirs ELSE Procs

\* A directory is visible only complete.
AllOrNothing ==
  /\ \A p \in Procs : pc[p] = "rename" => staging[p] = Parts
  /\ \A d \in Intact : sources[d] \in {Absent, Parts}

\* A receipt is published only for the build beside it.
Paired ==
  /\ \A d \in Intact : receipt[d] # Absent => receipt[d] \in Procs /\ receipt[d] = binary[d]
  /\ \A p \in Procs : at[p] \in Intact =>
       /\ pc[p] = "receipt" => binary[at[p]] = p
       /\ pc[p] = "compare" /\ seen[p] # Absent => receipt[at[p]] = seen[p]

\* A process knows the sources to be there once it has seen them.
SourcesSeen ==
  \A p \in Procs : at[p] \in Intact /\ pc[p] \in HasSources \ {"lost"} => Verified(at[p])

\* What a process was given in a directory that nobody damages is there to stay.
IntactSound ==
  \A p \in Procs : at[p] \in Intact /\ pc[p] = "ok" => Verified(at[p]) /\ Matches(at[p])

SoundInv == TypeOK /\ AllOrNothing /\ Paired /\ SourcesSeen /\ IntactSound

\* They are directories of the model.
LEMMA IntactDirs == Intact \subseteq Dirs
  BY DEF Intact, Dirs

\* The initial states.
LEMMA SoundInit == Init => SoundInv
<1> SUFFICES ASSUME Init PROVE SoundInv
  OBVIOUS
<1>1. TypeOK
  <2>1. sources \in [Dirs -> (SUBSET Parts) \union {Absent, Spoiled}]
    BY DEF Init
  <2>2. binary \in [Dirs -> Builds] /\ receipt \in [Dirs -> Builds] /\ seen \in [Procs -> Builds]
    BY DEF Init, Builds
  <2>3. lock \in [Dirs -> Procs \union {Absent}] /\ at \in [Procs -> Dirs]
    BY DEF Init, Dirs
  <2>4. pc \in [Procs -> Steps] /\ staging \in [Procs -> SUBSET Parts]
    BY DEF Init, Steps
  <2>5. tripped \subseteq Procs
    BY DEF Init
  <2> QED BY <2>1, <2>2, <2>3, <2>4, <2>5 DEF TypeOK
<1>2. AllOrNothing /\ Paired
  BY IntactDirs DEF Init, AllOrNothing, Paired
<1>3. SourcesSeen /\ IntactSound
  BY DEF Init, SourcesSeen, IntactSound, HasSources
<1> QED BY <1>1, <1>2, <1>3 DEF SoundInv

\* The processes' types.
LEMMA TypeStep == ASSUME TypeOK, Next PROVE TypeOK'
<1> USE DEF TypeOK, Goto, cache, Removes
<1>1. ASSUME NEW p \in Procs, Begin(p) \/ Step(p) \/ Fails(p) \/ Crash(p) PROVE TypeOK'
  <2> USE DEF Dirs, Builds, Steps, Parts
  <2>1. CASE Begin(p) \/ Verify(p) \/ Walk(p) \/ Settle(p) \/ Rewalk(p) \/ Compare(p) \/ Build(p)
    BY <2>1 DEF Begin, Verify, Walk, Settle, Rewalk, Compare, Build
  <2>2. CASE CheckExists(p)
    BY <2>2 DEF CheckExists
  <2>3. ASSUME NEW f \in Parts, WriteFile(p, f) PROVE TypeOK'
    BY <2>3 DEF WriteFile
  <2>4. CASE Rename(p)
    BY <2>4 DEF Rename
  <2>5. CASE Lookup(p)
    BY <2>5 DEF Lookup
  <2>6. CASE Lock(p)
    BY <2>6 DEF Lock
  <2>7. CASE Recheck(p)
    BY <2>7 DEF Recheck, Unlock
  <2>8. CASE Link(p)
    BY <2>8 DEF Link
  <2>9. CASE UseExisting(p) \/ Confirm(p)
    BY <2>9 DEF UseExisting, Confirm, Unlock
  <2>10. CASE PublishReceipt(p)
    BY <2>10 DEF PublishReceipt, Unlock
  <2>11. CASE Fails(p) \/ Crash(p)
    BY <2>11 DEF Fails, Crash, Unlock
  <2> QED BY <1>1, <2>1, <2>2, <2>3, <2>4, <2>5, <2>6, <2>7, <2>8, <2>9, <2>10, <2>11 DEF Step
<1>2. CASE Damage
  <2>1. Shared \in Dirs /\ Absent \in Builds /\ Spoiled \in Builds
    BY DEF Dirs, Builds
  <2>2. CASE UNCHANGED <<binary, receipt>>
    BY <1>2, <2>1, <2>2 DEF Damage
  <2>3. CASE UNCHANGED <<sources, receipt, lock>>
    BY <1>2, <2>1, <2>3 DEF Damage
  <2>4. CASE UNCHANGED <<sources, binary, lock>>
    BY <1>2, <2>1, <2>4 DEF Damage
  <2> QED BY <1>2, <2>2, <2>3, <2>4 DEF Damage
<1>3. CASE Done
  BY <1>3 DEF Done, vars
<1> QED BY <1>1, <1>2, <1>3 DEF Next

\* Every step of a process keeps the invariant.
LEMMA SoundStep ==
  ASSUME SoundInv, TypeOK', NEW p \in Procs, Begin(p) \/ Step(p) \/ Fails(p) \/ Crash(p)
  PROVE  SoundInv'
<1> USE SidecarAssumption, IntactDirs
    DEF SoundInv, TypeOK, AllOrNothing, Paired, SourcesSeen, IntactSound,
        HasSources, Verified, Matches, Goto, cache
<1>1. CASE Begin(p) \/ Verify(p) \/ Build(p)
  BY <1>1 DEF Begin, Verify, Build
<1>2. CASE Walk(p) \/ Settle(p) \/ Rewalk(p)
  BY <1>2 DEF Walk, Settle, Rewalk
<1>3. CASE CheckExists(p)
  BY <1>3 DEF CheckExists
<1>4. ASSUME NEW f \in Parts, WriteFile(p, f) PROVE SoundInv'
  BY <1>4 DEF WriteFile, Parts
<1>5. CASE Rename(p)
  BY <1>5 DEF Rename
<1>6. CASE Lookup(p)
  BY <1>6 DEF Lookup
<1>7. CASE Compare(p)
  BY <1>7 DEF Compare
<1>8. CASE Lock(p)
  BY <1>8 DEF Lock
<1>9. CASE Recheck(p)
  BY <1>9 DEF Recheck
<1>10. CASE Link(p)
  BY <1>10 DEF Link
<1>11. CASE UseExisting(p)
  BY <1>11 DEF UseExisting
<1>12. CASE PublishReceipt(p)
  BY <1>12 DEF PublishReceipt
<1>13. CASE Confirm(p)
  BY <1>13 DEF Confirm
<1>14. CASE Fails(p) \/ Crash(p)
  BY <1>14 DEF Fails, Crash
<1> QED BY <1>1, <1>2, <1>3, <1>4, <1>5, <1>6, <1>7, <1>8, <1>9, <1>10, <1>11, <1>12, <1>13, <1>14
        DEF Step

\* Damage strikes the shared directory only.
LEMMA SoundDamage == ASSUME SoundInv, TypeOK', Damage PROVE SoundInv'
<1>1. Shared \notin Intact
  BY SidecarAssumption DEF Damage, Undamaged, Intact
<1>2. \A d \in Intact : /\ d \in Dirs
                        /\ sources'[d] = sources[d] /\ binary'[d] = binary[d] /\ receipt'[d] = receipt[d]
  BY <1>1 DEF Damage, SoundInv, TypeOK, Intact, Dirs, cache
<1>3. UNCHANGED <<pc, at, staging, seen>>
  BY DEF Damage
<1> QED
  BY <1>2, <1>3 DEF SoundInv, AllOrNothing, Paired, SourcesSeen, IntactSound, Verified, Matches

\* The inductive invariant, in every behaviour.
LEMMA SoundInvariant == Spec => []SoundInv
<1>1. SoundInv /\ [Next]_vars => SoundInv'
  <2> SUFFICES ASSUME SoundInv, [Next]_vars PROVE SoundInv'
    OBVIOUS
  <2>1. CASE UNCHANGED vars
    BY <2>1 DEF vars, SoundInv, TypeOK, AllOrNothing, Paired, SourcesSeen, IntactSound, Verified, Matches
  <2>2. CASE Next
    <3>1. TypeOK'
      BY <2>2, TypeStep DEF SoundInv
    <3>2. CASE Done
      BY <2>1, <3>2 DEF Done
    <3> QED BY <2>2, <3>1, <3>2, SoundStep, SoundDamage DEF Next
  <2> QED BY <2>1, <2>2
<1> QED BY <1>1, SoundInit, PTL DEF Spec

\* Unless the shared directory is damaged, a process that got a sidecar holds
\* complete sources and a receipted build, for as long as it uses them, whoever
\* else publishes, loses a race, fails or is killed.
THEOREM SidecarsStaySound == ASSUME Undamaged PROVE Spec => []SidecarSound
<1>1. SoundInv => SidecarSound
  BY DEF SoundInv, IntactSound, SidecarSound, Intact, TypeOK
<1> QED BY <1>1, SoundInvariant, PTL

\* What a process got in the fallback directory of its own.
FallbackSound ==
  \A p \in Procs : pc[p] = "ok" /\ at[p] # Shared => Verified(at[p]) /\ Matches(at[p])

\* A process that found the shared directory damaged and fell back to one of its own
\* (materialize_embedded_sources_at's second try) has complete sources and a receipted
\* build, whatever else is damaged, fails or is killed.
THEOREM FallbacksStaySound == Spec => []FallbackSound
<1>1. SoundInv => FallbackSound
  BY DEF SoundInv, IntactSound, FallbackSound, Intact, Dirs, TypeOK
<1> QED BY <1>1, SoundInvariant, PTL

\* Every variable keeps its type, damage and crashes included.
THEOREM SidecarTypeCorrect == Spec => []TypeOK
<1>1. Init => TypeOK
  BY SoundInit DEF SoundInv
<1>2. TypeOK /\ [Next]_vars => TypeOK'
  BY TypeStep DEF vars, TypeOK
<1> QED BY <1>1, <1>2, PTL DEF Spec

-----------------------------------------------------------------------------
\* What a process is refused the sidecar for.

\* Who works on a directory's build has its lock; half a pair is in the hands of the
\* process that is about to complete it, or was when that process was killed; and
\* whoever lost a rename finds the winner's.
Exclusive ==
  /\ \A p \in Procs : pc[p] \in Locked => lock[at[p]] = p
  /\ \A p \in Procs : pc[p] \in {"build", "link"} => binary[at[p]] = Absent /\ receipt[at[p]] = Absent
  /\ \A p \in Procs : pc[p] = "receipt" => receipt[at[p]] = Absent
  /\ \A p \in Procs : pc[p] = "confirm" => Matches(at[p])
  /\ \A p \in Procs : pc[p] # "exists_already"
  /\ \A d \in Dirs : binary[d] # Absent /\ receipt[d] = Absent =>
       /\ binary[d] \in Procs
       /\ \/ pc[binary[d]] = "dead"
          \/ pc[binary[d]] = "receipt" /\ at[binary[d]] = d
  /\ \A p \in Procs : pc[p] = "lost" => Verified(at[p])

RaceInv == SoundInv /\ Exclusive /\ RefusedForCause

\* One step of a process that does not fail by itself.
LEMMA RaceStep ==
  ASSUME RaceInv, SoundInv', OnlyKilled, NEW p \in Procs, Begin(p) \/ Step(p) \/ Crash(p)
  PROVE  Exclusive' /\ RefusedForCause'
<1> USE SidecarAssumption DEF RaceInv, SoundInv, TypeOK, AllOrNothing, Paired, SourcesSeen, Exclusive,
        RefusedForCause, Locked, HasSources, Verified, Matches, Goto, cache, OnlyKilled, Removes
<1>0. Intact = Dirs
  BY DEF Intact, Undamaged
<1>1. CASE Begin(p) \/ Verify(p) \/ Build(p)
  BY <1>0, <1>1 DEF Begin, Verify, Build
<1>2. CASE Walk(p) \/ Settle(p) \/ Rewalk(p)
  BY <1>0, <1>2 DEF Walk, Settle, Rewalk, WalkFails
<1>3. CASE CheckExists(p)
  BY <1>0, <1>3 DEF CheckExists
<1>4. ASSUME NEW f \in Parts, WriteFile(p, f) PROVE Exclusive' /\ RefusedForCause'
  BY <1>0, <1>4 DEF WriteFile
<1>5. CASE Rename(p)
  BY <1>0, <1>5 DEF Rename
<1>6. CASE Lookup(p)
  BY <1>0, <1>6 DEF Lookup
<1>7. CASE Compare(p)
  BY <1>0, <1>7 DEF Compare
<1>8. CASE Lock(p)
  BY <1>0, <1>8 DEF Lock
<1>9. CASE Recheck(p)
  BY <1>0, <1>9 DEF Recheck, Unlock
<1>10. CASE Link(p)
  BY <1>0, <1>10 DEF Link
<1>11. CASE UseExisting(p)
  BY <1>0, <1>11 DEF UseExisting
<1>12. CASE PublishReceipt(p)
  BY <1>0, <1>12 DEF PublishReceipt, Unlock
<1>13. CASE Confirm(p)
  BY <1>0, <1>13 DEF Confirm, Unlock
<1>14. CASE Crash(p)
  BY <1>0, <1>14 DEF Crash, Unlock
<1> QED BY <1>1, <1>2, <1>3, <1>4, <1>5, <1>6, <1>7, <1>8, <1>9, <1>10, <1>11, <1>12, <1>13, <1>14 DEF Step

\* Where processes do nothing worse than be killed, nobody is refused the sidecar but
\* for a binary that a killed process left without its receipt, or for a staging file
\* that another process removed while verified_embedded_directory walked the directory.
THEOREM RefusalsExplained == ASSUME OnlyKilled PROVE Spec => []RefusedForCause
<1>1. Init => RaceInv
  <2> SUFFICES ASSUME Init PROVE Exclusive /\ RefusedForCause
    BY SoundInit DEF RaceInv
  <2> QED BY DEF Init, Exclusive, RefusedForCause, Locked
<1>2. RaceInv /\ [Next]_vars => RaceInv'
  <2> SUFFICES ASSUME RaceInv, [Next]_vars PROVE RaceInv'
    OBVIOUS
  <2>1. CASE UNCHANGED vars
    BY <2>1 DEF vars, RaceInv, SoundInv, TypeOK, AllOrNothing, Paired, SourcesSeen, IntactSound,
       Exclusive, RefusedForCause, Verified, Matches
  <2>2. CASE Done
    BY <2>1, <2>2 DEF Done
  <2>3. ASSUME NEW p \in Procs, Begin(p) \/ Step(p) \/ Crash(p) PROVE RaceInv'
    <3>1. TypeOK'
      BY <2>3, TypeStep DEF RaceInv, SoundInv, Next
    <3>2. SoundInv'
      BY <2>3, <3>1, SoundStep DEF RaceInv
    <3> QED BY <2>3, <3>2, RaceStep DEF RaceInv
  <2> QED BY <2>1, <2>2, <2>3 DEF Next, Fails, Damage, OnlyKilled
<1>3. RaceInv => RefusedForCause
  BY DEF RaceInv
<1> QED BY <1>1, <1>2, <1>3, PTL DEF Spec

\* What a race can cost a process when nothing goes wrong.
TrippedOrAnswered == \A p \in Procs : pc[p] = "err" => p \in tripped

\* Without damage, failures and crashes only one race fails anybody: that of the walk
\* which verifies a directory once more after the rename, with the removal of another
\* process's staging file.  The races for the directory, the lock, the binary and the
\* receipt cost no one an answer.
THEOREM OnlyTheWalkFails == ASSUME Faultless PROVE Spec => []TrippedOrAnswered
<1> DEFINE Alive == TypeOK /\ \A p \in Procs : pc[p] # "dead"
<1>1. Init => Alive
  BY SoundInit DEF SoundInv, Init
<1>2. Alive /\ [Next]_vars => Alive'
  <2> SUFFICES ASSUME Alive, [Next]_vars PROVE Alive'
    OBVIOUS
  <2>1. TypeOK'
    BY TypeStep DEF vars, TypeOK
  <2>2. CASE UNCHANGED pc
    BY <2>1, <2>2
  <2>3. ASSUME NEW p \in Procs, Begin(p) \/ Step(p) PROVE Alive'
    BY <2>1, <2>3 DEF TypeOK, Goto, Begin, Step, Verify, Walk, CheckExists, WriteFile, Rename, Settle, Rewalk, Lookup,
       Compare, Lock, Recheck, Build, Link, UseExisting, PublishReceipt, Confirm
  <2> QED BY <2>2, <2>3 DEF Next, Done, vars, Fails, Crash, Damage, Faultless
<1>3. Alive /\ RefusedForCause => TrippedOrAnswered
  BY DEF RefusedForCause, TrippedOrAnswered
<1>4. OnlyKilled
  BY DEF OnlyKilled, Faultless
<1>5. Spec => []RefusedForCause
  BY <1>4, RefusalsExplained
<1> QED BY <1>1, <1>2, <1>3, <1>5, PTL DEF Spec

-----------------------------------------------------------------------------
\* What is published.

\* What may become of what a directory holds
KeptForGood ==
  \A d \in Dirs :
    /\ sources[d] # Absent => sources'[d] = sources[d]
    /\ binary[d] # Absent => binary'[d] = binary[d]
    /\ receipt[d] # Absent => receipt'[d] = receipt[d]

\* A rename or a hard link puts something where there was nothing; no other step of a
\* process touches a directory.
LEMMA StepKeeps == ASSUME TypeOK, [Next]_vars PROVE Damage \/ KeptForGood
<1>1. CASE UNCHANGED <<sources, binary, receipt>>
  BY <1>1 DEF KeptForGood
<1>2. ASSUME NEW p \in Procs, Rename(p) PROVE KeptForGood
  BY <1>2 DEF Rename, cache, KeptForGood, TypeOK
<1>3. ASSUME NEW p \in Procs, Link(p) PROVE KeptForGood
  BY <1>3 DEF Link, KeptForGood, TypeOK
<1>4. ASSUME NEW p \in Procs, PublishReceipt(p) PROVE KeptForGood
  BY <1>4 DEF PublishReceipt, KeptForGood, TypeOK
<1>5. ASSUME NEW p \in Procs, Begin(p) \/ Fails(p) \/ Crash(p) PROVE UNCHANGED <<sources, binary, receipt>>
  BY <1>5 DEF Begin, Fails, Crash, cache
<1>6. ASSUME NEW p \in Procs, Step(p)
      PROVE  \/ Rename(p) \/ Link(p) \/ PublishReceipt(p)
             \/ UNCHANGED <<sources, binary, receipt>>
  BY <1>6 DEF Step, Verify, Walk, CheckExists, WriteFile, Settle, Rewalk, Lookup, Compare, Lock, Recheck, Build,
              UseExisting, Confirm, cache
<1>7. CASE UNCHANGED vars
  BY <1>1, <1>7 DEF vars
<1> QED
  BY <1>1, <1>2, <1>3, <1>4, <1>5, <1>6, <1>7 DEF Next, Done

\* Whatever crashes, fails or is damaged, what a process has published in
\* materialize_embedded_sources_at or ensure_sidecar_binary is never replaced or
\* withdrawn by a process.
THEOREM NothingWithdrawn == Spec => PublishedForGood
<1>1. TypeOK /\ [Next]_vars => [Damage \/ KeptForGood]_vars
  BY StepKeeps
<1> QED
  BY <1>1, SidecarTypeCorrect, PTL DEF Spec, PublishedForGood, KeptForGood

-----------------------------------------------------------------------------
\* The cache implements WriteOnce.

\* A process has its answer when it gets to "ok", and not before or after.
AnswerOf(p) == IF pc[p] = "ok" THEN [shelf |-> at[p], build |-> Kept(at[p])] ELSE Absent

\* Without damage a full shelf stays as it is.
LEMMA ShelfStays ==
  ASSUME SoundInv, Undamaged, [Next]_vars, NEW d \in Dirs, Kept(d) # Absent
  PROVE  Kept(d)' = Kept(d)
<1>1. KeptForGood
  BY StepKeeps DEF SoundInv, Damage, Undamaged
<1>2. Verified(d) /\ Matches(d)
  BY DEF Kept
<1> QED
  BY <1>1, <1>2, SidecarAssumption, PartsAssumption DEF KeptForGood, Kept, Verified, Matches

\* An empty one stays empty, or a process completes what is there with its build.
LEMMA ShelfFilled ==
  ASSUME SoundInv, Undamaged, NEW p \in Procs, Begin(p) \/ Step(p) \/ Fails(p) \/ Crash(p)
  PROVE  \/ \A d \in Dirs : Kept(d)' = Kept(d)
         \/ \E e \in Dirs, b \in Procs :
              /\ Kept(e) = Absent /\ Kept(e)' = b
              /\ \A d \in Dirs \ {e} : Kept(d)' = Kept(d)
              /\ UNCHANGED at /\ \A q \in Procs : pc[q] = "ok" <=> pc'[q] = "ok"
<1> USE SidecarAssumption, PartsAssumption DEF Kept, Verified, Matches, SoundInv, TypeOK
<1>1. CASE UNCHANGED <<sources, binary, receipt>>
  BY <1>1
<1>2. ASSUME NEW e \in Dirs, at[p] = e, UNCHANGED at, pc[p] # "ok", pc'[p] # "ok",
             pc' = [pc EXCEPT ![p] = pc'[p]], Kept(e) = Absent,
             \A d \in Dirs \ {e} : sources'[d] = sources[d] /\ binary'[d] = binary[d] /\ receipt'[d] = receipt[d]
      PROVE  \/ \A d \in Dirs : Kept(d)' = Kept(d)
             \/ \E b \in Procs :
                  /\ Kept(e) = Absent /\ Kept(e)' = b
                  /\ \A d \in Dirs \ {e} : Kept(d)' = Kept(d)
                  /\ UNCHANGED at /\ \A q \in Procs : pc[q] = "ok" <=> pc'[q] = "ok"
  BY <1>2
<1>3. CASE Rename(p)
  BY <1>1, <1>2, <1>3 DEF Rename, Goto, cache
<1>4. CASE Link(p)
  BY <1>1, <1>2, <1>4 DEF Link, Goto
<1>5. CASE PublishReceipt(p)
  BY <1>1, <1>2, <1>5 DEF PublishReceipt, Goto
<1>6. ASSUME Begin(p) \/ Fails(p) \/ Crash(p) PROVE UNCHANGED <<sources, binary, receipt>>
  BY <1>6 DEF Begin, Fails, Crash, cache
<1>7. ASSUME Step(p)
      PROVE  \/ Rename(p) \/ Link(p) \/ PublishReceipt(p)
             \/ UNCHANGED <<sources, binary, receipt>>
  BY <1>7 DEF Step, Verify, Walk, CheckExists, WriteFile, Settle, Rewalk, Lookup, Compare, Lock, Recheck, Build,
              UseExisting, Confirm, cache
<1> QED
  BY <1>1, <1>3, <1>4, <1>5, <1>6, <1>7

\* What was answered stands: the shelf a process was sent to is full.
LEMMA AnswersStand ==
  ASSUME SoundInv, Undamaged, [Next]_vars, NEW q \in Procs, pc[q] = "ok", pc'[q] = "ok", at'[q] = at[q]
  PROVE  AnswerOf(q)' = AnswerOf(q)
<1>1. at[q] \in Dirs /\ at[q] \in Intact
  BY DEF SoundInv, TypeOK, Intact
<1>2. Kept(at[q]) # Absent
  BY <1>1, SidecarAssumption DEF SoundInv, IntactSound, Kept, Matches
<1>3. \A d \in Dirs : d = at[q] => Kept(d)' = Kept(d)
  BY <1>2, ShelfStays
<1>4. Kept(at[q])' = Kept(at[q])
  BY <1>1, <1>3 DEF Kept, Verified, Matches
<1> QED
  BY <1>4 DEF AnswerOf

\* A step of a process changes no answer, or is the one that gives it its own, from a
\* shelf that is full.
LEMMA AnswerGiven ==
  ASSUME SoundInv, Undamaged, NEW p \in Procs, Begin(p) \/ Step(p) \/ Fails(p) \/ Crash(p)
  PROVE  \/ \A q \in Procs : AnswerOf(q)' = AnswerOf(q)
         \/ /\ AnswerOf(p) = Absent
            /\ Kept(at[p]) # Absent
            /\ AnswerOf(p)' = [shelf |-> at[p], build |-> Kept(at[p])]
            /\ \A q \in Procs \ {p} : AnswerOf(q)' = AnswerOf(q)
            /\ UNCHANGED <<sources, binary, receipt>>
<1>0. Next /\ pc \in [Procs -> Steps] /\ at \in [Procs -> Dirs] /\ \A d \in Dirs : d \in Intact
  BY DEF Next, SoundInv, TypeOK, Intact
<1>1. ASSUME NEW q \in Procs, q # p PROVE AnswerOf(q)' = AnswerOf(q)
  <2>1. pc'[q] = pc[q] /\ at'[q] = at[q]
    BY <1>0, <1>1 DEF Begin, Step, Fails, Crash, Verify, Walk, CheckExists, WriteFile, Rename, Settle, Rewalk, Lookup,
       Compare, Lock, Recheck, Build, Link, UseExisting, PublishReceipt, Confirm, Goto
  <2> QED
    BY <1>0, <2>1, AnswersStand DEF AnswerOf
<1>2. pc[p] # "ok"
  BY DEF Begin, Step, Fails, Crash, Verify, Walk, CheckExists, WriteFile, Rename, Settle, Rewalk, Lookup,
     Compare, Lock, Recheck, Build, Link, UseExisting, PublishReceipt, Confirm, Goto
<1>3. CASE pc'[p] # "ok"
  BY <1>1, <1>2, <1>3 DEF AnswerOf
<1>4. CASE pc'[p] = "ok"
  <2>1. Compare(p) \/ Recheck(p) \/ UseExisting(p) \/ Confirm(p)
    BY <1>0, <1>2, <1>4 DEF Begin, Step, Fails, Crash, Verify, Walk, CheckExists, WriteFile, Rename, Settle, Rewalk, Lookup,
       Lock, Build, Link, PublishReceipt, Goto
  <2>2. UNCHANGED <<sources, binary, receipt>> /\ UNCHANGED at
    BY <2>1 DEF Compare, Recheck, UseExisting, Confirm, cache
  <2>3. pc[p] \in HasSources \ {"lost"}
    BY <2>1 DEF Compare, Recheck, UseExisting, Confirm, Goto, HasSources
  <2>4. Verified(at[p])
    BY <1>0, <2>3 DEF SoundInv, SourcesSeen
  <2>5. Matches(at[p])
    BY <1>0, <1>4, <2>1, SidecarAssumption
    DEF Compare, Recheck, UseExisting, Confirm, Goto, Matches, SoundInv, Paired
  <2>6. Kept(at[p]) # Absent /\ Kept(at[p])' = Kept(at[p])
    BY <2>2, <2>4, <2>5, SidecarAssumption DEF Kept, Matches, Verified
  <2> QED
    BY <1>1, <1>2, <1>4, <2>2, <2>6 DEF AnswerOf
<1> QED BY <1>3, <1>4

\* One step of the cache is one step of the shelf, or none that it shows.
LEMMA ShelfStep ==
  ASSUME SoundInv, Undamaged, [Next]_vars
  PROVE  [Shelf!Next]_<<[d \in Dirs |-> Kept(d)], [p \in Procs |-> AnswerOf(p)]>>
<1> DEFINE shelf  == [d \in Dirs |-> Kept(d)]
           answer == [p \in Procs |-> AnswerOf(p)]
<1>1. CASE UNCHANGED vars
  BY <1>1 DEF vars, Kept, AnswerOf, Verified, Matches
<1>2. ASSUME NEW p \in Procs, Begin(p) \/ Step(p) \/ Fails(p) \/ Crash(p)
      PROVE  [Shelf!Next]_<<shelf, answer>>
  <2>1. CASE \E e \in Dirs, b \in Procs :
               /\ Kept(e) = Absent /\ Kept(e)' = b
               /\ \A d \in Dirs \ {e} : Kept(d)' = Kept(d)
               /\ UNCHANGED at /\ \A q \in Procs : pc[q] = "ok" <=> pc'[q] = "ok"
    <3>1. PICK e \in Dirs, b \in Procs :
               /\ Kept(e) = Absent /\ Kept(e)' = b
               /\ \A d \in Dirs \ {e} : Kept(d)' = Kept(d)
               /\ UNCHANGED at /\ \A q \in Procs : pc[q] = "ok" <=> pc'[q] = "ok"
      BY <2>1
    <3>2. \A q \in Procs : AnswerOf(q)' = AnswerOf(q)
      BY <3>1, AnswersStand DEF AnswerOf
    <3>3. Shelf!Fill(e, b)
      BY <3>1, <3>2 DEF Shelf!Fill, AnswerOf
    <3> QED BY <3>3 DEF Shelf!Next
  <2>2. CASE \A d \in Dirs : Kept(d)' = Kept(d)
    <3>1. CASE \A q \in Procs : AnswerOf(q)' = AnswerOf(q)
      BY <2>2, <3>1
    <3>2. CASE /\ AnswerOf(p) = Absent
               /\ Kept(at[p]) # Absent
               /\ AnswerOf(p)' = [shelf |-> at[p], build |-> Kept(at[p])]
               /\ \A q \in Procs \ {p} : AnswerOf(q)' = AnswerOf(q)
      <4>1. PICK d \in Dirs : d = at[p]
        BY DEF SoundInv, TypeOK
      <4>2. Shelf!Answer(p, d)
        BY <2>2, <3>2, <4>1 DEF Shelf!Answer, AnswerOf
      <4> QED BY <4>2 DEF Shelf!Next
    <3> QED BY <1>2, <3>1, <3>2, AnswerGiven
  <2> QED BY <1>2, <2>1, <2>2, ShelfFilled
<1>3. CASE Done
  BY <1>1, <1>3 DEF Done
<1> QED
  BY <1>1, <1>2, <1>3 DEF Next, Damage, Undamaged

\* The cache of embedded sources and sidecar builds implements WriteOnce: for any
\* number of processes racing, failing or being killed in materialize_embedded_sources
\* and ensure_sidecar_binary, a directory gets one sidecar at one moment, and everybody
\* who is answered from it has that one.
THEOREM CacheIsWriteOnce == ASSUME Undamaged PROVE Spec => FilledOnce
<1>1. Init => Shelf!Init
  BY SidecarAssumption, PartsAssumption DEF Init, Shelf!Init, Kept, Verified, Matches
<1>2. SoundInv /\ [Next]_vars => [Shelf!Next]_<<[d \in Dirs |-> Kept(d)], [p \in Procs |-> AnswerOf(p)]>>
  BY ShelfStep
<1> QED
  BY <1>1, <1>2, SoundInvariant, PTL DEF Spec, FilledOnce, Shelf!Spec, AnswerOf

-----------------------------------------------------------------------------
\* Everyone is answered: the part of it that is safety.

\* A lock is held by a process that is at work under it; a process works in the shared
\* directory or in its own, where there is nothing until it puts it there; and one that
\* stages files has not written the marker.
ProgressInv ==
  /\ \A d \in Dirs : lock[d] # Absent => pc[lock[d]] \in Locked /\ at[lock[d]] = d
  /\ \A p \in Procs :
       /\ at[p] \in {Shared, p}
       /\ at[p] = Shared \/ pc[p] \in {"idle", "verify", "walk", "exists", "stage", "rename"} =>
            sources[p] = Absent
       /\ pc[p] = "stage" => Marker \notin staging[p]

\* Each step of a process keeps it, also when it fails or is killed.
LEMMA ProgressStep ==
  ASSUME TypeOK, ProgressInv, NEW p \in Procs, Begin(p) \/ Step(p) \/ Fails(p) \/ Crash(p)
  PROVE  ProgressInv'
<1> USE SidecarAssumption DEF TypeOK, ProgressInv, Locked, Goto, Dirs, Parts, cache
<1>0. CASE Verify(p)
  BY <1>0, PartsAssumption DEF Verify, Verified
<1>1. CASE Begin(p) \/ Walk(p) \/ Settle(p) \/ Rewalk(p) \/ Compare(p) \/ Build(p) \/ Lookup(p)
  BY <1>1 DEF Begin, Walk, Settle, Rewalk, Compare, Build, Lookup
<1>2. CASE CheckExists(p)
  BY <1>2 DEF CheckExists
<1>3. ASSUME NEW f \in Parts, WriteFile(p, f) PROVE ProgressInv'
  BY <1>3 DEF WriteFile
<1>4. CASE Rename(p)
  BY <1>4 DEF Rename
<1>5. CASE Lock(p)
  BY <1>5 DEF Lock
<1>6. CASE Recheck(p)
  BY <1>6 DEF Recheck, Unlock
<1>7. CASE Link(p)
  BY <1>7 DEF Link
<1>8. CASE UseExisting(p) \/ Confirm(p)
  BY <1>8 DEF UseExisting, Confirm, Unlock
<1>9. CASE PublishReceipt(p)
  BY <1>9 DEF PublishReceipt, Unlock
<1>10. CASE Fails(p)
  BY <1>10 DEF Fails, Unlock
<1>11. CASE Crash(p)
  BY <1>11 DEF Crash, Unlock
<1> QED BY <1>0, <1>1, <1>2, <1>3, <1>4, <1>5, <1>6, <1>7, <1>8, <1>9, <1>10, <1>11 DEF Step

\* It holds in every behaviour, damage included.
LEMMA ProgressInvariant == Spec => [](TypeOK /\ ProgressInv)
<1>1. Init => ProgressInv
  BY SidecarAssumption DEF Init, ProgressInv, Dirs
<1>2. TypeOK /\ ProgressInv /\ [Next]_vars => ProgressInv'
  <2> SUFFICES ASSUME TypeOK, ProgressInv, [Next]_vars PROVE ProgressInv'
    OBVIOUS
  <2>1. CASE UNCHANGED vars
    BY <2>1 DEF vars, ProgressInv
  <2>2. CASE Damage
    BY <2>2, SidecarAssumption DEF Damage, ProgressInv, TypeOK, Dirs, cache
  <2>3. CASE Done
    BY <2>1, <2>3 DEF Done
  <2> QED BY <2>1, <2>2, <2>3, ProgressStep DEF Next
<1> QED BY <1>1, <1>2, SidecarTypeCorrect, PTL DEF Spec

\* Who waits for the lock waits for a process that is past it, and who stages files has
\* one to write: every process that began and has no answer either has its next step
\* open or waits for one that has.
NobodyWaitsInVain ==
  \A p \in Procs :
    /\ pc[p] = "locking" /\ lock[at[p]] # Absent =>
         /\ lock[at[p]] \in Procs
         /\ pc[lock[at[p]]] \in Locked
    /\ pc[p] = "stage" =>
         \E f \in Parts : f \notin staging[p] /\ (f = Marker => Files \subseteq staging[p])

\* No process waits for the binary cache lock of one that is gone, waits itself or has
\* finished, whatever was damaged, failed or was killed (lock_frontend_binary_cache).
THEOREM LockHoldersMove == Spec => []NobodyWaitsInVain
<1>1. TypeOK /\ ProgressInv => NobodyWaitsInVain
  <2> SUFFICES ASSUME TypeOK, ProgressInv, NEW p \in Procs
               PROVE  /\ pc[p] = "locking" /\ lock[at[p]] # Absent =>
                           lock[at[p]] \in Procs /\ pc[lock[at[p]]] \in Locked
                      /\ pc[p] = "stage" =>
                           \E f \in Parts : f \notin staging[p] /\ (f = Marker => Files \subseteq staging[p])
    BY DEF NobodyWaitsInVain
  <2>1. pc[p] = "locking" /\ lock[at[p]] # Absent => lock[at[p]] \in Procs /\ pc[lock[at[p]]] \in Locked
    BY DEF TypeOK, ProgressInv
  <2>2. ASSUME pc[p] = "stage"
        PROVE  \E f \in Parts : f \notin staging[p] /\ (f = Marker => Files \subseteq staging[p])
    <3>1. CASE Files \subseteq staging[p]
      BY <2>2, <3>1 DEF ProgressInv, Parts
    <3>2. CASE ~(Files \subseteq staging[p])
      BY <3>2, SidecarAssumption DEF Parts
    <3> QED BY <3>1, <3>2
  <2> QED BY <2>1, <2>2
<1> QED BY <1>1, ProgressInvariant, PTL

\* How many steps a process has left at most, not counting the files it stages: it
\* begins in the shared directory, and falls back to its own once.
StepRank ==
  [idle |-> 19, verify |-> 18, walk |-> 17, exists |-> 16, stage |-> 15, rename |-> 14,
   published |-> 13, lost |-> 13, rewalk |-> 12, lookup |-> 11, compare |-> 10, locking |-> 9, recheck |-> 8, build |-> 7, link |-> 6,
   exists_already |-> 5, receipt |-> 5, confirm |-> 4, ok |-> 0, err |-> 0, dead |-> 0]
Left(p) == StepRank[pc[p]] + (IF at[p] = Shared THEN 19 ELSE 0)

\* A process stands still, stages one more file, or is nearer to its answer.
Nearer(p) ==
  \/ pc'[p] = pc[p] /\ at'[p] = at[p] /\ staging'[p] = staging[p]
  \/ pc'[p] = pc[p] /\ at'[p] = at[p] /\ \E f \in Parts \ staging[p] : staging'[p] = staging[p] \union {f}
  \/ Left(p)' < Left(p)

\* Steps of a process bring it nearer and leave the others where they are.
LEMMA StepNearer ==
  ASSUME TypeOK, ProgressInv, NEW p \in Procs, Begin(p) \/ Step(p) \/ Fails(p) \/ Crash(p)
  PROVE  \A q \in Procs : Nearer(q)
<1>0. ASSUME NEW q \in Procs, q # p PROVE Nearer(q)
  BY <1>0 DEF TypeOK, Nearer, Begin, Step, Fails, Crash, Verify, Walk, CheckExists, WriteFile, Rename, Settle, Rewalk, Lookup,
     Compare, Lock, Recheck, Build, Link, UseExisting, PublishReceipt, Confirm, Goto
<1> USE SidecarAssumption DEF TypeOK, Goto, Left, StepRank, Steps
<1>a. ASSUME at'[p] = at[p], StepRank[pc'[p]] < StepRank[pc[p]], pc'[p] \in Steps PROVE Nearer(p)
  <2>1. StepRank[pc[p]] \in Nat /\ StepRank[pc'[p]] \in Nat
    BY <1>a
  <2>2. Left(p) = StepRank[pc[p]] + (IF at[p] = Shared THEN 19 ELSE 0)
    BY DEF Left
  <2>3. Left(p)' = StepRank[pc'[p]] + (IF at'[p] = Shared THEN 19 ELSE 0)
    BY DEF Left, StepRank
  <2> HIDE DEF Left, StepRank, Steps, TypeOK
  <2>4. Left(p)' < Left(p)
    BY <1>a, <2>1, <2>2, <2>3
  <2> QED BY <2>4 DEF Nearer
<1>1. CASE Begin(p) \/ Verify(p) \/ Walk(p) \/ Settle(p) \/ Rewalk(p)
  BY <1>0, <1>a, <1>1 DEF Begin, Verify, Walk, Settle, Rewalk
<1>9. CASE Compare(p) \/ Build(p) \/ Lookup(p)
  BY <1>0, <1>a, <1>9 DEF Compare, Build, Lookup
<1>2. CASE CheckExists(p)
  <2>1. CASE pc'[p] = "stage"
    BY <1>0, <1>a, <1>2, <2>1 DEF CheckExists
  <2>2. CASE pc'[p] = "verify" /\ pc[p] = "exists" /\ sources[at[p]] # Absent /\ at'[p] = p
    <3>1. at[p] = Shared
      BY <2>2 DEF ProgressInv
    <3> QED BY <1>0, <2>2, <3>1 DEF Nearer
  <2> QED BY <1>2, <2>1, <2>2 DEF CheckExists
<1>3. ASSUME NEW f \in Parts, WriteFile(p, f) PROVE \A q \in Procs : Nearer(q)
  <2>1. CASE f = Marker
    BY <1>0, <1>a, <1>3, <2>1 DEF WriteFile
  <2>2. CASE f # Marker
    BY <1>0, <1>3, <2>2 DEF WriteFile, Nearer
  <2> QED BY <2>1, <2>2
<1>4. CASE Rename(p)
  BY <1>0, <1>a, <1>4 DEF Rename
<1>5. CASE Lock(p) \/ Recheck(p) \/ Link(p)
  BY <1>0, <1>a, <1>5 DEF Lock, Recheck, Link
<1>6. CASE UseExisting(p) \/ Confirm(p) \/ PublishReceipt(p)
  BY <1>0, <1>a, <1>6 DEF UseExisting, Confirm, PublishReceipt
<1>7. CASE Fails(p)
  BY <1>0, <1>a, <1>7 DEF Fails
<1>8. CASE Crash(p)
  BY <1>0, <1>a, <1>8 DEF Crash
<1> QED BY <1>1, <1>2, <1>3, <1>4, <1>5, <1>6, <1>7, <1>8, <1>9 DEF Step

\* Obtaining a sidecar never goes round in circles, however the shared directory is
\* damaged: the sources are materialized a second time at most, in a directory of the
\* process's own, and each other step is one towards the answer.
THEOREM AnswersComeNearer == Spec => [][\A p \in Procs : Nearer(p)]_vars
<1>1. TypeOK /\ ProgressInv /\ [Next]_vars => [\A p \in Procs : Nearer(p)]_vars
  <2> SUFFICES ASSUME TypeOK, ProgressInv, Next PROVE (\A p \in Procs : Nearer(p)) \/ UNCHANGED vars
    OBVIOUS
  <2>1. CASE Damage
    BY <2>1 DEF Damage, Nearer
  <2> QED BY <2>1, StepNearer DEF Next, Done
<1> QED BY <1>1, ProgressInvariant, PTL DEF Spec

=============================================================================
