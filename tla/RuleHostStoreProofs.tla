------------------------ MODULE RuleHostStoreProofs ------------------------
(***************************************************************************)
(* Proofs about RuleHostStore, for any number of processes, checkouts,     *)
(* source versions and lockfiles and any number of runs, edits and faults. *)
(*                                                                         *)
(* The code has no defence against two interferences, a reverted edit and  *)
(* a lockfile rewritten by someone who is no cargo, and the theorems say   *)
(* what each of them costs: without a revert, what is recorded names the   *)
(* right sources; without a rewritten lockfile, the right lockfile;        *)
(* without both, it answers its fingerprint.  Edits of the sources at any  *)
(* moment, I/O failures, damage, crashes and cargo processes without the   *)
(* lease are always allowed; a session that such a cargo (or damage)       *)
(* crossed, and what it recorded, is excepted by name.                     *)
(***************************************************************************)
EXTENDS RuleHostStore, TLAPS

HashedSteps == {"copy", "remove_blob", "persist", "restamp",
                "stamp_built", "publish_blob", "publish_entry"}
CompiledSteps == {"compiling", "cargo_compiling", "built", "hash",
                  "stamp_built", "publish_blob", "publish_entry", "exec_built"}

\* What a session has read by the time it gets to a step.
Shape ==
  \A p \in Procs :
    /\ pc[p] # "idle" => co[p] \in Checkouts
    /\ pc[p] \in LeasedSteps => fp[p] \in Fingerprint
    /\ pc[p] \in HashedSteps => hash[p] \in Binary \union {Garbage}
    /\ pc[p] \in CompiledSteps => snap[p] \in Binary

\* Exactly the sessions in leased steps hold the lease of their checkout.
LeaseInv ==
  /\ \A p \in Procs : pc[p] \in LeasedSteps => lease[co[p]] = p
  /\ \A c \in Checkouts : lease[c] # None =>
       pc[lease[c]] \in LeasedSteps /\ co[lease[c]] = c

TypeInv == TypeOK /\ Shape /\ LeaseInv

\* What the environment may leave undone: an edit taken back under a session, a
\* lockfile rewritten under one.
NoRevert == "revert" \notin Interference
NoRelock == "relock" \notin Interference

\* What binary b and fingerprint f have in common: AnswersFor, one part for each
\* interference that could spoil it.
SourcesMatch(b, f, c) ==
  /\ b.src = f.src
  /\ f.src \in Shareable \/ b.at = c

Matches(b, f, c) ==
  /\ b \in Binary
  /\ NoRevert => SourcesMatch(b, f, c)
  /\ NoRelock => b.lock = f.lock

\* A crossed session wrote down that b answers f.
Dubious(b, f) == [fp |-> f, hash |-> b] \in dubious

\* The digest a restoring session holds matches its fingerprint everywhere, and
\* once renamed into place the binary is that one until someone crosses.
Restoring(p) ==
  /\ pc[p] \in {"copy", "remove_blob", "persist", "restamp"} =>
       Dubious(hash[p], fp[p]) \/ \A c \in Checkouts : Matches(hash[p], fp[p], c)
  /\ pc[p] = "restamp" /\ p \notin crossed => bin[co[p]] = hash[p]
  /\ pc[p] \in {"exec_stamp", "exec_restored"} /\ p \notin crossed =>
       Dubious(bin[co[p]], fp[p]) \/ Matches(bin[co[p]], fp[p], co[p])

\* A session that reached the store although its fingerprint is not shareable saw
\* its sources edited, and so did one whose cargo compiled other sources: the
\* bracket after the build will notice.  While its cargo is at work, cargo's own
\* lock keeps every other cargo from the lockfile.
Building(p) ==
  /\ pc[p] \in LeasedSteps \ {"planned", "exec_stamp", "choose"} =>
       (NoRevert => fp[p].src \in Shareable \/ src[co[p]] # fp[p].src)
  /\ pc[p] = "compiling" \/ (pc[p] = "built" /\ p \notin crossed) =>
       (NoRelock => snap[p].lock = lock[co[p]])
  /\ pc[p] \in {"compiling", "built"} =>
       (NoRevert => snap[p].src = fp[p].src \/ src[co[p]] # fp[p].src)
  /\ /\ pc[p] \in {"built", "hash", "stamp_built", "publish_blob", "publish_entry", "exec_built"}
     /\ p \notin crossed
     => bin[co[p]] = snap[p]

\* What is recorded is this session's build, under what it was compiled from.
Recording(p) ==
  /\ pc[p] \in {"hash", "stamp_built", "publish_blob", "publish_entry"} =>
       /\ NoRevert => fp[p].src \in Shareable /\ snap[p].src = fp[p].src
       /\ NoRelock /\ p \notin crossed => snap[p].lock = fp[p].lock
  /\ pc[p] \in {"stamp_built", "publish_blob", "publish_entry"} /\ p \notin crossed =>
       hash[p] = snap[p]

\* EntriesTruthful and StampsTruthful in the same parts.
EntriesMatch ==
  \A f \in Fingerprint : entry[f] \notin {None, Garbage} =>
    /\ NoRevert => entry[f].key.src \in Shareable
    /\ \/ Dubious(entry[f].hash, entry[f].key)
       \/ /\ entry[f].hash \in Binary
          /\ \A c \in Checkouts : Matches(entry[f].hash, entry[f].key, c)

StampsMatch ==
  \A c \in Checkouts : stamp[c] # None =>
    Dubious(stamp[c].hash, stamp[c].fp) \/ Matches(stamp[c].hash, stamp[c].fp, c)

Truthful ==
  /\ \A p \in Procs : Restoring(p) /\ Building(p) /\ Recording(p)
  /\ EntriesMatch
  /\ StampsMatch

-----------------------------------------------------------------------------
\* Type correctness.

USE DEF Steps, LeasedSteps, UnleasedSteps, HashedSteps, CompiledSteps

\* At the start nobody has begun: every file is absent or an input.
LEMMA TypeInvInit == Init => TypeInv
  BY ConstantsAssumption, SentinelAssumption
  DEF Init, TypeInv, TypeOK, Shape, LeaseInv

\* build_fingerprint answers with a fingerprint whatever is in the checkout.
LEMMA FingerprintTyped ==
  ASSUME TypeOK, NEW c \in Checkouts
  PROVE  BuildFingerprint(c) \in Fingerprint
  BY DEF TypeOK, BuildFingerprint, Fingerprint

\* One step of one process keeps the types, what each step has read, and the
\* correspondence between leases and leased steps.
LEMMA TypeInvPolintStep ==
  ASSUME TypeInv, NEW p \in Procs, PolintStep(p)
  PROVE  TypeInv'
<1> USE ConstantsAssumption, SentinelAssumption DEF tree, store, disk, memo, count, past, Crosses, Records
<1>1. CASE Plan(p)
  <2>1. TypeOK'
    <3>1. BuildFingerprint(co[p]) \in Fingerprint
      BY <1>1, FingerprintTyped DEF TypeInv, Shape, Plan, Goto
    <3> QED BY <1>1, <3>1 DEF TypeInv, TypeOK, Plan, Goto
  <2>2. Shape'
    BY <1>1 DEF TypeInv, TypeOK, Shape, Plan, Goto, BuildFingerprint, Fingerprint
  <2>3. LeaseInv'
    BY <1>1 DEF TypeInv, TypeOK, Shape, LeaseInv, Plan, Goto, BuildFingerprint
  <2> QED BY <2>1, <2>2, <2>3 DEF TypeInv
<1>2. CASE PlanFails(p)
  <2>1. TypeOK'
    BY <1>2 DEF TypeInv, TypeOK, PlanFails, Goto
  <2>2. Shape'
    BY <1>2 DEF TypeInv, TypeOK, Shape, PlanFails, Goto
  <2>3. LeaseInv'
    BY <1>2 DEF TypeInv, TypeOK, Shape, LeaseInv, PlanFails, Goto
  <2> QED BY <2>1, <2>2, <2>3 DEF TypeInv
<1>3. CASE CheckStamp(p)
  <2>1. TypeOK'
    BY <1>3 DEF TypeInv, TypeOK, CheckStamp, Goto
  <2>2. Shape'
    BY <1>3 DEF TypeInv, TypeOK, Shape, CheckStamp, Goto
  <2>3. LeaseInv'
    BY <1>3 DEF TypeInv, TypeOK, Shape, LeaseInv, CheckStamp, Goto
  <2> QED BY <2>1, <2>2, <2>3 DEF TypeInv
<1>4. CASE ChooseStore(p)
  <2>1. TypeOK'
    BY <1>4 DEF TypeInv, TypeOK, ChooseStore, Goto, FallThrough, DropPlan
  <2>2. Shape'
    BY <1>4 DEF TypeInv, TypeOK, Shape, ChooseStore, Goto, FallThrough, DropPlan
  <2>3. LeaseInv'
    BY <1>4 DEF TypeInv, TypeOK, Shape, LeaseInv, ChooseStore, Goto, FallThrough, DropPlan
  <2> QED BY <2>1, <2>2, <2>3 DEF TypeInv
<1>5. CASE ReadEntry(p)
  <2>1. TypeOK'
    BY <1>5 DEF TypeInv, TypeOK, ReadEntry, Goto, EntryUsable, Shape, Entry
  <2>2. Shape'
    BY <1>5 DEF TypeInv, TypeOK, Shape, ReadEntry, Goto, EntryUsable, Entry
  <2>3. LeaseInv'
    BY <1>5 DEF TypeInv, TypeOK, Shape, LeaseInv, ReadEntry, Goto, EntryUsable
  <2> QED BY <2>1, <2>2, <2>3 DEF TypeInv
<1>6. CASE CopyBlob(p)
  <2>1. TypeOK'
    BY <1>6 DEF TypeInv, TypeOK, CopyBlob, Goto
  <2>2. Shape'
    BY <1>6 DEF TypeInv, TypeOK, Shape, CopyBlob, Goto
  <2>3. LeaseInv'
    BY <1>6 DEF TypeInv, TypeOK, Shape, LeaseInv, CopyBlob, Goto
  <2> QED BY <2>1, <2>2, <2>3 DEF TypeInv
<1>7. CASE RemoveBlob(p)
  <2>1. TypeOK'
    BY <1>7 DEF TypeInv, TypeOK, RemoveBlob, Goto
  <2>2. Shape'
    BY <1>7 DEF TypeInv, TypeOK, Shape, RemoveBlob, Goto
  <2>3. LeaseInv'
    BY <1>7 DEF TypeInv, TypeOK, Shape, LeaseInv, RemoveBlob, Goto
  <2> QED BY <2>1, <2>2, <2>3 DEF TypeInv
<1>8. CASE DiscardEntry(p)
  <2>1. TypeOK'
    BY <1>8 DEF TypeInv, TypeOK, DiscardEntry, Goto
  <2>2. Shape'
    BY <1>8 DEF TypeInv, TypeOK, Shape, DiscardEntry, Goto
  <2>3. LeaseInv'
    BY <1>8 DEF TypeInv, TypeOK, Shape, LeaseInv, DiscardEntry, Goto
  <2> QED BY <2>1, <2>2, <2>3 DEF TypeInv
<1>9. CASE Persist(p)
  <2>1. TypeOK'
    BY <1>9 DEF TypeInv, TypeOK, Persist, Goto, Shape
  <2>2. Shape'
    BY <1>9 DEF TypeInv, TypeOK, Shape, Persist, Goto
  <2>3. LeaseInv'
    BY <1>9 DEF TypeInv, TypeOK, Shape, LeaseInv, Persist, Goto
  <2> QED BY <2>1, <2>2, <2>3 DEF TypeInv
<1>10. CASE StampRestored(p)
  <2>1. TypeOK'
    BY <1>10 DEF TypeInv, TypeOK, StampRestored, WriteStamp, Goto, Shape, Stamp
  <2>2. Shape'
    BY <1>10 DEF TypeInv, TypeOK, Shape, StampRestored, WriteStamp, Goto, Stamp
  <2>3. LeaseInv'
    BY <1>10 DEF TypeInv, TypeOK, Shape, LeaseInv, StampRestored, WriteStamp, Goto
  <2> QED BY <2>1, <2>2, <2>3 DEF TypeInv
<1>11. CASE BuildStarts(p)
  <2>1. TypeOK'
    BY <1>11 DEF TypeInv, TypeOK, BuildStarts, CargoReads, Goto, Shape, Binary
  <2>2. Shape'
    BY <1>11 DEF TypeInv, TypeOK, Shape, BuildStarts, CargoReads, Goto, Binary
  <2>3. LeaseInv'
    BY <1>11 DEF TypeInv, TypeOK, Shape, LeaseInv, BuildStarts, CargoReads, Goto
  <2> QED BY <2>1, <2>2, <2>3 DEF TypeInv
<1>12. CASE BuildEnds(p)
  <2>1. TypeOK'
    BY <1>12 DEF TypeInv, TypeOK, BuildEnds, CargoWrites, CargoStops, Goto, Shape
  <2>2. Shape'
    BY <1>12 DEF TypeInv, TypeOK, Shape, BuildEnds, CargoWrites, CargoStops, Goto
  <2>3. LeaseInv'
    BY <1>12 DEF TypeInv, TypeOK, Shape, LeaseInv, BuildEnds, CargoWrites, CargoStops, Goto
  <2> QED BY <2>1, <2>2, <2>3 DEF TypeInv
<1>13. CASE BuildFails(p)
  <2>1. TypeOK'
    BY <1>13 DEF TypeInv, TypeOK, BuildFails, FallThrough, DropPlan, CargoWrites, CargoStops, Goto, Shape
  <2>2. Shape'
    BY <1>13 DEF TypeInv, TypeOK, Shape, BuildFails, FallThrough, DropPlan, CargoWrites, CargoStops, Goto
  <2>3. LeaseInv'
    BY <1>13 DEF TypeInv, TypeOK, Shape, LeaseInv, BuildFails, FallThrough, DropPlan, CargoWrites, CargoStops, Goto
  <2> QED BY <2>1, <2>2, <2>3 DEF TypeInv
<1>14. CASE Bracket(p)
  <2>1. TypeOK'
    <3>1. BuildFingerprint(co[p]) \in Fingerprint
      BY <1>14, FingerprintTyped DEF TypeInv, Shape, Bracket, Goto
    <3> QED BY <1>14, <3>1 DEF TypeInv, TypeOK, Bracket, Goto
  <2>2. Shape'
    BY <1>14 DEF TypeInv, TypeOK, Shape, Bracket, Goto, BuildFingerprint, Fingerprint
  <2>3. LeaseInv'
    BY <1>14 DEF TypeInv, TypeOK, Shape, LeaseInv, Bracket, Goto, BuildFingerprint
  <2> QED BY <2>1, <2>2, <2>3 DEF TypeInv
<1>15. CASE HashBinary(p)
  <2>1. TypeOK'
    BY <1>15 DEF TypeInv, TypeOK, HashBinary, Goto, Shape
  <2>2. Shape'
    BY <1>15 DEF TypeInv, TypeOK, Shape, HashBinary, Goto
  <2>3. LeaseInv'
    BY <1>15 DEF TypeInv, TypeOK, Shape, LeaseInv, HashBinary, Goto
  <2> QED BY <2>1, <2>2, <2>3 DEF TypeInv
<1>16. CASE StampBuilt(p)
  <2>1. TypeOK'
    BY <1>16 DEF TypeInv, TypeOK, StampBuilt, WriteStamp, Goto, Shape, Stamp
  <2>2. Shape'
    BY <1>16 DEF TypeInv, TypeOK, Shape, StampBuilt, WriteStamp, Goto, Stamp
  <2>3. LeaseInv'
    BY <1>16 DEF TypeInv, TypeOK, Shape, LeaseInv, StampBuilt, WriteStamp, Goto
  <2> QED BY <2>1, <2>2, <2>3 DEF TypeInv
<1>17. CASE PublishBlob(p)
  <2>1. TypeOK'
    BY <1>17 DEF TypeInv, TypeOK, PublishBlob, Goto, Shape, Stamp
  <2>2. Shape'
    BY <1>17 DEF TypeInv, TypeOK, Shape, PublishBlob, Goto
  <2>3. LeaseInv'
    BY <1>17 DEF TypeInv, TypeOK, Shape, LeaseInv, PublishBlob, Goto
  <2> QED BY <2>1, <2>2, <2>3 DEF TypeInv
<1>18. CASE PublishEntry(p)
  <2>1. TypeOK'
    <3>1. dubious' \subseteq Stamp
      BY <1>18 DEF TypeInv, TypeOK, PublishEntry, Goto, Shape, Stamp
    <3> QED BY <1>18, <3>1 DEF TypeInv, TypeOK, PublishEntry, Goto, Shape, Entry
  <2>2. Shape'
    BY <1>18 DEF TypeInv, TypeOK, Shape, PublishEntry, Goto, Entry
  <2>3. LeaseInv'
    BY <1>18 DEF TypeInv, TypeOK, Shape, LeaseInv, PublishEntry, Goto
  <2> QED BY <2>1, <2>2, <2>3 DEF TypeInv
<1>19. CASE HostSucceeds(p)
  <2>1. TypeOK'
    BY <1>19 DEF TypeInv, TypeOK, HostSucceeds, DropPlan, Exit
  <2>2. Shape'
    BY <1>19 DEF TypeInv, TypeOK, Shape, HostSucceeds, DropPlan, Exit
  <2>3. LeaseInv'
    BY <1>19 DEF TypeInv, TypeOK, Shape, LeaseInv, HostSucceeds, DropPlan, Exit
  <2> QED BY <2>1, <2>2, <2>3 DEF TypeInv
<1>20. CASE HostFails(p)
  <2>1. TypeOK'
    BY <1>20 DEF TypeInv, TypeOK, HostFails, FallThrough, DropPlan, Goto
  <2>2. Shape'
    BY <1>20 DEF TypeInv, TypeOK, Shape, HostFails, FallThrough, DropPlan, Goto
  <2>3. LeaseInv'
    BY <1>20 DEF TypeInv, TypeOK, Shape, LeaseInv, HostFails, FallThrough, DropPlan, Goto
  <2> QED BY <2>1, <2>2, <2>3 DEF TypeInv
<1>21. CASE CargoRunStarts(p)
  <2>1. TypeOK'
    BY <1>21 DEF TypeInv, TypeOK, CargoRunStarts, CargoReads, Goto, Shape, Binary
  <2>2. Shape'
    BY <1>21 DEF TypeInv, TypeOK, Shape, CargoRunStarts, CargoReads, Goto, Binary
  <2>3. LeaseInv'
    BY <1>21 DEF TypeInv, TypeOK, Shape, LeaseInv, CargoRunStarts, CargoReads, Goto
  <2> QED BY <2>1, <2>2, <2>3 DEF TypeInv
<1>22. CASE CargoRunEnds(p)
  <2>1. TypeOK'
    BY <1>22 DEF TypeInv, TypeOK, CargoRunEnds, CargoWrites, CargoStops, Exit, Shape
  <2>2. Shape'
    BY <1>22 DEF TypeInv, TypeOK, Shape, CargoRunEnds, CargoWrites, CargoStops, Exit
  <2>3. LeaseInv'
    BY <1>22 DEF TypeInv, TypeOK, Shape, LeaseInv, CargoRunEnds, CargoWrites, CargoStops, Exit
  <2> QED BY <2>1, <2>2, <2>3 DEF TypeInv
<1> QED
  BY <1>1, <1>2, <1>3, <1>4, <1>5, <1>6, <1>7, <1>8, <1>9, <1>10, <1>11, <1>12, <1>13, <1>14, <1>15, <1>16, <1>17, <1>18, <1>19, <1>20, <1>21, <1>22 DEF PolintStep, Progress

\* A session that begins holds no lease and has read nothing.
LEMMA TypeInvStart ==
  ASSUME TypeInv, NEW p \in Procs, NEW c \in Checkouts, NEW on \in BOOLEAN, Start(p, c, on)
  PROVE  TypeInv'
<1> USE ConstantsAssumption, SentinelAssumption DEF disk, past, Start
<1>1. TypeOK'
  BY DEF TypeInv, TypeOK
<1>2. Shape'
  BY DEF TypeInv, TypeOK, Shape
<1>3. LeaseInv'
  BY DEF TypeInv, TypeOK, Shape, LeaseInv
<1> QED BY <1>1, <1>2, <1>3 DEF TypeInv

\* Edits and damage touch no session; a killed session leaves no lease behind.
LEMMA TypeInvEnvironment ==
  ASSUME TypeInv, Environment
  PROVE  TypeInv'
<1> USE ConstantsAssumption, SentinelAssumption DEF tree, store, disk, memo, past, Budget, Crosses
<1>1. ASSUME NEW c \in Checkouts, NEW s \in Sources, EditSource(c, s) PROVE TypeInv'
  BY <1>1 DEF EditSource, TypeInv, TypeOK, Shape, LeaseInv
<1>2. ASSUME NEW c \in Checkouts, NEW l \in LockFiles \union {None}, EditLock(c, l) PROVE TypeInv'
  BY <1>2 DEF EditLock, TypeInv, TypeOK, Shape, LeaseInv
<1>3. ASSUME NEW c \in Checkouts, SpoilBinary(c) PROVE TypeInv'
  BY <1>3 DEF SpoilBinary, TypeInv, TypeOK, Shape, LeaseInv
<1>4. CASE SpoilStore
  <2>1. TypeOK'
    <3>1. blob' \in [Binary \union {Garbage} -> Binary \union {Garbage, None}]
      BY <1>4 DEF SpoilStore, TypeInv, TypeOK
    <3>2. entry' \in [Fingerprint -> Entry \union {Garbage, None}]
      BY <1>4 DEF SpoilStore, TypeInv, TypeOK
    <3> QED BY <1>4, <3>1, <3>2 DEF SpoilStore, TypeInv, TypeOK
  <2>2. Shape' /\ LeaseInv'
    BY <1>4 DEF SpoilStore, TypeInv, Shape, LeaseInv
  <2> QED BY <2>1, <2>2 DEF TypeInv
<1>5. ASSUME NEW p \in Procs, Crash(p) PROVE TypeInv'
  <2>1. TypeOK'
    <3>1. lease' \in [Checkouts -> Procs \union {None}] /\ cargo' \in [Checkouts -> Procs \union {None}]
      BY <1>5 DEF Crash, Exit, Goto, TypeInv, TypeOK
    <3>2. CASE Exit(p)
      BY <1>5, <3>1, <3>2 DEF Crash, Exit, TypeInv, TypeOK
    <3>3. CASE Goto(p, "compiling", "cargo_compiling") /\ UNCHANGED <<cargo, memo>>
      BY <1>5, <3>1, <3>3 DEF Crash, Goto, TypeInv, TypeOK
    <3> QED BY <1>5, <3>2, <3>3 DEF Crash
  <2>2. Shape'
    BY <1>5 DEF Crash, Exit, Goto, TypeInv, TypeOK, Shape
  <2>3. LeaseInv'
    BY <1>5 DEF Crash, Exit, Goto, TypeInv, TypeOK, Shape, LeaseInv
  <2> QED BY <2>1, <2>2, <2>3 DEF TypeInv
<1> QED
  BY <1>1, <1>2, <1>3, <1>4, <1>5 DEF Environment

\* Every variable keeps its type in every behaviour, whatever interferes: no step
\* reads a fingerprint, digest or snapshot its session has not taken, and a lease
\* is held by exactly the session that is in the middle of its leased steps.
THEOREM TypeCorrect == Spec => [](TypeOK /\ Shape /\ LeaseInv)
<1>1. TypeInv /\ [Next]_vars => TypeInv'
  <2> SUFFICES ASSUME TypeInv, [Next]_vars PROVE TypeInv'
    OBVIOUS
  <2>1. CASE UNCHANGED vars
    BY <2>1 DEF vars, TypeInv, TypeOK, Shape, LeaseInv
  <2> QED
    BY <2>1, TypeInvStart, TypeInvPolintStep, TypeInvEnvironment DEF Next
<1> QED
  BY <1>1, TypeInvInit, PTL DEF Spec, TypeInv

-----------------------------------------------------------------------------
\* cargo's lock.

\* Exactly the sessions whose cargo is at work hold cargo's lock, and what a build
\* has left in its target directory does not vanish.
CargoInv ==
  /\ \A p \in Procs : pc[p] \in {"compiling", "cargo_compiling"} => cargo[co[p]] = p
  /\ \A c \in Checkouts : cargo[c] # None =>
       pc[cargo[c]] \in {"compiling", "cargo_compiling"} /\ co[cargo[c]] = c
  /\ \A p \in Procs : pc[p] \in {"built", "hash"} => bin[co[p]] # None

LEMMA CargoInvStep ==
  ASSUME TypeInv, CargoInv, NEW p \in Procs, PolintStep(p)
  PROVE  CargoInv'
<1> USE SentinelAssumption DEF tree, store, disk, memo, count, past, TypeInv, TypeOK, Shape, CargoInv, Goto
<1>1. CASE Plan(p)
  BY <1>1 DEF Plan
<1>2. CASE PlanFails(p)
  BY <1>2 DEF PlanFails
<1>3. CASE CheckStamp(p)
  BY <1>3 DEF CheckStamp
<1>4. CASE ChooseStore(p)
  BY <1>4 DEF ChooseStore, FallThrough
<1>5. CASE ReadEntry(p)
  BY <1>5 DEF ReadEntry
<1>6. CASE CopyBlob(p)
  BY <1>6 DEF CopyBlob
<1>7. CASE RemoveBlob(p)
  BY <1>7 DEF RemoveBlob
<1>8. CASE DiscardEntry(p)
  BY <1>8 DEF DiscardEntry
<1>9. CASE Persist(p)
  BY <1>9 DEF Persist
<1>10. CASE StampRestored(p)
  BY <1>10 DEF StampRestored, WriteStamp
<1>11. CASE BuildStarts(p)
  BY <1>11 DEF BuildStarts, CargoReads
<1>12. CASE BuildEnds(p)
  BY <1>12 DEF BuildEnds, CargoWrites, CargoStops
<1>13. CASE BuildFails(p)
  BY <1>13 DEF BuildFails, FallThrough, CargoWrites, CargoStops
<1>14. CASE Bracket(p)
  BY <1>14 DEF Bracket
<1>15. CASE HashBinary(p)
  BY <1>15 DEF HashBinary
<1>16. CASE StampBuilt(p)
  BY <1>16 DEF StampBuilt, WriteStamp
<1>17. CASE PublishBlob(p)
  BY <1>17 DEF PublishBlob
<1>18. CASE PublishEntry(p)
  BY <1>18 DEF PublishEntry
<1>19. CASE HostSucceeds(p)
  BY <1>19 DEF HostSucceeds, Exit
<1>20. CASE HostFails(p)
  BY <1>20 DEF HostFails, FallThrough
<1>21. CASE CargoRunStarts(p)
  BY <1>21 DEF CargoRunStarts, CargoReads
<1>22. CASE CargoRunEnds(p)
  BY <1>22 DEF CargoRunEnds, Exit, CargoWrites, CargoStops
<1> QED
  BY <1>1, <1>2, <1>3, <1>4, <1>5, <1>6, <1>7, <1>8, <1>9, <1>10, <1>11, <1>12, <1>13, <1>14, <1>15, <1>16, <1>17, <1>18, <1>19, <1>20, <1>21, <1>22 DEF PolintStep, Progress

\* Both locks are held by runs that are at work, in every behaviour.
LEMMA CargoInvariant == Spec => [](TypeInv /\ CargoInv)
<1>1. Init => CargoInv
  BY DEF Init, CargoInv
<1>2. TypeInv /\ CargoInv /\ [Next]_vars => CargoInv'
  <2> SUFFICES ASSUME TypeInv, CargoInv, [Next]_vars PROVE CargoInv'
    OBVIOUS
  <2> USE SentinelAssumption DEF tree, store, disk, memo, past, Crosses, TypeInv, TypeOK, Shape, CargoInv
  <2>1. CASE UNCHANGED vars
    BY <2>1 DEF vars
  <2>2. ASSUME NEW p \in Procs, NEW c \in Checkouts, NEW on \in BOOLEAN, Start(p, c, on) PROVE CargoInv'
    BY <2>2 DEF Start
  <2>3. ASSUME NEW p \in Procs, Crash(p) PROVE CargoInv'
    <3>1. CASE Exit(p) /\ cargo' = [d \in Checkouts |-> IF cargo[d] = p THEN None ELSE cargo[d]]
      BY <2>3, <3>1 DEF Crash, Exit
    <3>2. CASE Goto(p, "compiling", "cargo_compiling") /\ UNCHANGED <<cargo, memo>>
      BY <2>3, <3>2 DEF Crash, Goto
    <3> QED BY <2>3, <3>1, <3>2 DEF Crash
  <2>4. CASE \/ \E c \in Checkouts, s \in Sources : EditSource(c, s)
             \/ \E c \in Checkouts, l \in LockFiles \union {None} : EditLock(c, l)
             \/ \E c \in Checkouts : SpoilBinary(c)
             \/ SpoilStore
    BY <2>4 DEF EditSource, EditLock, SpoilBinary, SpoilStore
  <2> QED
    BY <2>1, <2>2, <2>3, <2>4, CargoInvStep DEF Next, Environment
<1> QED
  BY <1>1, <1>2, TypeCorrect, PTL DEF Spec, TypeInv

-----------------------------------------------------------------------------
\* Truthfulness.

\* An empty store claims nothing.
LEMMA TruthfulInit == Init => Truthful
  BY DEF Init, Truthful, Restoring, Building, Recording, EntriesMatch, StampsMatch

\* What was recorded under a crossing is not forgotten.
LEMMA DubiousStays ==
  ASSUME NEW p \in Procs, PolintStep(p)
  PROVE  dubious \subseteq dubious'
<1>1. UNCHANGED dubious \/ Records(p)
  BY DEF PolintStep, Progress, Plan, PlanFails, CheckStamp, ChooseStore, FallThrough, DropPlan, ReadEntry, CopyBlob,
     RemoveBlob, DiscardEntry, Persist, StampRestored, WriteStamp, BuildStarts, CargoReads, BuildEnds,
     BuildFails, Bracket, HashBinary, StampBuilt, PublishBlob, PublishEntry, HostSucceeds, HostFails,
     CargoRunStarts, CargoRunEnds, past
<1> QED BY <1>1 DEF Records

\* Only the session that publishes or discards an entry touches it.
LEMMA EntriesStep ==
  ASSUME TypeInv, Truthful, NEW p \in Procs, PolintStep(p)
  PROVE  EntriesMatch'
<1> USE DEF tree, store, disk, memo, count, past, Truthful, Dubious
<1>0. dubious \subseteq dubious'
  BY DubiousStays
<1>1. CASE UNCHANGED entry
  BY <1>0, <1>1 DEF EntriesMatch, Matches, SourcesMatch
<1>2. CASE DiscardEntry(p)
  BY <1>0, <1>2, SentinelAssumption DEF DiscardEntry, Goto, EntriesMatch, Matches, SourcesMatch, TypeInv, TypeOK, Shape
<1>3. CASE PublishEntry(p)
  <2>1. ASSUME entry' = [entry EXCEPT ![fp[p]] = [key |-> fp[p], hash |-> hash[p]]]
        PROVE  EntriesMatch'
    <3>1. /\ NoRevert => fp[p].src \in Shareable
          /\ p \in crossed => [fp |-> fp[p], hash |-> hash[p]] \in dubious'
          /\ p \notin crossed => /\ hash[p] \in Binary
                               /\ \A c \in Checkouts : Matches(hash[p], fp[p], c)
      BY <1>3 DEF PublishEntry, Records, Goto, Recording, Matches, SourcesMatch, TypeInv, TypeOK, Shape
    <3> QED
      BY <1>0, <2>1, <3>1 DEF EntriesMatch, Matches, SourcesMatch, TypeInv, TypeOK
  <2> QED BY <1>1, <1>3, <2>1 DEF PublishEntry
<1> QED
  BY <1>1, <1>2, <1>3 DEF PolintStep, Progress, Plan, PlanFails, CheckStamp, ChooseStore, ReadEntry, CopyBlob,
     RemoveBlob, Persist, StampRestored, WriteStamp, BuildStarts, CargoReads, BuildEnds, BuildFails,
     Bracket, HashBinary, StampBuilt, PublishBlob, HostSucceeds, HostFails, CargoRunStarts, CargoRunEnds

\* A stamp is written with the digest just restored or just hashed.
LEMMA StampsStep ==
  ASSUME TypeInv, Truthful, NEW p \in Procs, PolintStep(p)
  PROVE  StampsMatch'
<1> USE DEF tree, store, disk, memo, count, past, Truthful, Dubious
<1>0. dubious \subseteq dubious'
  BY DubiousStays
<1>1. CASE UNCHANGED stamp
  BY <1>0, <1>1 DEF StampsMatch, Matches, SourcesMatch
<1>2. ASSUME co[p] \in Checkouts,
             stamp' = [stamp EXCEPT ![co[p]] = [fp |-> fp[p], hash |-> hash[p]]],
             [fp |-> fp[p], hash |-> hash[p]] \in dubious' \/ Matches(hash[p], fp[p], co[p])
      PROVE  StampsMatch'
  BY <1>0, <1>2 DEF StampsMatch, Matches, SourcesMatch, TypeInv, TypeOK
<1>3. CASE StampRestored(p)
  <2>1. co[p] \in Checkouts /\ (Dubious(hash[p], fp[p]) \/ Matches(hash[p], fp[p], co[p]))
    BY <1>3 DEF StampRestored, Goto, Restoring, TypeInv, TypeOK, Shape
  <2> QED BY <1>0, <1>1, <1>2, <1>3, <2>1 DEF StampRestored, WriteStamp
<1>4. CASE StampBuilt(p)
  <2>1. co[p] \in Checkouts /\ ([fp |-> fp[p], hash |-> hash[p]] \in dubious' \/ Matches(hash[p], fp[p], co[p]))
    BY <1>4 DEF StampBuilt, Records, Goto, Recording, Matches, SourcesMatch, TypeInv, TypeOK, Shape
  <2> QED BY <1>1, <1>2, <1>4, <2>1 DEF StampBuilt, WriteStamp
<1> QED
  BY <1>1, <1>3, <1>4 DEF PolintStep, Progress, Plan, PlanFails, CheckStamp, ChooseStore, ReadEntry, CopyBlob,
     RemoveBlob, DiscardEntry, Persist, BuildStarts, CargoReads, BuildEnds,
     BuildFails, Bracket, HashBinary, PublishBlob, PublishEntry, HostSucceeds, HostFails,
     CargoRunStarts, CargoRunEnds

\* What the session in q's lease relies on is left alone by everybody else, or it
\* is crossed; while its cargo is at work, the lockfile is left alone either way.
Undisturbed(q) ==
  /\ pc'[q] = pc[q] /\ co'[q] = co[q] /\ fp'[q] = fp[q] /\ hash'[q] = hash[q] /\ snap'[q] = snap[q]
  /\ q \in crossed => q \in crossed'
  /\ dubious \subseteq dubious'
  /\ pc[q] \in LeasedSteps => src'[co[q]] = src[co[q]]
  /\ pc[q] \in LeasedSteps /\ q \notin crossed' =>
       bin'[co[q]] = bin[co[q]] /\ (NoRelock => lock'[co[q]] = lock[co[q]])
  /\ pc[q] = "compiling" => (NoRelock => lock'[co[q]] = lock[co[q]])

\* The target lease keeps the leased steps of one session away from what another
\* relies on; steps without the lease cross it.
LEMMA OthersStep ==
  ASSUME TypeInv, CargoInv, NEW p \in Procs, PolintStep(p), NEW q \in Procs, q # p
  PROVE  Undisturbed(q)
<1>0. dubious \subseteq dubious'
  BY DubiousStays
<1> USE <1>0 DEF tree, store, disk, memo, count, past, TypeInv, TypeOK, Undisturbed
<1>1. CASE Plan(p)
  BY <1>1 DEF Plan, Goto, BuildFingerprint
<1>2. CASE PlanFails(p)
  BY <1>2 DEF PlanFails, Goto
<1>3. CASE CheckStamp(p)
  BY <1>3 DEF CheckStamp, Goto
<1>4. CASE ChooseStore(p)
  BY <1>4 DEF ChooseStore, Goto, FallThrough, DropPlan
<1>5. CASE ReadEntry(p)
  BY <1>5 DEF ReadEntry, Goto, EntryUsable
<1>6. CASE CopyBlob(p)
  BY <1>6 DEF CopyBlob, Goto
<1>7. CASE RemoveBlob(p)
  BY <1>7 DEF RemoveBlob, Goto
<1>8. CASE DiscardEntry(p)
  BY <1>8 DEF DiscardEntry, Goto
<1>9. CASE Persist(p)
  BY <1>9 DEF Persist, Goto, Shape, LeaseInv
<1>10. CASE StampRestored(p)
  BY <1>10 DEF StampRestored, WriteStamp, Goto
<1>11. CASE BuildStarts(p)
  BY <1>11 DEF BuildStarts, CargoReads, Goto, Shape, LeaseInv
<1>12. CASE BuildEnds(p)
  BY <1>12 DEF BuildEnds, CargoWrites, CargoStops, Goto, Shape, LeaseInv
<1>13. CASE BuildFails(p)
  BY <1>13 DEF BuildFails, FallThrough, DropPlan, CargoWrites, CargoStops, Goto, Shape, LeaseInv
<1>14. CASE Bracket(p)
  BY <1>14 DEF Bracket, Goto, BuildFingerprint
<1>15. CASE HashBinary(p)
  BY <1>15 DEF HashBinary, Goto
<1>16. CASE StampBuilt(p)
  BY <1>16 DEF StampBuilt, WriteStamp, Goto
<1>17. CASE PublishBlob(p)
  BY <1>17 DEF PublishBlob, Goto
<1>18. CASE PublishEntry(p)
  BY <1>18 DEF PublishEntry, Goto
<1>19. CASE HostSucceeds(p)
  BY <1>19 DEF HostSucceeds, DropPlan, Exit
<1>20. CASE HostFails(p)
  BY <1>20 DEF HostFails, FallThrough, DropPlan, Goto
<1>21. CASE CargoRunStarts(p)
  <2>1. /\ pc' = [pc EXCEPT ![p] = "cargo_compiling"] /\ co' = co /\ fp' = fp /\ hash' = hash
        /\ src' = src /\ bin' = bin /\ cargo[co[p]] = None /\ co[p] \in Checkouts
        /\ snap' \in [Procs -> Binary \union {None}] /\ snap'[q] = snap[q]
    BY <1>21, TypeInvPolintStep DEF CargoRunStarts, CargoReads, Goto, Shape
  <2>2. \A c \in Checkouts : c # co[p] => lock'[c] = lock[c]
    BY <1>21 DEF CargoRunStarts, CargoReads
  <2>3. /\ crossed \subseteq crossed'
        /\ lease[co[p]] # None /\ lock'[co[p]] # lock[co[p]] => lease[co[p]] \in crossed'
    BY <1>21 DEF CargoRunStarts, Crosses
  <2>4. pc[q] \in LeasedSteps => lease[co[q]] = q /\ co[q] \in Checkouts /\ q # None
    BY SentinelAssumption DEF LeaseInv, Shape
  <2>5. pc[q] = "compiling" => cargo[co[q]] = q
    BY DEF CargoInv
  <2> QED
    BY <2>1, <2>2, <2>3, <2>4, <2>5
<1>22. CASE CargoRunEnds(p)
  <2>1. /\ pc' = [pc EXCEPT ![p] = "idle"] /\ co'[q] = co[q] /\ fp'[q] = fp[q] /\ hash'[q] = hash[q]
        /\ snap'[q] = snap[q] /\ src' = src /\ lock' = lock /\ co[p] \in Checkouts
    BY <1>22 DEF CargoRunEnds, Exit, Shape
  <2>2. \A c \in Checkouts : c # co[p] => bin'[c] = bin[c]
    BY <1>22 DEF CargoRunEnds, CargoWrites
  <2>3. /\ crossed \subseteq crossed'
        /\ lease[co[p]] # None /\ bin'[co[p]] # bin[co[p]] => lease[co[p]] \in crossed'
    BY <1>22 DEF CargoRunEnds, Crosses
  <2>4. pc[q] \in LeasedSteps => lease[co[q]] = q /\ co[q] \in Checkouts /\ q # None
    BY SentinelAssumption DEF LeaseInv, Shape
  <2> QED
    BY <2>1, <2>2, <2>3, <2>4
<1> QED
  BY <1>1, <1>2, <1>3, <1>4, <1>5, <1>6, <1>7, <1>8, <1>9, <1>10, <1>11, <1>12, <1>13, <1>14, <1>15, <1>16, <1>17, <1>18, <1>19, <1>20, <1>21, <1>22 DEF PolintStep, Progress

\* What is known of an undisturbed session stays known.
LEMMA UndisturbedKeeps ==
  ASSUME NEW q \in Procs, Undisturbed(q), Restoring(q), Building(q), Recording(q)
  PROVE  Restoring(q)' /\ Building(q)' /\ Recording(q)'
<1>1. Restoring(q)'
  BY DEF Undisturbed, Restoring, Dubious, Matches, SourcesMatch
<1>2. Building(q)'
  BY DEF Undisturbed, Building
<1>3. Recording(q)'
  BY DEF Undisturbed, Recording
<1> QED BY <1>1, <1>2, <1>3

\* The session that takes the step.
LEMMA OwnStep ==
  ASSUME TypeInv, Truthful, NEW p \in Procs, PolintStep(p)
  PROVE  Restoring(p)' /\ Building(p)' /\ Recording(p)'
<1>0. dubious \subseteq dubious'
  BY DubiousStays
<1> USE <1>0, SentinelAssumption DEF tree, store, disk, memo, count, past, TypeInv, TypeOK, Truthful, Dubious
<1>1. CASE Plan(p)
  <2>1. Restoring(p)'
    BY <1>1 DEF Plan, Goto, BuildFingerprint, Restoring, Shape, Matches, SourcesMatch
  <2>2. Building(p)'
    BY <1>1 DEF Plan, Goto, BuildFingerprint, Building, Shape
  <2>3. Recording(p)'
    BY <1>1 DEF Plan, Goto, BuildFingerprint, Recording, Building, Shape
  <2> QED BY <2>1, <2>2, <2>3
<1>2. CASE PlanFails(p)
  <2>1. Restoring(p)'
    BY <1>2 DEF PlanFails, Goto, Restoring, Shape, Matches, SourcesMatch
  <2>2. Building(p)'
    BY <1>2 DEF PlanFails, Goto, Building, Shape
  <2>3. Recording(p)'
    BY <1>2 DEF PlanFails, Goto, Recording, Building, Shape
  <2> QED BY <2>1, <2>2, <2>3
<1>3. CASE CheckStamp(p)
  <2>1. Restoring(p)'
    BY <1>3 DEF CheckStamp, Goto, StampMatches, StampsMatch, Restoring, Shape, Matches, SourcesMatch
  <2>2. Building(p)'
    BY <1>3 DEF CheckStamp, Goto, StampMatches, StampsMatch, Building, Shape
  <2>3. Recording(p)'
    BY <1>3 DEF CheckStamp, Goto, StampMatches, StampsMatch, Recording, Building, Shape
  <2> QED BY <2>1, <2>2, <2>3
<1>4. CASE ChooseStore(p)
  <2>1. Restoring(p)'
    BY <1>4 DEF ChooseStore, Goto, FallThrough, DropPlan, StoreApplies, Restoring, Shape, Matches, SourcesMatch
  <2>2. Building(p)'
    BY <1>4 DEF ChooseStore, Goto, FallThrough, DropPlan, StoreApplies, Building, Shape
  <2>3. Recording(p)'
    BY <1>4 DEF ChooseStore, Goto, FallThrough, DropPlan, StoreApplies, Recording, Building, Shape
  <2> QED BY <2>1, <2>2, <2>3
<1>5. CASE ReadEntry(p)
  <2>1. Restoring(p)'
    BY <1>5 DEF ReadEntry, Goto, EntryUsable, EntriesMatch, Restoring, Shape, Matches, SourcesMatch
  <2>2. Building(p)'
    BY <1>5 DEF ReadEntry, Goto, EntryUsable, EntriesMatch, Building, Shape
  <2>3. Recording(p)'
    BY <1>5 DEF ReadEntry, Goto, EntryUsable, EntriesMatch, Recording, Building, Shape
  <2> QED BY <2>1, <2>2, <2>3
<1>6. CASE CopyBlob(p)
  <2>1. Restoring(p)'
    <3>1. /\ pc[p] = "copy" /\ pc'[p] \in {"persist", "remove_blob", "build"}
          /\ hash' = hash /\ fp' = fp
      BY <1>6 DEF CopyBlob, Goto
    <3>2. Dubious(hash[p], fp[p])' \/ \A c \in Checkouts : Matches(hash[p], fp[p], c)'
      BY <3>1 DEF Restoring, Matches, SourcesMatch
    <3> QED BY <3>1, <3>2 DEF Restoring
  <2>2. Building(p)'
    BY <1>6 DEF CopyBlob, Goto, Building, Shape
  <2>3. Recording(p)'
    BY <1>6 DEF CopyBlob, Goto, Recording, Building, Shape
  <2> QED BY <2>1, <2>2, <2>3
<1>7. CASE RemoveBlob(p)
  <2>1. Restoring(p)'
    BY <1>7 DEF RemoveBlob, Goto, Restoring, Shape, Matches, SourcesMatch
  <2>2. Building(p)'
    BY <1>7 DEF RemoveBlob, Goto, Building, Shape
  <2>3. Recording(p)'
    BY <1>7 DEF RemoveBlob, Goto, Recording, Building, Shape
  <2> QED BY <2>1, <2>2, <2>3
<1>8. CASE DiscardEntry(p)
  <2>1. Restoring(p)'
    BY <1>8 DEF DiscardEntry, Goto, Restoring, Shape, Matches, SourcesMatch
  <2>2. Building(p)'
    BY <1>8 DEF DiscardEntry, Goto, Building, Shape
  <2>3. Recording(p)'
    BY <1>8 DEF DiscardEntry, Goto, Recording, Building, Shape
  <2> QED BY <2>1, <2>2, <2>3
<1>9. CASE Persist(p)
  <2>1. Restoring(p)'
    <3>1. /\ pc[p] = "persist" /\ hash' = hash /\ fp' = fp /\ co' = co
          /\ pc'[p] = "build" \/ (pc'[p] = "restamp" /\ bin'[co[p]] = hash[p])
      BY <1>9 DEF Persist, Goto, Shape
    <3>2. Dubious(hash[p], fp[p])' \/ \A c \in Checkouts : Matches(hash[p], fp[p], c)'
      BY <3>1 DEF Restoring, Matches, SourcesMatch
    <3> QED BY <3>1, <3>2 DEF Restoring
  <2>2. Building(p)'
    BY <1>9 DEF Persist, Goto, Building, Shape
  <2>3. Recording(p)'
    BY <1>9 DEF Persist, Goto, Recording, Building, Shape
  <2> QED BY <2>1, <2>2, <2>3
<1>10. CASE StampRestored(p)
  <2>1. Restoring(p)'
    <3>1. /\ pc[p] = "restamp" /\ pc'[p] = "exec_restored" /\ co[p] \in Checkouts
          /\ hash' = hash /\ fp' = fp /\ co' = co /\ bin' = bin /\ crossed' = crossed
      BY <1>10 DEF StampRestored, WriteStamp, Goto, Shape
    <3>2. Restoring(p)
      OBVIOUS
    <3>3. p \notin crossed => bin[co[p]] = hash[p]
      BY <3>1, <3>2 DEF Restoring
    <3>4. Dubious(hash[p], fp[p]) \/ Matches(hash[p], fp[p], co[p])
      BY <3>1, <3>2 DEF Restoring
    <3>5. p \notin crossed => Dubious(bin[co[p]], fp[p])' \/ Matches(bin[co[p]], fp[p], co[p])'
      BY <3>1, <3>3, <3>4 DEF Matches, SourcesMatch
    <3> QED BY <3>1, <3>5 DEF Restoring
  <2>2. Building(p)'
    BY <1>10 DEF StampRestored, WriteStamp, Goto, Building, Shape
  <2>3. Recording(p)'
    BY <1>10 DEF StampRestored, WriteStamp, Goto, Recording, Building, Shape
  <2> QED BY <2>1, <2>2, <2>3
<1>11. CASE BuildStarts(p)
  <2>1. Restoring(p)'
    BY <1>11 DEF BuildStarts, CargoReads, Goto, Restoring, Shape, Matches, SourcesMatch
  <2>2. Building(p)'
    BY <1>11 DEF BuildStarts, CargoReads, Goto, Building, Shape
  <2>3. Recording(p)'
    BY <1>11 DEF BuildStarts, CargoReads, Goto, Recording, Building, Shape
  <2> QED BY <2>1, <2>2, <2>3
<1>12. CASE BuildEnds(p)
  <2>1. Restoring(p)'
    BY <1>12 DEF BuildEnds, CargoWrites, CargoStops, Goto, Restoring, Shape, Matches, SourcesMatch
  <2>2. Building(p)'
    BY <1>12 DEF BuildEnds, CargoWrites, CargoStops, Goto, Building, Shape
  <2>3. Recording(p)'
    BY <1>12 DEF BuildEnds, CargoWrites, CargoStops, Goto, Recording, Building, Shape
  <2> QED BY <2>1, <2>2, <2>3
<1>13. CASE BuildFails(p)
  <2>1. Restoring(p)'
    BY <1>13 DEF BuildFails, FallThrough, DropPlan, CargoWrites, CargoStops, Goto, Restoring, Shape, Matches, SourcesMatch
  <2>2. Building(p)'
    BY <1>13 DEF BuildFails, FallThrough, DropPlan, CargoWrites, CargoStops, Goto, Building, Shape
  <2>3. Recording(p)'
    BY <1>13 DEF BuildFails, FallThrough, DropPlan, CargoWrites, CargoStops, Goto, Recording, Building, Shape
  <2> QED BY <2>1, <2>2, <2>3
<1>14. CASE Bracket(p)
  <2>1. Restoring(p)'
    BY <1>14 DEF Bracket, Goto, BuildFingerprint, Restoring, Shape, Matches, SourcesMatch
  <2>2. Building(p)'
    BY <1>14 DEF Bracket, Goto, BuildFingerprint, Building, Shape
  <2>3. Recording(p)'
    BY <1>14 DEF Bracket, Goto, BuildFingerprint, Recording, Building, Shape
  <2> QED BY <2>1, <2>2, <2>3
<1>15. CASE HashBinary(p)
  <2>1. Restoring(p)'
    BY <1>15 DEF HashBinary, Goto, Restoring, Shape, Matches, SourcesMatch
  <2>2. Building(p)'
    BY <1>15 DEF HashBinary, Goto, Building, Shape
  <2>3. Recording(p)'
    BY <1>15 DEF HashBinary, Goto, Recording, Building, Shape
  <2> QED BY <2>1, <2>2, <2>3
<1>16. CASE StampBuilt(p)
  <2>1. Restoring(p)'
    BY <1>16 DEF StampBuilt, WriteStamp, Goto, Restoring, Shape, Matches, SourcesMatch
  <2>2. Building(p)'
    BY <1>16 DEF StampBuilt, WriteStamp, Goto, Building, Shape
  <2>3. Recording(p)'
    BY <1>16 DEF StampBuilt, WriteStamp, Goto, Recording, Building, Shape
  <2> QED BY <2>1, <2>2, <2>3
<1>17. CASE PublishBlob(p)
  <2>1. Restoring(p)'
    BY <1>17 DEF PublishBlob, Goto, Restoring, Shape, Matches, SourcesMatch
  <2>2. Building(p)'
    BY <1>17 DEF PublishBlob, Goto, Building, Shape
  <2>3. Recording(p)'
    BY <1>17 DEF PublishBlob, Goto, Recording, Building, Shape
  <2> QED BY <2>1, <2>2, <2>3
<1>18. CASE PublishEntry(p)
  <2>1. Restoring(p)'
    BY <1>18 DEF PublishEntry, Goto, Restoring, Shape, Matches, SourcesMatch
  <2>2. Building(p)'
    BY <1>18 DEF PublishEntry, Goto, Building, Shape
  <2>3. Recording(p)'
    BY <1>18 DEF PublishEntry, Goto, Recording, Building, Shape
  <2> QED BY <2>1, <2>2, <2>3
<1>19. CASE HostSucceeds(p)
  <2>1. Restoring(p)'
    BY <1>19 DEF HostSucceeds, DropPlan, Exit, Restoring, Shape, Matches, SourcesMatch
  <2>2. Building(p)'
    BY <1>19 DEF HostSucceeds, DropPlan, Exit, Building, Shape
  <2>3. Recording(p)'
    BY <1>19 DEF HostSucceeds, DropPlan, Exit, Recording, Building, Shape
  <2> QED BY <2>1, <2>2, <2>3
<1>20. CASE HostFails(p)
  <2>1. Restoring(p)'
    BY <1>20 DEF HostFails, FallThrough, DropPlan, Goto, Restoring, Shape, Matches, SourcesMatch
  <2>2. Building(p)'
    BY <1>20 DEF HostFails, FallThrough, DropPlan, Goto, Building, Shape
  <2>3. Recording(p)'
    BY <1>20 DEF HostFails, FallThrough, DropPlan, Goto, Recording, Building, Shape
  <2> QED BY <2>1, <2>2, <2>3
<1>21. CASE CargoRunStarts(p)
  <2>1. Restoring(p)'
    BY <1>21 DEF CargoRunStarts, CargoReads, Goto, Restoring, Shape, Matches, SourcesMatch
  <2>2. Building(p)'
    BY <1>21 DEF CargoRunStarts, CargoReads, Goto, Building, Shape
  <2>3. Recording(p)'
    BY <1>21 DEF CargoRunStarts, CargoReads, Goto, Recording, Building, Shape
  <2> QED BY <2>1, <2>2, <2>3
<1>22. CASE CargoRunEnds(p)
  <2>1. Restoring(p)'
    BY <1>22 DEF CargoRunEnds, CargoWrites, CargoStops, Exit, Restoring, Shape, Matches, SourcesMatch
  <2>2. Building(p)'
    BY <1>22 DEF CargoRunEnds, CargoWrites, CargoStops, Exit, Building, Shape
  <2>3. Recording(p)'
    BY <1>22 DEF CargoRunEnds, CargoWrites, CargoStops, Exit, Recording, Building, Shape
  <2> QED BY <2>1, <2>2, <2>3
<1> QED
  BY <1>1, <1>2, <1>3, <1>4, <1>5, <1>6, <1>7, <1>8, <1>9, <1>10, <1>11, <1>12, <1>13, <1>14, <1>15, <1>16, <1>17, <1>18, <1>19, <1>20, <1>21, <1>22 DEF PolintStep, Progress

\* A session that begins disturbs none that is under way.
LEMMA TruthfulStart ==
  ASSUME TypeInv, Truthful,
         NEW p \in Procs, NEW c \in Checkouts, NEW on \in BOOLEAN, Start(p, c, on)
  PROVE  Truthful'
<1> USE DEF disk, past, TypeInv, TypeOK, Start
<1>1. ASSUME NEW q \in Procs PROVE Restoring(q)' /\ Building(q)' /\ Recording(q)'
  <2>1. CASE q = p
    BY <2>1 DEF Restoring, Building, Recording
  <2>2. CASE q # p
    BY <2>2, UndisturbedKeeps DEF Undisturbed, Truthful
  <2> QED BY <2>1, <2>2
<1>2. EntriesMatch' /\ StampsMatch'
  BY DEF Truthful, EntriesMatch, StampsMatch, Dubious, Matches, SourcesMatch
<1> QED BY <1>1, <1>2 DEF Truthful

\* An edit under a session is one its bracket will notice; damage removes or
\* spoils records and binaries but forges none; a kill releases a lease.
LEMMA TruthfulEnvironment ==
  ASSUME TypeInv, Truthful, Environment
  PROVE  Truthful'
<1> USE DEF tree, store, disk, memo, past, Budget, Crosses, TypeInv, TypeOK
<1>1. ASSUME NEW c \in Checkouts, NEW s \in Sources, EditSource(c, s) PROVE Truthful'
  <2>1. EntriesMatch' /\ StampsMatch'
    BY <1>1 DEF EditSource, Truthful, EntriesMatch, StampsMatch, Dubious, Matches, SourcesMatch
  <2>2. ASSUME NEW q \in Procs PROVE Restoring(q)' /\ Recording(q)'
    BY <1>1, <2>2 DEF EditSource, Truthful, Restoring, Recording, Dubious, Matches, SourcesMatch
  <2>3. ASSUME NEW q \in Procs PROVE Building(q)'
    BY <1>1, <2>3 DEF EditSource, Truthful, Building, NoRevert, Shape
  <2> QED BY <2>1, <2>2, <2>3 DEF Truthful
<1>2. ASSUME NEW c \in Checkouts, NEW l \in LockFiles \union {None}, EditLock(c, l) PROVE Truthful'
  <2>1. EntriesMatch' /\ StampsMatch'
    BY <1>2 DEF EditLock, Truthful, EntriesMatch, StampsMatch, Dubious, Matches, SourcesMatch
  <2>2. ASSUME NEW q \in Procs PROVE Undisturbed(q)
    BY <1>2, <2>2, SentinelAssumption DEF EditLock, Undisturbed, NoRelock, Shape, LeaseInv
  <2> QED BY <2>1, <2>2, UndisturbedKeeps DEF Truthful
<1>3. ASSUME NEW c \in Checkouts, SpoilBinary(c) PROVE Truthful'
  <2>1. EntriesMatch' /\ StampsMatch'
    BY <1>3 DEF SpoilBinary, Truthful, EntriesMatch, StampsMatch, Dubious, Matches, SourcesMatch
  <2>2. ASSUME NEW q \in Procs PROVE Undisturbed(q)
    BY <1>3, <2>2, SentinelAssumption DEF SpoilBinary, Undisturbed, Shape, LeaseInv
  <2> QED BY <2>1, <2>2, UndisturbedKeeps DEF Truthful
<1>4. CASE SpoilStore
  <2>1. StampsMatch'
    BY <1>4 DEF SpoilStore, Truthful, StampsMatch, Dubious, Matches, SourcesMatch
  <2>2. EntriesMatch'
    <3>1. ASSUME NEW f \in Fingerprint
          PROVE  entry'[f] \in {None, Garbage} \/ \E g \in Fingerprint : entry'[f] = entry[g]
      BY <1>4, <3>1 DEF SpoilStore
    <3>2. dubious' = dubious
      BY <1>4 DEF SpoilStore
    <3>3. SUFFICES ASSUME NEW f \in Fingerprint, entry'[f] \notin {None, Garbage}
                   PROVE  /\ NoRevert => entry'[f].key.src \in Shareable
                          /\ \/ [fp |-> entry'[f].key, hash |-> entry'[f].hash] \in dubious
                             \/ /\ entry'[f].hash \in Binary
                                /\ \A c \in Checkouts : Matches(entry'[f].hash, entry'[f].key, c)
      BY <3>2 DEF EntriesMatch, Dubious, Matches, SourcesMatch
    <3>4. PICK g \in Fingerprint : entry'[f] = entry[g]
      BY <3>1, <3>3
    <3> QED BY <3>3, <3>4 DEF Truthful, EntriesMatch, Dubious
  <2>3. ASSUME NEW q \in Procs PROVE Undisturbed(q)
    BY <1>4, <2>3 DEF SpoilStore, Undisturbed
  <2> QED BY <2>1, <2>2, <2>3, UndisturbedKeeps DEF Truthful
<1>5. ASSUME NEW p \in Procs, Crash(p) PROVE Truthful'
  <2>1. EntriesMatch' /\ StampsMatch'
    BY <1>5 DEF Crash, Truthful, EntriesMatch, StampsMatch, Dubious, Matches, SourcesMatch
  <2>2. ASSUME NEW q \in Procs PROVE Restoring(q)' /\ Building(q)' /\ Recording(q)'
    <3>1. CASE q = p
      BY <1>5, <3>1 DEF Crash, Exit, Goto, Restoring, Building, Recording
    <3>2. CASE q # p
      <4>1. Undisturbed(q)
        BY <1>5, <3>2 DEF Crash, Exit, Goto, Undisturbed
      <4> QED BY <4>1, UndisturbedKeeps DEF Truthful
    <3> QED BY <3>1, <3>2
  <2> QED BY <2>1, <2>2 DEF Truthful
<1> QED
  BY <1>1, <1>2, <1>3, <1>4, <1>5 DEF Environment

\* The inductive invariant.
LEMMA TruthfulInvariant == Spec => [](TypeInv /\ CargoInv /\ Truthful)
<1>1. TypeInv /\ CargoInv /\ Truthful /\ [Next]_vars => Truthful'
  <2> SUFFICES ASSUME TypeInv, CargoInv, Truthful, [Next]_vars PROVE Truthful'
    OBVIOUS
  <2>1. CASE UNCHANGED vars
    <3>1. EntriesMatch' /\ StampsMatch'
      BY <2>1 DEF vars, Truthful, EntriesMatch, StampsMatch, Dubious, Matches, SourcesMatch
    <3>2. ASSUME NEW q \in Procs PROVE Undisturbed(q)
      BY <2>1 DEF vars, Undisturbed
    <3> QED BY <3>1, <3>2, UndisturbedKeeps DEF Truthful
  <2>2. ASSUME NEW p \in Procs, PolintStep(p) PROVE Truthful'
    <3>1. ASSUME NEW q \in Procs PROVE Restoring(q)' /\ Building(q)' /\ Recording(q)'
      <4>1. CASE q = p
        BY <2>2, <4>1, OwnStep
      <4>2. CASE q # p
        BY <2>2, <4>2, OthersStep, UndisturbedKeeps DEF Truthful
      <4> QED BY <4>1, <4>2
    <3>2. EntriesMatch' /\ StampsMatch'
      BY <2>2, EntriesStep, StampsStep
    <3> QED BY <3>1, <3>2 DEF Truthful
  <2> QED
    BY <2>1, <2>2, TruthfulStart, TruthfulEnvironment DEF Next
<1> QED
  BY <1>1, TruthfulInit, CargoInvariant, PTL DEF Spec

\* None of the interferences the code has no defence against.
Disciplined == Interference \subseteq {"edit"}

\* With none of them, matching is answering.
LEMMA MatchesAnswer ==
  ASSUME Disciplined
  PROVE  TypeInv /\ Truthful => EntriesTruthful /\ StampsTruthful /\ ExecutesNamedInputs
<1> SUFFICES ASSUME TypeInv, Truthful
             PROVE  EntriesTruthful /\ StampsTruthful /\ ExecutesNamedInputs
  OBVIOUS
<1>1. NoRevert /\ NoRelock
  BY DEF Disciplined, NoRevert, NoRelock
<1>2. \A b, f, c : Matches(b, f, c) => AnswersFor(b, f, c)
  BY <1>1 DEF Matches, SourcesMatch, AnswersFor
<1>3. EntriesTruthful
  BY <1>1, <1>2 DEF Truthful, EntriesMatch, Dubious, EntriesTruthful
<1>4. StampsTruthful
  <2> SUFFICES ASSUME NEW c \in Checkouts, stamp[c] # None
               PROVE  AnswersFor(stamp[c].hash, stamp[c].fp, c) \/ stamp[c] \in dubious
    BY DEF StampsTruthful
  <2>1. stamp[c] = [fp |-> stamp[c].fp, hash |-> stamp[c].hash]
    BY DEF TypeInv, TypeOK, Stamp
  <2> QED BY <1>2, <2>1 DEF Truthful, StampsMatch, Dubious
<1>5. ExecutesNamedInputs
  BY <1>2 DEF Truthful, Restoring, Dubious, ExecutesNamedInputs
<1> QED BY <1>3, <1>4, <1>5

\* Every entry of the store and every stamp answers the fingerprint it is filed
\* under: nothing is recorded under a key other than that of the inputs it was
\* compiled from (record_built_rule_host's bracket, record, restore), except by a
\* session whose binary or lockfile someone without the lease changed.
THEOREM TruthfulStore ==
  ASSUME Disciplined
  PROVE  Spec => [](EntriesTruthful /\ StampsTruthful)
<1>1. TypeInv /\ Truthful => EntriesTruthful /\ StampsTruthful
  BY MatchesAnswer
<1> QED
  BY <1>1, TruthfulInvariant, PTL

\* The host that is executed from a stamp or from the store is the one the run is
\* entitled to (run_local_rule_host_kind), with any number of cargo processes at
\* work beside the lease, unless one of them changed the binary or the lockfile
\* under this run or under the one that recorded it.
THEOREM TruthfulExecution ==
  ASSUME Disciplined
  PROVE  Spec => []ExecutesNamedInputs
<1>1. TypeInv /\ Truthful => ExecutesNamedInputs
  BY MatchesAnswer
<1> QED
  BY <1>1, TruthfulInvariant, PTL

\* Stated apart: a stamp never vouches for another build than the one it names.
THEOREM TruthfulStamps ==
  ASSUME Disciplined
  PROVE  Spec => []StampsTruthful
<1>1. EntriesTruthful /\ StampsTruthful => StampsTruthful
  OBVIOUS
<1> QED
  BY <1>1, TruthfulStore, PTL

\* After a build the run executes what its own cargo compiled, whatever happened
\* before the build ended and however sources and lockfiles were edited meanwhile:
\* only someone without the lease who changes the binary after it can prevent that.
THEOREM OwnBuildExecuted == Spec => []ExecutesOwnBuild
<1>1. Truthful => ExecutesOwnBuild
  BY DEF Truthful, Building, ExecutesOwnBuild
<1> QED
  BY <1>1, TruthfulInvariant, PTL

\* What every entry, every stamp and every host executed from one has in common with
\* the fingerprint that names it.
SourcesNamed ==
  /\ \A f \in Fingerprint : entry[f] \notin {None, Garbage} =>
       \/ Dubious(entry[f].hash, entry[f].key)
       \/ \A c \in Checkouts : SourcesMatch(entry[f].hash, entry[f].key, c)
  /\ \A c \in Checkouts : stamp[c] # None =>
       Dubious(stamp[c].hash, stamp[c].fp) \/ SourcesMatch(stamp[c].hash, stamp[c].fp, c)
  /\ \A p \in Procs : pc[p] \in {"exec_stamp", "exec_restored"} /\ p \notin crossed =>
       Dubious(bin[co[p]], fp[p]) \/ SourcesMatch(bin[co[p]], fp[p], co[p])

LockfilesNamed ==
  /\ \A f \in Fingerprint : entry[f] \notin {None, Garbage} =>
       Dubious(entry[f].hash, entry[f].key) \/ entry[f].hash.lock = entry[f].key.lock
  /\ \A c \in Checkouts : stamp[c] # None =>
       Dubious(stamp[c].hash, stamp[c].fp) \/ stamp[c].hash.lock = stamp[c].fp.lock
  /\ \A p \in Procs : pc[p] \in {"exec_stamp", "exec_restored"} /\ p \notin crossed =>
       Dubious(bin[co[p]], fp[p]) \/ bin[co[p]].lock = fp[p].lock

\* A lockfile rewritten during a build, which the bracket leaves out (lockfile_line),
\* can at worst misname the lockfile: the sources that every entry, stamp and executed
\* host stands for are the ones it was compiled from.
THEOREM RelockSparesSources ==
  ASSUME NoRevert
  PROVE  Spec => []SourcesNamed
<1>1. Truthful => SourcesNamed
  <2> SUFFICES ASSUME Truthful PROVE SourcesNamed
    OBVIOUS
  <2>1. \A b, f, c : Matches(b, f, c) => SourcesMatch(b, f, c)
    BY DEF Matches
  <2> QED BY <2>1 DEF Truthful, EntriesMatch, StampsMatch, Restoring, SourcesNamed
<1> QED
  BY <1>1, TruthfulInvariant, PTL

\* An edit taken back during a build, which the comparison of the two digests cannot
\* see, can at worst misname the sources: the lockfile that every entry, stamp and
\* executed host is filed under is the one its cargo wrote.
THEOREM RevertSparesLockfiles ==
  ASSUME NoRelock
  PROVE  Spec => []LockfilesNamed
<1>1. Truthful => LockfilesNamed
  <2> SUFFICES ASSUME Truthful PROVE LockfilesNamed
    OBVIOUS
  <2>1. \A b, f, c : Matches(b, f, c) => b.lock = f.lock
    BY DEF Matches
  <2>2. ASSUME NEW f \in Fingerprint, entry[f] \notin {None, Garbage}, ~Dubious(entry[f].hash, entry[f].key)
        PROVE  entry[f].hash.lock = entry[f].key.lock
    <3>1. entry[f].hash.at \in Checkouts
      BY <2>2 DEF Truthful, EntriesMatch, Binary
    <3> QED BY <2>1, <2>2, <3>1 DEF Truthful, EntriesMatch
  <2> QED BY <2>1, <2>2 DEF Truthful, StampsMatch, Restoring, LockfilesNamed
<1> QED
  BY <1>1, TruthfulInvariant, PTL

-----------------------------------------------------------------------------
\* Entries can be restored.

\* Nothing fails but processes.
OnlyCrashes == Faults \subseteq {"crash"}

\* A crossed session may have published other bytes under this digest.
Unsound(h) == \E d \in dubious : d.hash = h

\* A blob is absent or what its name says, those that entries name and those that
\* sessions are about to copy or to name are there, and none is taken for damaged
\* but what a crossed session published.
Stocked ==
  /\ EntriesRestorable
  /\ \A h \in Binary \union {Garbage} : blob[h] \in {None, h} \/ Unsound(h)
  /\ \A p \in Procs :
       /\ pc[p] \in {"copy", "publish_entry"} => blob[hash[p]] = hash[p] \/ Unsound(hash[p])
       /\ pc[p] = "remove_blob" => Unsound(hash[p])

LEMMA StockedInit == Init => Stocked
  BY DEF Init, Stocked, EntriesRestorable

\* Blobs are only added, under the digest of their content.
LEMMA BlobsStay ==
  ASSUME TypeInv, Truthful, Stocked, NEW p \in Procs, PolintStep(p)
  PROVE  \A h \in Binary \union {Garbage} :
           blob'[h] = blob[h] \/ (blob[h] = None /\ blob'[h] = h) \/ Unsound(h)'
<1> USE DEF tree, store, disk, memo, count, past
<1>1. CASE UNCHANGED blob
  BY <1>1
<1>2. CASE PublishBlob(p)
  <2>1. /\ p \notin crossed => bin[co[p]] = hash[p]
        /\ hash[p] \in Binary \union {Garbage}
    BY <1>2 DEF PublishBlob, Goto, Truthful, Building, Recording, TypeInv, Shape
  <2>2. p \in crossed => Unsound(hash[p])'
    <3>1. hash' = hash /\ Records(p)
      BY <1>2 DEF PublishBlob
    <3>2. [fp |-> fp[p], hash |-> hash[p]].hash = hash[p]
      OBVIOUS
    <3> HIDE DEF past
    <3> QED BY <3>1, <3>2 DEF Records, Unsound
  <2>3. CASE blob' = [blob EXCEPT ![hash[p]] = IF @ = None THEN bin[co[p]] ELSE @]
    <3>1. hash' = hash
      BY <1>2 DEF PublishBlob
    <3> QED BY <2>1, <2>2, <2>3, <3>1 DEF TypeInv, TypeOK, Unsound
  <2> QED
    BY <1>1, <1>2, <2>3 DEF PublishBlob
<1>3. CASE RemoveBlob(p)
  <2>1. Unsound(hash[p]) /\ hash[p] \in Binary \union {Garbage}
    BY <1>3 DEF RemoveBlob, Goto, Stocked, TypeInv, Shape
  <2> QED BY <1>3, <2>1 DEF RemoveBlob, Unsound, TypeInv, TypeOK
<1> QED
  BY <1>1, <1>2, <1>3 DEF PolintStep, Progress, Plan, PlanFails, CheckStamp, ChooseStore, ReadEntry, CopyBlob,
     DiscardEntry, Persist, StampRestored, WriteStamp, BuildStarts, CargoReads, BuildEnds, BuildFails,
     Bracket, HashBinary, StampBuilt, PublishEntry, HostSucceeds, HostFails, CargoRunStarts, CargoRunEnds

\* What blobs that stay mean for the sessions and entries that are left alone
LEMMA BlobsKept ==
  ASSUME TypeInv, Stocked, dubious \subseteq dubious',
         \A h \in Binary \union {Garbage} :
           blob'[h] = blob[h] \/ (blob[h] = None /\ blob'[h] = h) \/ Unsound(h)'
  PROVE  /\ \A h \in Binary \union {Garbage} : blob'[h] \in {None, h} \/ Unsound(h)'
         /\ \A h \in Binary \union {Garbage} : blob[h] = h \/ Unsound(h) => blob'[h] = h \/ Unsound(h)'
         /\ \A f \in Fingerprint : entry[f] \notin {None, Garbage} =>
              \/ blob'[entry[f].hash] = entry[f].hash
              \/ \E d \in dubious' : d.hash = entry[f].hash
<1>1. \A h \in Binary \union {Garbage} : h # None
  BY SentinelAssumption
<1>2. \A f \in Fingerprint : entry[f] \notin {None, Garbage} => entry[f].hash \in Binary \union {Garbage}
  BY DEF TypeInv, TypeOK, Entry
<1>3. \A h : Unsound(h) => \E d \in dubious' : d.hash = h
  BY DEF Unsound
<1>4. ASSUME NEW h \in Binary \union {Garbage}
      PROVE  /\ blob'[h] \in {None, h} \/ Unsound(h)'
             /\ blob[h] = h \/ Unsound(h) => blob'[h] = h \/ Unsound(h)'
  BY <1>1, <1>3, <1>4 DEF Stocked, Unsound
<1> QED
  BY <1>1, <1>2, <1>3, <1>4 DEF Stocked, EntriesRestorable, Unsound

\* The session that takes the step: what it copies next an entry names, and what it
\* names next it has published.
LEMMA StockedOwn ==
  ASSUME TypeInv, Truthful, Stocked, OnlyCrashes, NEW p \in Procs, PolintStep(p)
  PROVE  /\ pc'[p] \in {"copy", "publish_entry"} => blob'[hash'[p]] = hash'[p] \/ \E d \in dubious' : d.hash = hash'[p]
         /\ pc'[p] = "remove_blob" => \E d \in dubious' : d.hash = hash'[p]
<1> USE DEF tree, store, disk, memo, count, past
<1>0. pc \in [Procs -> Steps]
  BY DEF TypeInv, TypeOK
<1>1. CASE ReadEntry(p)
  <2>1. pc'[p] # "remove_blob" /\ pc'[p] # "publish_entry" /\ blob' = blob /\ dubious' = dubious
    BY <1>0, <1>1 DEF ReadEntry, Goto
  <2>2. CASE pc'[p] = "copy"
    <3>1. EntryUsable(entry[fp[p]], fp[p]) /\ hash' = [hash EXCEPT ![p] = entry[fp[p]].hash]
      BY <1>0, <1>1, <2>2 DEF ReadEntry, Goto
    <3>2. fp[p] \in Fingerprint
      BY <1>1 DEF ReadEntry, Goto, TypeInv, Shape
    <3> QED
      BY <2>1, <3>1, <3>2 DEF EntryUsable, Stocked, EntriesRestorable, TypeInv, TypeOK
  <2> QED
    BY <2>1, <2>2
<1>2. CASE CopyBlob(p)
  BY <1>0, <1>2 DEF CopyBlob, Goto, Stocked, Unsound, OnlyCrashes
<1>3. CASE PublishBlob(p)
  <2>1. /\ pc[p] = "publish_blob" /\ hash[p] \in Binary \union {Garbage} /\ hash' = hash
        /\ p \notin crossed => bin[co[p]] = hash[p]
    BY <1>3 DEF PublishBlob, Goto, Truthful, Building, Recording, TypeInv, Shape
  <2>2. /\ pc'[p] = "publish_entry"
        /\ blob' = [blob EXCEPT ![hash[p]] = IF @ = None THEN bin[co[p]] ELSE @]
    BY <1>0, <1>3, <2>1 DEF PublishBlob, Goto, OnlyCrashes, TypeInv, TypeOK
  <2>3. CASE p \in crossed
    <3>1. [fp |-> fp[p], hash |-> hash[p]] \in dubious' /\ [fp |-> fp[p], hash |-> hash[p]].hash = hash[p]
      BY <1>3, <2>3 DEF PublishBlob, Records
    <3> QED BY <2>1, <2>2, <3>1
  <2>4. CASE p \notin crossed
    <3>1. dubious' = dubious
      BY <1>3, <2>4 DEF PublishBlob, Records
    <3>2. blob[hash[p]] \in {None, hash[p]} \/ \E d \in dubious : d.hash = hash[p]
      BY <2>1 DEF Stocked, Unsound
    <3> QED BY <2>1, <2>2, <2>4, <3>1, <3>2 DEF TypeInv, TypeOK
  <2> QED
    BY <2>3, <2>4
<1>4. CASE Plan(p) \/ PlanFails(p) \/ CheckStamp(p) \/ ChooseStore(p) \/ RemoveBlob(p) \/ DiscardEntry(p)
  BY <1>0, <1>4 DEF Plan, PlanFails, CheckStamp, ChooseStore, FallThrough, RemoveBlob, DiscardEntry, Goto
<1>5. CASE Persist(p) \/ StampRestored(p) \/ BuildStarts(p) \/ BuildEnds(p) \/ BuildFails(p) \/ Bracket(p)
  BY <1>0, <1>5 DEF Persist, StampRestored, BuildStarts, BuildEnds, BuildFails, FallThrough, Bracket, Goto
<1>6. CASE HashBinary(p) \/ StampBuilt(p) \/ PublishEntry(p) \/ HostFails(p) \/ CargoRunStarts(p)
  BY <1>0, <1>6 DEF HashBinary, StampBuilt, PublishEntry, HostFails, FallThrough, CargoRunStarts, Goto
<1>7. CASE HostSucceeds(p) \/ CargoRunEnds(p)
  BY <1>0, <1>7 DEF HostSucceeds, CargoRunEnds, Exit
<1> QED
  BY <1>1, <1>2, <1>3, <1>4, <1>5, <1>6, <1>7 DEF PolintStep, Progress

\* An entry is published only once its blob is there.
LEMMA StockedStep ==
  ASSUME TypeInv, CargoInv, Truthful, Stocked, OnlyCrashes, NEW p \in Procs, PolintStep(p)
  PROVE  Stocked'
<1>0. dubious \subseteq dubious'
  BY DubiousStays
<1>1. /\ \A h \in Binary \union {Garbage} : blob'[h] \in {None, h} \/ Unsound(h)'
      /\ \A h \in Binary \union {Garbage} : blob[h] = h \/ Unsound(h) => blob'[h] = h \/ Unsound(h)'
      /\ \A f \in Fingerprint : entry[f] \notin {None, Garbage} =>
           \/ blob'[entry[f].hash] = entry[f].hash
           \/ \E d \in dubious' : d.hash = entry[f].hash
  BY <1>0, BlobsStay, BlobsKept
<1>2. EntriesRestorable'
  <2>1. CASE UNCHANGED entry
    BY <1>1, <2>1 DEF EntriesRestorable
  <2>2. CASE DiscardEntry(p)
    BY <1>1, <2>2 DEF DiscardEntry, EntriesRestorable, TypeInv, TypeOK
  <2>3. CASE PublishEntry(p)
    <3>1. /\ pc[p] = "publish_entry" /\ fp[p] \in Fingerprint /\ hash[p] \in Binary \union {Garbage}
          /\ blob[hash[p]] = hash[p] \/ Unsound(hash[p])
          /\ blob' = blob
      BY <2>3 DEF PublishEntry, Goto, Stocked, TypeInv, Shape
    <3>2. blob'[hash[p]] = hash[p] \/ \E d \in dubious' : d.hash = hash[p]
      BY <1>0, <3>1 DEF Unsound
    <3>3. CASE entry' = [entry EXCEPT ![fp[p]] = [key |-> fp[p], hash |-> hash[p]]]
      BY <1>1, <3>1, <3>2, <3>3 DEF EntriesRestorable, TypeInv, TypeOK
    <3> QED
      BY <2>1, <2>3, <3>3 DEF PublishEntry
  <2> QED
    BY <2>1, <2>2, <2>3 DEF PolintStep, Progress, Plan, PlanFails, CheckStamp, ChooseStore, ReadEntry, CopyBlob,
       RemoveBlob, Persist, StampRestored, WriteStamp, BuildStarts, CargoReads, BuildEnds, BuildFails,
       Bracket, HashBinary, StampBuilt, PublishBlob, HostSucceeds, HostFails, CargoRunStarts, CargoRunEnds,
       tree, store, disk, memo, count, past
<1>3. ASSUME NEW q \in Procs
      PROVE  /\ pc'[q] \in {"copy", "publish_entry"} => blob'[hash'[q]] = hash'[q] \/ \E d \in dubious' : d.hash = hash'[q]
             /\ pc'[q] = "remove_blob" => \E d \in dubious' : d.hash = hash'[q]
  <2>1. CASE q = p
    BY <2>1, StockedOwn
  <2>2. CASE q # p
    <3>1. pc'[q] = pc[q] /\ hash'[q] = hash[q]
      BY <2>2, OthersStep DEF Undisturbed
    <3>2. pc[q] \in {"copy", "publish_entry"} => hash[q] \in Binary \union {Garbage}
      BY DEF TypeInv, Shape
    <3>3. pc[q] \in {"copy", "publish_entry"} => blob'[hash[q]] = hash[q] \/ \E d \in dubious' : d.hash = hash[q]
      BY <1>1, <3>2 DEF Stocked, Unsound
    <3>4. pc[q] = "remove_blob" => \E d \in dubious' : d.hash = hash[q]
      BY <1>0 DEF Stocked, Unsound
    <3> QED
      BY <3>1, <3>3, <3>4
  <2> QED
    BY <2>1, <2>2
<1> QED
  BY <1>1, <1>2, <1>3 DEF Stocked, Unsound

\* As long as only processes fail, every entry of the store can be restored at every
\* moment: record publishes the blob before the entry, and no restore takes a blob
\* for damaged and removes it, but for one whose publisher was crossed.
THEOREM RestorableEntries ==
  ASSUME OnlyCrashes
  PROVE  Spec => []EntriesRestorable
<1>1. TypeInv /\ CargoInv /\ Truthful /\ Stocked /\ [Next]_vars => Stocked'
  <2> SUFFICES ASSUME TypeInv, CargoInv, Truthful, Stocked, [Next]_vars PROVE Stocked'
    OBVIOUS
  <2>1. ASSUME NEW p \in Procs, PolintStep(p) PROVE Stocked'
    BY <2>1, StockedStep
  <2>2. ASSUME UNCHANGED store, UNCHANGED dubious,
               \A q \in Procs : \/ pc'[q] = pc[q] /\ hash'[q] = hash[q]
                                \/ pc'[q] \in {"idle", "locking", "cargo_run", "cargo_compiling"}
        PROVE  Stocked'
    BY <2>2 DEF store, Stocked, Unsound, EntriesRestorable
  <2>3. CASE UNCHANGED vars
    BY <2>2, <2>3 DEF vars, store
  <2>4. ASSUME NEW p \in Procs, NEW c \in Checkouts, NEW on \in BOOLEAN, Start(p, c, on) PROVE Stocked'
    <3>1. UNCHANGED store /\ UNCHANGED dubious /\ hash' = hash
      BY <2>4 DEF Start, disk, store, past
    <3>2. pc' = [pc EXCEPT ![p] = "locking"] \/ pc' = [pc EXCEPT ![p] = "cargo_run"]
      BY <2>4 DEF Start
    <3> QED
      BY <2>2, <3>1, <3>2 DEF TypeInv, TypeOK
  <2>5. CASE Environment
    <3>1. ASSUME NEW p \in Procs, Crash(p) PROVE Stocked'
      <4>1. UNCHANGED store /\ UNCHANGED dubious
        BY <3>1 DEF Crash, disk, store
      <4>2. \A q \in Procs : \/ pc'[q] = pc[q] /\ hash'[q] = hash[q]
                             \/ pc'[q] \in {"idle", "locking", "cargo_run", "cargo_compiling"}
        BY <3>1 DEF Crash, Exit, Goto, memo, TypeInv, TypeOK
      <4> QED
        BY <2>2, <4>1, <4>2
    <3>2. CASE SpoilStore \/ \E c \in Checkouts : SpoilBinary(c)
      BY <3>2 DEF SpoilStore, SpoilBinary, OnlyCrashes
    <3>3. CASE \/ \E c \in Checkouts, s \in Sources : EditSource(c, s)
               \/ \E c \in Checkouts, l \in LockFiles \union {None} : EditLock(c, l)
      BY <2>2, <3>3 DEF EditSource, EditLock, store, memo, past
    <3> QED
      BY <2>5, <3>1, <3>2, <3>3 DEF Environment
  <2> QED
    BY <2>1, <2>3, <2>4, <2>5 DEF Next
<1>2. Stocked => EntriesRestorable
  BY DEF Stocked
<1> QED
  BY <1>1, <1>2, StockedInit, TruthfulInvariant, PTL DEF Spec

-----------------------------------------------------------------------------
\* Every run ends: the part of it that is safety.

\* How many steps a run has left, at most.
Rank ==
  [locking |-> 21, planned |-> 20, exec_stamp |-> 19, choose |-> 18, restore |-> 17,
   copy |-> 16, remove_blob |-> 15, discard |-> 14, persist |-> 13, restamp |-> 12,
   exec_restored |-> 11, build |-> 10, compiling |-> 9, built |-> 8, hash |-> 7,
   stamp_built |-> 6, publish_blob |-> 5, publish_entry |-> 4, exec_built |-> 3,
   cargo_run |-> 2, cargo_compiling |-> 1, idle |-> 0]

\* A run that is under way only goes forward.
Advances(p) == pc'[p] = pc[p] \/ pc[p] = "idle" \/ Rank[pc'[p]] < Rank[pc[p]]

\* The three routes, their failures and the fallback are tried in one order.
LEMMA StepAdvances ==
  ASSUME TypeInv, NEW p \in Procs, PolintStep(p)
  PROVE  Rank[pc'[p]] < Rank[pc[p]] /\ \A q \in Procs \ {p} : pc'[q] = pc[q]
<1> USE DEF Goto, Rank
<1>0. pc \in [Procs -> Steps]
  BY DEF TypeInv, TypeOK
<1>1. CASE Plan(p)
  BY <1>0, <1>1 DEF Plan
<1>2. CASE PlanFails(p)
  BY <1>0, <1>2 DEF PlanFails
<1>3. CASE CheckStamp(p)
  BY <1>0, <1>3 DEF CheckStamp
<1>4. CASE ChooseStore(p)
  BY <1>0, <1>4 DEF ChooseStore, FallThrough
<1>5. CASE ReadEntry(p)
  BY <1>0, <1>5 DEF ReadEntry
<1>6. CASE CopyBlob(p)
  BY <1>0, <1>6 DEF CopyBlob
<1>7. CASE RemoveBlob(p)
  BY <1>0, <1>7 DEF RemoveBlob
<1>8. CASE DiscardEntry(p)
  BY <1>0, <1>8 DEF DiscardEntry
<1>9. CASE Persist(p)
  BY <1>0, <1>9 DEF Persist
<1>10. CASE StampRestored(p)
  BY <1>0, <1>10 DEF StampRestored
<1>11. CASE BuildStarts(p)
  BY <1>0, <1>11 DEF BuildStarts
<1>12. CASE BuildEnds(p)
  BY <1>0, <1>12 DEF BuildEnds
<1>13. CASE BuildFails(p)
  BY <1>0, <1>13 DEF BuildFails, FallThrough
<1>14. CASE Bracket(p)
  BY <1>0, <1>14 DEF Bracket
<1>15. CASE HashBinary(p)
  BY <1>0, <1>15 DEF HashBinary
<1>16. CASE StampBuilt(p)
  BY <1>0, <1>16 DEF StampBuilt
<1>17. CASE PublishBlob(p)
  BY <1>0, <1>17 DEF PublishBlob
<1>18. CASE PublishEntry(p)
  BY <1>0, <1>18 DEF PublishEntry
<1>19. CASE HostSucceeds(p)
  BY <1>0, <1>19 DEF HostSucceeds, Exit
<1>20. CASE HostFails(p)
  BY <1>0, <1>20 DEF HostFails, FallThrough
<1>21. CASE CargoRunStarts(p)
  BY <1>0, <1>21 DEF CargoRunStarts
<1>22. CASE CargoRunEnds(p)
  BY <1>0, <1>22 DEF CargoRunEnds, Exit
<1> QED
  BY <1>1, <1>2, <1>3, <1>4, <1>5, <1>6, <1>7, <1>8, <1>9, <1>10, <1>11, <1>12, <1>13, <1>14, <1>15, <1>16, <1>17, <1>18, <1>19, <1>20, <1>21, <1>22 DEF PolintStep, Progress

\* No run of the rule host goes round in circles: whatever fails, and whatever other
\* runs and the environment do meanwhile, each step takes it strictly nearer to its
\* end, so a run of run_local_rule_host_kind has at most 21 steps.
THEOREM RunsAdvance == Spec => [][\A p \in Procs : Advances(p)]_vars
<1>1. TypeInv /\ [Next]_vars => [\A p \in Procs : Advances(p)]_vars
  <2> SUFFICES ASSUME TypeInv, Next, NEW q \in Procs PROVE Advances(q)
    BY DEF TypeInv
  <2>0. pc \in [Procs -> Steps]
    BY DEF TypeInv, TypeOK
  <2>1. ASSUME NEW p \in Procs, NEW c \in Checkouts, NEW on \in BOOLEAN, Start(p, c, on) PROVE Advances(q)
    BY <2>0, <2>1 DEF Start, Advances
  <2>2. ASSUME NEW p \in Procs, PolintStep(p) PROVE Advances(q)
    BY <2>2, StepAdvances DEF Advances
  <2>3. ASSUME NEW p \in Procs, Crash(p) PROVE Advances(q)
    <3>1. CASE Exit(p)
      BY <2>0, <2>3, <3>1 DEF Crash, Exit, Advances, Rank
    <3>2. CASE Goto(p, "compiling", "cargo_compiling")
      BY <2>0, <3>2 DEF Goto, Advances, Rank
    <3> QED BY <2>3, <3>1, <3>2 DEF Crash
  <2> QED
    BY <2>1, <2>2, <2>3 DEF Next, Environment, EditSource, EditLock, SpoilBinary, SpoilStore, Advances
<1> QED
  BY <1>1, TypeCorrect, PTL DEF Spec, TypeInv

\* A run waits for the target lease, and a build for cargo's own lock.
WaitsFor(p, q) ==
  \/ pc[p] = "locking" /\ lease[co[p]] = q
  \/ pc[p] \in {"build", "cargo_run"} /\ cargo[co[p]] = q

\* What Progress(p) asks for besides the step the run is at.
Blocked(p) ==
  \/ pc[p] = "locking" /\ lease[co[p]] # None
  \/ pc[p] \in {"build", "cargo_run"} /\ cargo[co[p]] # None
  \/ pc[p] = "hash" /\ bin[co[p]] = None

\* The locks a run may still have to wait for.
LocksAhead(p) ==
  IF pc[p] = "locking" THEN 2
  ELSE IF pc[p] \in {"compiling", "cargo_compiling"} THEN 0 ELSE 1

\* A blocked run waits for one that has fewer locks to wait for: waiting goes through
\* at most two hands and never comes back to where it began.
WaitsForward ==
  \A p \in Procs : Blocked(p) =>
    \E q \in Procs : WaitsFor(p, q) /\ pc[q] # "idle" /\ LocksAhead(q) < LocksAhead(p)

\* While a run is under way, some run under way can take its next step.
NobodyStuck ==
  (\E p \in Procs : pc[p] # "idle") => \E p \in Procs : pc[p] # "idle" /\ ~Blocked(p)

\* Nobody waits for a run that waits for it, directly or through others, whatever
\* interferes and whoever is killed: the two locks (the target lease, cargo's) are
\* always taken in the same order and released by every way out.
THEOREM WaitingGoesForward == Spec => []WaitsForward
<1>1. TypeInv /\ CargoInv => WaitsForward
  <2> SUFFICES ASSUME TypeInv, CargoInv, NEW p \in Procs, Blocked(p)
               PROVE  \E q \in Procs : WaitsFor(p, q) /\ pc[q] # "idle" /\ LocksAhead(q) < LocksAhead(p)
    BY DEF WaitsForward
  <2>0. co[p] \in Checkouts
    BY DEF TypeInv, Shape, Blocked
  <2>1. CASE pc[p] = "locking" /\ lease[co[p]] # None
    <3>1. lease[co[p]] \in Procs /\ pc[lease[co[p]]] \in LeasedSteps
      BY <2>0, <2>1 DEF TypeInv, TypeOK, LeaseInv
    <3> QED BY <2>1, <3>1 DEF WaitsFor, LocksAhead
  <2>2. CASE pc[p] \in {"build", "cargo_run"} /\ cargo[co[p]] # None
    <3>1. cargo[co[p]] \in Procs /\ pc[cargo[co[p]]] \in {"compiling", "cargo_compiling"}
      BY <2>0, <2>2 DEF TypeInv, TypeOK, CargoInv
    <3> QED BY <2>2, <3>1 DEF WaitsFor, LocksAhead
  <2>3. CASE pc[p] = "hash" /\ bin[co[p]] = None
    BY <2>3 DEF CargoInv
  <2> QED BY <2>1, <2>2, <2>3 DEF Blocked
<1> QED
  BY <1>1, CargoInvariant, PTL

\* There is no deadlock: as long as a run is under way one of them has its next step
\* open, also when a killed run leaves its cargo behind.
THEOREM NeverStuck == Spec => []NobodyStuck
<1>1. WaitsForward => NobodyStuck
  <2> SUFFICES ASSUME WaitsForward, NEW p \in Procs, pc[p] # "idle"
               PROVE  \E q \in Procs : pc[q] # "idle" /\ ~Blocked(q)
    BY DEF NobodyStuck
  <2>1. CASE ~Blocked(p)
    BY <2>1
  <2>2. CASE Blocked(p)
    <3>1. PICK q \in Procs : pc[q] # "idle" /\ LocksAhead(q) < LocksAhead(p)
      BY <2>2 DEF WaitsForward
    <3>2. CASE Blocked(q)
      <4>1. PICK r \in Procs : pc[r] # "idle" /\ LocksAhead(r) < LocksAhead(q)
        BY <3>2 DEF WaitsForward
      <4>2. pc[r] \in {"compiling", "cargo_compiling"}
        BY <3>1, <4>1 DEF LocksAhead
      <4> QED BY <4>1, <4>2 DEF Blocked
    <3> QED BY <3>1, <3>2
  <2> QED BY <2>1, <2>2
<1> QED
  BY <1>1, WaitingGoesForward, PTL

=============================================================================
