---------------------------- MODULE SidecarCache ----------------------------
(***************************************************************************)
(* How a polint process obtains a Go sidecar: the embedded sources are     *)
(* written to a per-user cache directory shared by all processes           *)
(* (materialize_embedded_sources_at, subprocess/embedded_cache.rs), and    *)
(* the sidecar is built in it once and kept beside its receipt             *)
(* (ensure_sidecar_binary_with_program_and_hooks, go/semantic/process.rs), *)
(* on Unix.  Several processes do so at the same time, each may be killed  *)
(* between any two steps, and the shared directory may be damaged.         *)
(*                                                                         *)
(* A build is named after the process that made it, and so is the digest   *)
(* its receipt records.                                                    *)
(***************************************************************************)
EXTENDS FiniteSets

CONSTANTS
  Procs,    \* polint processes, each obtaining the sidecar once
  Files,    \* the embedded source files
  Marker,   \* the `.complete` file
  Shared,   \* the directory all processes look at first
  Absent,   \* no such file or directory
  Spoiled,  \* content that does not match
  Faults    \* what may go wrong, of:

FaultKinds ==
  { "crash",    \* a process is killed
    "damage",   \* what is in the shared directory is changed or removed
    "failure" } \* creating, writing or renaming fails, or `go build` does

ASSUME SidecarAssumption ==
  /\ Faults \subseteq FaultKinds
  /\ Shared \notin Procs
  /\ Absent \notin Procs
  /\ Spoiled \notin Procs
  /\ Absent # Spoiled
  /\ Marker \notin Files

VARIABLES
  sources,  \* sources[d]: the files in directory d, a set, or Absent or Spoiled
  binary,   \* binary[d]: the cached build in it
  receipt,  \* receipt[d]: the digest its receipt records
  lock,     \* lock[d]: the process that has d's binary cache lock
  pc,       \* pc[p]: the step process p is at
  at,       \* at[p]: the directory it works in, Shared or its own fallback p
  staging,  \* staging[p]: the files it has staged
  seen,     \* seen[p]: the digest it read from the receipt
  tripped   \* processes from under whose walk of a directory a file was removed

cache == <<binary, receipt, lock>>
vars  == <<sources, binary, receipt, lock, pc, at, staging, seen, tripped>>

Dirs  == Procs \union {Shared}
Parts == Files \union {Marker}
Builds == Procs \union {Absent, Spoiled}

ASSUME PartsAssumption == Parts \notin {Absent, Spoiled}

Steps ==
  {"idle", "verify", "walk", "exists", "stage", "rename", "published", "lost", "rewalk",
   "lookup", "compare", "locking", "recheck", "build", "link", "exists_already",
   "receipt", "confirm", "ok", "err", "dead"}

TypeOK ==
  /\ sources \in [Dirs -> (SUBSET Parts) \union {Absent, Spoiled}]
  /\ binary \in [Dirs -> Builds]
  /\ receipt \in [Dirs -> Builds]
  /\ lock \in [Dirs -> Procs \union {Absent}]
  /\ pc \in [Procs -> Steps]
  /\ at \in [Procs -> Dirs]
  /\ staging \in [Procs -> SUBSET Parts]
  /\ seen \in [Procs -> Builds]
  /\ tripped \subseteq Procs

Init ==
  /\ sources = [d \in Dirs |-> Absent]
  /\ binary = [d \in Dirs |-> Absent]
  /\ receipt = [d \in Dirs |-> Absent]
  /\ lock = [d \in Dirs |-> Absent]
  /\ pc = [p \in Procs |-> "idle"]
  /\ at = [p \in Procs |-> Shared]
  /\ staging = [p \in Procs |-> {}]
  /\ seen = [p \in Procs |-> Absent]
  /\ tripped = {}

Goto(p, from, to) ==
  /\ pc[p] = from
  /\ pc' = [pc EXCEPT ![p] = to]

\* p removes a staging file of its own (`.build-*`, or a receipt's) from the directory
\* it works in: whoever is walking it may have the name and not find the file.
Removes(p) ==
  tripped' = tripped \union {q \in Procs : pc[q] \in {"walk", "rewalk"} /\ at[q] = at[p]}

-----------------------------------------------------------------------------
\* materialize_embedded_sources_at.

Begin(p) == Goto(p, "idle", "verify") /\ UNCHANGED <<sources, cache, at, staging, seen, tripped>>

\* verified_embedded_directory, what it reads: the marker and every file with its
\* content, and nothing else but what the sidecars themselves leave there.
Verified(d) == sources[d] = Parts

\* The first look at a directory.  What was read matches, and it is walked next ...
Verify(p) ==
  /\ \/ Goto(p, "verify", "walk") /\ Verified(at[p])
     \/ Goto(p, "verify", "exists") /\ ~Verified(at[p])
  /\ UNCHANGED <<sources, cache, at, staging, seen, tripped>>

\* ... which fails on what was not there before, and on an entry that is gone when it
\* is looked at (embedded_source_paths).
WalkFails(p) == ~Verified(at[p]) \/ p \in tripped

\* A directory that verifies is used as it is.
Walk(p) ==
  /\ \/ Goto(p, "walk", "lookup")
     \/ Goto(p, "walk", "exists") /\ WalkFails(p)
  /\ tripped' = tripped \ {p}
  /\ UNCHANGED <<sources, cache, at, staging, seen>>

\* Mutant of CheckExists: what is there is cleared away and made again.
CheckExistsRepair(p) ==
  /\ Goto(p, "exists", "stage")
  /\ sources' = [sources EXCEPT ![at[p]] = Absent]
  /\ staging' = [staging EXCEPT ![p] = {}]
  /\ UNCHANGED <<cache, at, seen, tripped>>

\* A directory that is there and does not verify is left alone: the sources are
\* materialized once more below a fresh private parent.
CheckExists(p) ==
  /\ \/ /\ Goto(p, "exists", "verify")
        /\ sources[at[p]] # Absent
        /\ at' = [at EXCEPT ![p] = p]
        /\ UNCHANGED staging
     \/ /\ Goto(p, "exists", "stage")
        /\ sources[at[p]] = Absent
        /\ staging' = [staging EXCEPT ![p] = {}]
        /\ UNCHANGED at
  /\ UNCHANGED <<sources, cache, seen, tripped>>

\* The files are written to a staging directory of this process, the marker last.
WriteFile(p, f) ==
  /\ pc[p] = "stage"
  /\ f \notin staging[p]
  /\ f = Marker => Files \subseteq staging[p]
  /\ staging' = [staging EXCEPT ![p] = @ \union {f}]
  /\ pc' = IF f = Marker THEN [pc EXCEPT ![p] = "rename"] ELSE pc
  /\ UNCHANGED <<sources, cache, at, seen, tripped>>

\* rename(2) does not replace a directory that has something in it.
Rename(p) ==
  /\ \/ /\ Goto(p, "rename", "published")
        /\ sources[at[p]] = Absent
        /\ sources' = [sources EXCEPT ![at[p]] = staging[p]]
     \/ /\ Goto(p, "rename", "lost")
        /\ sources[at[p]] # Absent \/ "failure" \in Faults
        /\ UNCHANGED sources
  /\ UNCHANGED <<cache, at, staging, seen, tripped>>

\* Mutant of Settle: a lost race is tried again, by nobody.
SettleRetry(p) ==
  /\ \/ Goto(p, "published", "rewalk") /\ Verified(at[p])
     \/ Goto(p, "published", "err") /\ ~Verified(at[p])
     \/ Goto(p, "lost", "retry")
  /\ UNCHANGED <<sources, cache, at, staging, seen, tripped>>

\* The published directory is verified; whoever lost the race uses the winner's.
Settle(p) ==
  /\ \/ /\ \/ Goto(p, "published", "rewalk")
           \/ Goto(p, "lost", "rewalk")
        /\ Verified(at[p])
     \/ /\ \/ Goto(p, "published", "err")
           \/ Goto(p, "lost", "err")
        /\ ~Verified(at[p])
  /\ UNCHANGED <<sources, cache, at, staging, seen, tripped>>

\* Now a directory that does not verify is an error.
Rewalk(p) ==
  /\ \/ Goto(p, "rewalk", "lookup") /\ tripped' = tripped \ {p}
     \/ Goto(p, "rewalk", "err") /\ WalkFails(p) /\ UNCHANGED tripped
  /\ UNCHANGED <<sources, cache, at, staging, seen>>

-----------------------------------------------------------------------------
\* ensure_sidecar_binary_with_program_and_hooks.

\* Mutant of Unlock: the lock outlives the call.
UnlockNever(p) == UNCHANGED lock

\* The lock file is closed.
Unlock(p) == lock' = [d \in Dirs |-> IF lock[d] = p THEN Absent ELSE lock[d]]

\* cached_binary_matches, before the lock is taken: the receipt is read ...
Lookup(p) ==
  /\ Goto(p, "lookup", "compare")
  /\ seen' = [seen EXCEPT ![p] = receipt[at[p]]]
  /\ UNCHANGED <<sources, cache, at, staging, tripped>>

\* ... and then the binary is hashed.
Compare(p) ==
  LET match == seen[p] \in Procs /\ seen[p] = binary[at[p]] IN
  /\ \/ Goto(p, "compare", "ok") /\ match
     \/ Goto(p, "compare", "locking") /\ ~match
  /\ UNCHANGED <<sources, cache, at, staging, seen, tripped>>

Matches(d) == receipt[d] \in Procs /\ receipt[d] = binary[d]

\* Mutant of Lock: the lock is not waited for.
LockUnserialized(p) ==
  /\ Goto(p, "locking", "recheck")
  /\ lock' = [lock EXCEPT ![at[p]] = p]
  /\ UNCHANGED <<sources, binary, receipt, at, staging, seen, tripped>>

\* lock_frontend_binary_cache: the lock is waited for.
Lock(p) ==
  /\ Goto(p, "locking", "recheck")
  /\ lock[at[p]] = Absent
  /\ lock' = [lock EXCEPT ![at[p]] = p]
  /\ UNCHANGED <<sources, binary, receipt, at, staging, seen, tripped>>

\* Someone else may have published the pair meanwhile; half a pair is an error.
Recheck(p) ==
  LET d == at[p] IN
  /\ \/ Goto(p, "recheck", "ok") /\ Matches(d) /\ Unlock(p)
     \/ /\ Goto(p, "recheck", "err")
        /\ ~Matches(d) /\ (binary[d] # Absent \/ receipt[d] # Absent)
        /\ Unlock(p)
     \/ /\ Goto(p, "recheck", "build")
        /\ binary[d] = Absent /\ receipt[d] = Absent
        /\ UNCHANGED lock
  /\ UNCHANGED <<sources, binary, receipt, at, staging, seen, tripped>>

Build(p) ==
  /\ Goto(p, "build", "link")
  /\ UNCHANGED <<sources, cache, at, staging, seen, tripped>>

\* The build is hard-linked to its place, which fails if there is one already, and
\* its staging file removed.
Link(p) ==
  /\ \/ /\ Goto(p, "link", "receipt")
        /\ binary[at[p]] = Absent
        /\ binary' = [binary EXCEPT ![at[p]] = p]
     \/ /\ Goto(p, "link", "exists_already")
        /\ binary[at[p]] # Absent
        /\ UNCHANGED binary
  /\ Removes(p)
  /\ UNCHANGED <<sources, receipt, lock, at, staging, seen>>

UseExisting(p) ==
  /\ \/ Goto(p, "exists_already", "ok") /\ Matches(at[p])
     \/ Goto(p, "exists_already", "err") /\ ~Matches(at[p])
  /\ Unlock(p)
  /\ UNCHANGED <<sources, binary, receipt, at, staging, seen, tripped>>

\* Mutant of PublishReceipt: the build is used without one.
PublishReceiptSkipped(p) ==
  /\ Goto(p, "receipt", "ok")
  /\ Unlock(p)
  /\ UNCHANGED <<sources, binary, receipt, at, staging, seen, tripped>>

\* publish_binary_receipt: another hard link, and another staging file removed.
PublishReceipt(p) ==
  /\ \/ /\ Goto(p, "receipt", "confirm")
        /\ receipt[at[p]] = Absent
        /\ receipt' = [receipt EXCEPT ![at[p]] = p]
        /\ UNCHANGED lock
     \/ /\ Goto(p, "receipt", "err")
        /\ receipt[at[p]] # Absent
        /\ Unlock(p)
        /\ UNCHANGED receipt
  /\ Removes(p)
  /\ UNCHANGED <<sources, binary, at, staging, seen>>

Confirm(p) ==
  /\ \/ Goto(p, "confirm", "ok") /\ Matches(at[p])
     \/ Goto(p, "confirm", "err") /\ ~Matches(at[p])
  /\ Unlock(p)
  /\ UNCHANGED <<sources, binary, receipt, at, staging, seen, tripped>>

-----------------------------------------------------------------------------
\* What goes wrong.

\* Any of the steps above that creates, writes, links or builds may fail; from the
\* build on, with a staging file to remove.
Fails(p) ==
  /\ "failure" \in Faults
  /\ \/ /\ \/ Goto(p, "verify", "err")
           \/ Goto(p, "stage", "err")
           \/ Goto(p, "locking", "err")
        /\ UNCHANGED tripped
     \/ /\ \/ Goto(p, "build", "err")
           \/ Goto(p, "link", "err")
           \/ Goto(p, "receipt", "err")
        /\ Removes(p)
  /\ Unlock(p)
  /\ UNCHANGED <<sources, binary, receipt, at, staging, seen>>

Crash(p) ==
  /\ "crash" \in Faults
  /\ pc[p] \notin {"idle", "ok", "err", "dead"}
  /\ pc' = [pc EXCEPT ![p] = "dead"]
  /\ Unlock(p)
  /\ UNCHANGED <<sources, binary, receipt, at, staging, seen, tripped>>

\* In the shared directory a source is changed, the build or its receipt changed or
\* removed, or the lock file removed (its holder then keeps a lock nobody sees).
Damage ==
  /\ "damage" \in Faults
  /\ \/ /\ sources[Shared] \notin {Absent, Spoiled}
        /\ sources' = [sources EXCEPT ![Shared] = Spoiled]
        /\ UNCHANGED cache
     \/ /\ \E x \in {Absent, Spoiled} :
             binary[Shared] \notin {Absent, x} /\ binary' = [binary EXCEPT ![Shared] = x]
        /\ UNCHANGED <<sources, receipt, lock>>
     \/ /\ \E x \in {Absent, Spoiled} :
             receipt[Shared] \notin {Absent, x} /\ receipt' = [receipt EXCEPT ![Shared] = x]
        /\ UNCHANGED <<sources, binary, lock>>
     \/ /\ lock[Shared] # Absent
        /\ lock' = [lock EXCEPT ![Shared] = Absent]
        /\ UNCHANGED <<sources, binary, receipt>>
  /\ UNCHANGED <<pc, at, staging, seen, tripped>>

-----------------------------------------------------------------------------

Step(p) ==
  \/ Verify(p) \/ Walk(p) \/ CheckExists(p) \/ (\E f \in Parts : WriteFile(p, f)) \/ Rename(p)
  \/ Settle(p) \/ Rewalk(p)
  \/ Lookup(p) \/ Compare(p) \/ Lock(p) \/ Recheck(p) \/ Build(p) \/ Link(p) \/ UseExisting(p)
  \/ PublishReceipt(p) \/ Confirm(p)

Done == (\A p \in Procs : pc[p] \in {"ok", "err", "dead"}) /\ UNCHANGED vars

Next ==
  \/ \E p \in Procs : Begin(p) \/ Step(p) \/ Fails(p) \/ Crash(p)
  \/ Damage
  \/ Done

Spec == Init /\ [][Next]_vars

\* A process that began is scheduled, its `go build` ends, and a free lock is got.
FairSpec == Spec /\ \A p \in Procs : WF_vars(Step(p))

-----------------------------------------------------------------------------

\* Unless the directory is damaged, a process that was given a sidecar has complete
\* sources and a build with its own receipt under it, for as long as it uses
\* them, whoever else publishes, loses a race or is killed.
SidecarSound ==
  \A p \in Procs : pc[p] = "ok" => Verified(at[p]) /\ Matches(at[p])

\* What a process publishes is never replaced or withdrawn by another one, not
\* even where it found it damaged ("Never invalidate a shared path in place").
PublishedForGood ==
  [][ Damage \/ \A d \in Dirs :
        /\ sources[d] # Absent => sources'[d] = sources[d]
        /\ binary[d] # Absent => binary'[d] = binary[d]
        /\ receipt[d] # Absent => receipt'[d] = receipt[d] ]_vars

\* Where processes do nothing worse than be killed, a process is refused the sidecar
\* for one of two reasons only: a binary that one of them left behind without its
\* receipt, or a staging file that another one removed while it walked the directory it
\* had just published, or lost the race for.  No other race or crash costs an answer.
RefusedForCause ==
  \A p \in Procs : pc[p] = "err" =>
    \/ /\ binary[at[p]] \in Procs /\ receipt[at[p]] = Absent
       /\ pc[binary[at[p]]] = "dead"
    \/ p \in tripped

\* Every process that begins gets an answer: no lock is held for ever.
EveryoneAnswered == \A p \in Procs : pc[p] = "verify" ~> pc[p] \in {"ok", "err", "dead"}

\* A build is on the shelf of a directory once it lies beside complete sources and
\* its own receipt.
Kept(d) == IF Verified(d) /\ Matches(d) THEN binary[d] ELSE Absent

Shelf == INSTANCE WriteOnce WITH
  Shelves <- Dirs, Callers <- Procs, Builds <- Procs, Nothing <- Absent,
  shelf  <- [d \in Dirs |-> Kept(d)],
  answer <- [p \in Procs |->
               IF pc[p] = "ok" THEN [shelf |-> at[p], build |-> Kept(at[p])] ELSE Absent]

\* Unless it is damaged the cache is a shelf that is filled once: all the renames,
\* hard links, looks and locks come down to one moment at which a directory gets its
\* sidecar, and every process that is answered from it has that very build.
FilledOnce == Shelf!Spec

=============================================================================
