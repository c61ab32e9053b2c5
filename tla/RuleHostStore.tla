--------------------------- MODULE RuleHostStore ---------------------------
(***************************************************************************)
(* How `polint check` obtains the compiled rule host of a checkout:        *)
(* crates/polint/src/cache/rules_store.rs (the machine-global store, the   *)
(* target-directory stamp and lease, restore and record) and the caller in *)
(* crates/polint/src/cli/mod.rs (run_local_rule_host_kind and the cargo    *)
(* fallback).  Several polint processes work in several checkouts that     *)
(* share one store; sources and lockfiles are edited under them, they may  *)
(* be killed between any two steps, and the store may be damaged.          *)
(*                                                                         *)
(* A binary is the record [src, lock, at] of what it was compiled from and *)
(* where (cargo's output is not byte-reproducible across directories).  A  *)
(* SHA-256 digest is the binary itself, i.e. hashing is injective.  One    *)
(* source version stands for all of the inputs the authored digest covers. *)
(***************************************************************************)
EXTENDS Naturals, FiniteSets

CONSTANTS
  Procs,         \* polint processes
  Checkouts,     \* working trees, each with its own cargo target directory
  Sources,       \* versions of the authored inputs (sources, manifests, flags)
  LockFiles,     \* contents of a Cargo.lock
  Shareable,     \* the source versions whose inputs are the same from every checkout
  None,          \* an absent file
  Garbage,       \* bytes that are no binary any build produced
  Interference,  \* how the inputs may change under a session that holds the target lease
  Faults,        \* the I/O failures and damage a run has to survive
  MaxStarts,     \* bound: sessions started
  MaxEdits       \* bound: edits of sources and lockfiles, damage and crashes

Interferences ==
  { "edit",      \* the sources change while a session is under way
    "revert",    \* ... and change back to the version the session planned from
    "relock" }   \* someone who is no cargo rewrites the lockfile

FaultKinds ==
  { "io",        \* creating, copying or renaming a file fails
    "damage",    \* a blob or an entry is corrupted, or the store is deleted
    "crash" }    \* a polint process is killed

ASSUME ConstantsAssumption ==
  /\ Shareable \subseteq Sources
  /\ Interference \subseteq Interferences
  /\ Faults \subseteq FaultKinds
  /\ None \notin LockFiles
  /\ MaxStarts \in Nat
  /\ MaxEdits \in Nat

-----------------------------------------------------------------------------

Fingerprint == [src : Sources, lock : LockFiles \union {None}]
Binary      == [src : Sources, lock : LockFiles, at : Checkouts]

ASSUME SentinelAssumption ==
  /\ None \notin Fingerprint /\ None \notin Binary
  /\ Garbage \notin Binary   /\ Garbage # None
  /\ None \notin Checkouts   /\ None \notin Procs

\* HostStamp and StoreEntry.  An entry of another polint version, or one that
\* does not parse, is Garbage.
Stamp == [fp : Fingerprint, hash : Binary \union {Garbage}]
Entry == [key : Fingerprint, hash : Binary \union {Garbage}]

VARIABLES
  src,       \* src[c]: the authored inputs in checkout c
  lock,      \* lock[c]: its Cargo.lock
  bin,       \* bin[c]: the binary in its cargo target directory
  stamp,     \* stamp[c]: polint-store-stamp.json
  lease,     \* lease[c]: the process holding polint-store.lock
  cargo,     \* cargo[c]: the process whose cargo holds the build-directory lock
  entry,     \* entry[f]: the store's rule-hosts/<f>.json
  blob,      \* blob[h]: the content of the store's blobs/<h>
  pc,        \* pc[p]: the step process p is at
  co,        \* co[p]: the checkout it works in
  sharing,   \* sharing[p]: RuleHostStore::from_env() is Some
  fp,        \* fp[p]: plan.fingerprint, and `after` once the build is bracketed
  hash,      \* hash[p]: the digest its entry records
  snap,      \* snap[p]: what its cargo compiles
  starts,    \* sessions started so far
  edits,     \* environment steps so far
  crossed,   \* history: the sessions under whose lease someone else changed the
             \* binary or the lockfile, since their own build if they have built
  dubious    \* history: what crossed sessions recorded

tree  == <<src, lock>>
store == <<entry, blob>>
disk  == <<src, lock, bin, stamp, entry, blob>>
memo  == <<co, sharing, fp, hash, snap>>
count == <<starts, edits>>
past  == <<crossed, dubious>>
vars  == <<src, lock, bin, stamp, lease, cargo, entry, blob,
           pc, co, sharing, fp, hash, snap, starts, edits, crossed, dubious>>

\* The steps of run_local_rule_host_kind taken while the plan, and with it the
\* target lease, is alive; and the `cargo run` that is taken without it.
LeasedSteps ==
  {"planned", "exec_stamp", "choose", "restore", "copy", "remove_blob", "discard",
   "persist", "restamp", "exec_restored", "build", "compiling", "built", "hash",
   "stamp_built", "publish_blob", "publish_entry", "exec_built"}
UnleasedSteps == {"cargo_run", "cargo_compiling"}
Steps == {"idle", "locking"} \union LeasedSteps \union UnleasedSteps

TypeOK ==
  /\ src   \in [Checkouts -> Sources]
  /\ lock  \in [Checkouts -> LockFiles \union {None}]
  /\ bin   \in [Checkouts -> Binary \union {Garbage, None}]
  /\ stamp \in [Checkouts -> Stamp \union {None}]
  /\ lease \in [Checkouts -> Procs \union {None}]
  /\ cargo \in [Checkouts -> Procs \union {None}]
  /\ entry \in [Fingerprint -> Entry \union {Garbage, None}]
  /\ blob  \in [Binary \union {Garbage} -> Binary \union {Garbage, None}]
  /\ pc    \in [Procs -> Steps]
  /\ co    \in [Procs -> Checkouts \union {None}]
  /\ sharing \in [Procs -> BOOLEAN]
  /\ fp    \in [Procs -> Fingerprint \union {None}]
  /\ hash  \in [Procs -> Binary \union {Garbage, None}]
  /\ snap  \in [Procs -> Binary \union {None}]
  /\ starts \in 0..MaxStarts
  /\ edits  \in 0..MaxEdits
  /\ crossed \subseteq Procs
  /\ dubious \subseteq Stamp

Init ==
  /\ src   \in [Checkouts -> Sources]
  /\ lock  \in [Checkouts -> LockFiles \union {None}]
  /\ bin   = [c \in Checkouts |-> None]
  /\ stamp = [c \in Checkouts |-> None]
  /\ lease = [c \in Checkouts |-> None]
  /\ cargo = [c \in Checkouts |-> None]
  /\ entry = [f \in Fingerprint |-> None]
  /\ blob  = [h \in Binary \union {Garbage} |-> None]
  /\ pc    = [p \in Procs |-> "idle"]
  /\ co    = [p \in Procs |-> None]
  /\ sharing = [p \in Procs |-> FALSE]
  /\ fp    = [p \in Procs |-> None]
  /\ hash  = [p \in Procs |-> None]
  /\ snap  = [p \in Procs |-> None]
  /\ starts = 0
  /\ edits = 0
  /\ crossed = {}
  /\ dubious = {}

-----------------------------------------------------------------------------
\* Helpers.

Goto(p, from, to) ==
  /\ pc[p] = from
  /\ pc' = [pc EXCEPT ![p] = to]

\* The process ends, or is about to begin, and remembers nothing.
Exit(p) ==
  /\ pc' = [pc EXCEPT ![p] = "idle"]
  /\ co' = [co EXCEPT ![p] = None]
  /\ sharing' = [sharing EXCEPT ![p] = FALSE]
  /\ fp' = [fp EXCEPT ![p] = None]
  /\ hash' = [hash EXCEPT ![p] = None]
  /\ snap' = [snap EXCEPT ![p] = None]

\* build_fingerprint: the complete digest is over both fields, the authored
\* digest over src alone.
BuildFingerprint(c) == [src |-> src[c], lock |-> lock[c]]

\* The plan goes out of scope, and its TargetLock with it.
DropPlan(p) ==
  /\ lease' = [lease EXCEPT ![co[p]] = None]
  /\ crossed' = crossed \ {p}

\* History: a step of someone who does not hold c's lease, seen from the session
\* that does.
Crosses(c) ==
  crossed' = IF lease[c] # None /\ (bin'[c] # bin[c] \/ lock'[c] # lock[c])
             THEN crossed \union {lease[c]} ELSE crossed

\* History: session p writes down that its digest answers its fingerprint.
Records(p) ==
  dubious' = IF p \in crossed THEN dubious \union {[fp |-> fp[p], hash |-> hash[p]]}
             ELSE dubious

\* The direct path is given up: the plan is dropped and the combined
\* `cargo run` is next.
FallThrough(p, from) ==
  /\ Goto(p, from, "cargo_run")
  /\ DropPlan(p)

-----------------------------------------------------------------------------
\* Planning.

\* A run begins in checkout c.  With neither a store nor a stamp there is nothing
\* to plan for; `inspect` and the rule unit tests never plan.
Start(p, c, on) ==
  /\ pc[p] = "idle"
  /\ starts < MaxStarts
  /\ starts' = starts + 1
  /\ \/ /\ on \/ stamp[c] # None
        /\ pc' = [pc EXCEPT ![p] = "locking"]
     \/ pc' = [pc EXCEPT ![p] = "cargo_run"]
  /\ co' = [co EXCEPT ![p] = c]
  /\ sharing' = [sharing EXCEPT ![p] = on]
  /\ UNCHANGED <<disk, lease, cargo, fp, hash, snap, edits, past>>

\* Mutant of Plan: the lease is not waited for.
PlanUnserialized(p) ==
  /\ Goto(p, "locking", "planned")
  /\ lease' = [lease EXCEPT ![co[p]] = p]
  /\ fp' = [fp EXCEPT ![p] = BuildFingerprint(co[p])]
  /\ UNCHANGED <<disk, cargo, co, sharing, hash, snap, count, past>>

\* local_rule_host_plan: take the lease (blocking), then name the inputs.
Plan(p) ==
  /\ Goto(p, "locking", "planned")
  /\ lease[co[p]] = None
  /\ lease' = [lease EXCEPT ![co[p]] = p]
  /\ fp' = [fp EXCEPT ![p] = BuildFingerprint(co[p])]
  /\ UNCHANGED <<disk, cargo, co, sharing, hash, snap, count, past>>

\* The lease cannot be taken, the toolchain not resolved or an input not read:
\* a miss, never an error.
PlanFails(p) ==
  /\ Goto(p, "locking", "cargo_run")
  /\ UNCHANGED <<disk, lease, cargo, memo, count, past>>

-----------------------------------------------------------------------------
\* The stamp of this checkout.

\* Mutant of StampMatches: the binary is there, and is not hashed again.
StampTrusted(c, f) ==
  /\ stamp[c] # None
  /\ stamp[c].fp = f
  /\ bin[c] # None

\* binary_recorded_by_stamp: same fingerprint, and the bytes on disk re-hash to
\* the recorded digest.
StampMatches(c, f) ==
  /\ stamp[c] # None
  /\ stamp[c].fp = f
  /\ bin[c] = stamp[c].hash

CheckStamp(p) ==
  /\ \/ Goto(p, "planned", "exec_stamp") /\ StampMatches(co[p], fp[p])
     \/ Goto(p, "planned", "choose") /\ ~StampMatches(co[p], fp[p])
  /\ UNCHANGED <<disk, lease, cargo, memo, count, past>>

\* Mutant of StoreApplies: the manifests are not looked at.
StoreIsOn(p) == sharing[p]

\* The store is consulted only when it is on and the manifests, read now, prove
\* that these inputs are the same from every checkout.
StoreApplies(p) == sharing[p] /\ src[co[p]] \in Shareable

ChooseStore(p) ==
  /\ \/ Goto(p, "choose", "restore") /\ StoreApplies(p) /\ UNCHANGED <<lease, crossed>>
     \/ FallThrough(p, "choose") /\ ~StoreApplies(p)
  /\ UNCHANGED <<disk, cargo, memo, count, dubious>>

-----------------------------------------------------------------------------
\* restore: another checkout's build.

\* The entry parses, is of this schema and polint version, and records the very
\* key it is filed under.
EntryUsable(e, f) == e \notin {None, Garbage} /\ e.key = f

\* Mutant of ReadEntry: the blob is looked for under the entry's key.
ReadEntryByKey(p) ==
  LET e == entry[fp[p]] IN
  /\ \/ Goto(p, "restore", "build") /\ e = None /\ UNCHANGED hash
     \/ Goto(p, "restore", "discard") /\ e # None /\ ~EntryUsable(e, fp[p]) /\ UNCHANGED hash
     \/ /\ Goto(p, "restore", "copy")
        /\ EntryUsable(e, fp[p])
        /\ hash' = [hash EXCEPT ![p] = e.key]
  /\ UNCHANGED <<disk, lease, cargo, co, sharing, fp, snap, count, past>>

\* An absent entry, or one that cannot be read, is a miss; an unusable one is
\* discarded.
ReadEntry(p) ==
  LET e == entry[fp[p]] IN
  /\ \/ Goto(p, "restore", "build") /\ ("io" \in Faults \/ e = None) /\ UNCHANGED hash
     \/ Goto(p, "restore", "discard") /\ e # None /\ ~EntryUsable(e, fp[p]) /\ UNCHANGED hash
     \/ /\ Goto(p, "restore", "copy")
        /\ EntryUsable(e, fp[p])
        /\ hash' = [hash EXCEPT ![p] = e.hash]
  /\ UNCHANGED <<disk, lease, cargo, co, sharing, fp, snap, count, past>>

\* The blob is copied beside the destination and the copy re-hashed.  A copy
\* that fails is treated like one that does not match; where there is no room
\* for the temporary file, restore gives up before it reads the blob.
CopyBlob(p) ==
  /\ \/ Goto(p, "copy", "persist") /\ blob[hash[p]] = hash[p]
     \/ Goto(p, "copy", "remove_blob") /\ ("io" \in Faults \/ blob[hash[p]] # hash[p])
     \/ Goto(p, "copy", "build") /\ "io" \in Faults
  /\ UNCHANGED <<disk, lease, cargo, memo, count, past>>

RemoveBlob(p) ==
  /\ Goto(p, "remove_blob", "discard")
  /\ blob' = [blob EXCEPT ![hash[p]] = None]
  /\ UNCHANGED <<tree, bin, stamp, entry, lease, cargo, memo, count, past>>

\* store.discard: whatever is at the key's path by now.
DiscardEntry(p) ==
  /\ Goto(p, "discard", "build")
  /\ entry' = [entry EXCEPT ![fp[p]] = None]
  /\ UNCHANGED <<tree, bin, stamp, blob, lease, cargo, memo, count, past>>

\* The verified copy is renamed over the destination, or that fails.
Persist(p) ==
  /\ \/ Goto(p, "persist", "restamp") /\ bin' = [bin EXCEPT ![co[p]] = hash[p]]
     \/ Goto(p, "persist", "build") /\ "io" \in Faults /\ UNCHANGED bin
  /\ UNCHANGED <<tree, stamp, store, lease, cargo, memo, count, past>>

\* write_stamp, best effort.
WriteStamp(p) ==
  /\ \/ stamp' = [stamp EXCEPT ![co[p]] = [fp |-> fp[p], hash |-> hash[p]]]
     \/ "io" \in Faults /\ UNCHANGED stamp
  /\ UNCHANGED <<tree, bin, store, lease, cargo, memo, count, crossed>>

StampRestored(p) ==
  /\ Goto(p, "restamp", "exec_restored")
  /\ WriteStamp(p)
  /\ UNCHANGED dubious

-----------------------------------------------------------------------------
\* cargo (external).  A build takes cargo's own lock on the target directory,
\* reads the inputs, creates the lockfile or brings it up to date, and compiles;
\* when it ends it leaves the binary at its place, also when nothing had to be
\* compiled.

CargoReads(p) ==
  LET c == co[p] IN
  /\ cargo[c] = None
  /\ cargo' = [cargo EXCEPT ![c] = p]
  /\ \E l \in LockFiles :
       /\ lock' = [lock EXCEPT ![c] = l]
       /\ snap' = [snap EXCEPT ![p] = [src |-> src[c], lock |-> l, at |-> c]]
  /\ UNCHANGED <<src, bin, stamp, store, lease, co, sharing, fp, hash, count, dubious>>

CargoStops(p) == cargo' = [cargo EXCEPT ![co[p]] = None]

CargoWrites(p) ==
  /\ bin' = [bin EXCEPT ![co[p]] = snap[p]]
  /\ CargoStops(p)

\* build_local_rule_host_binary.
BuildStarts(p) ==
  /\ Goto(p, "build", "compiling")
  /\ CargoReads(p)
  /\ UNCHANGED crossed

BuildEnds(p) ==
  /\ Goto(p, "compiling", "built")
  /\ CargoWrites(p)
  /\ crossed' = crossed \ {p}
  /\ UNCHANGED <<tree, stamp, store, lease, memo, count, dubious>>

\* A compile error, or output that names no single binary.
BuildFails(p) ==
  /\ FallThrough(p, "compiling")
  /\ CargoWrites(p) \/ (CargoStops(p) /\ UNCHANGED bin)
  /\ UNCHANGED <<tree, stamp, store, memo, count, dubious>>

-----------------------------------------------------------------------------
\* record_built_rule_host and record.

\* Mutant of Bracket: the authored digests are not compared.
BracketUnchecked(p) ==
  /\ Goto(p, "built", "hash")
  /\ fp' = [fp EXCEPT ![p] = BuildFingerprint(co[p])]
  /\ UNCHANGED <<disk, lease, cargo, co, sharing, hash, snap, count, past>>

\* The fingerprint is taken again; the host is recorded under the new complete
\* digest, and only if the authored digest is the one that was planned.  An
\* input that can no longer be read leaves the host unrecorded.
Bracket(p) ==
  LET after == BuildFingerprint(co[p]) IN
  /\ \/ /\ Goto(p, "built", "hash")
        /\ after.src = fp[p].src
        /\ fp' = [fp EXCEPT ![p] = after]
     \/ /\ Goto(p, "built", "exec_built")
        /\ "io" \in Faults \/ after.src # fp[p].src
        /\ UNCHANGED fp
  /\ UNCHANGED <<disk, lease, cargo, co, sharing, hash, snap, count, past>>

\* file_identity(binary).
HashBinary(p) ==
  /\ \/ /\ Goto(p, "hash", "stamp_built")
        /\ bin[co[p]] # None
        /\ hash' = [hash EXCEPT ![p] = bin[co[p]]]
     \/ Goto(p, "hash", "exec_built") /\ "io" \in Faults /\ UNCHANGED hash
  /\ UNCHANGED <<disk, lease, cargo, co, sharing, fp, snap, count, past>>

\* Mutant of StampBuilt: the entry is published ahead of its blob.
StampBuiltEntryFirst(p) ==
  /\ Goto(p, "stamp_built", "publish_entry")
  /\ WriteStamp(p)
  /\ Records(p)

StampBuilt(p) ==
  /\ Goto(p, "stamp_built", "publish_blob")
  /\ WriteStamp(p)
  /\ Records(p)

\* publish_blob: a blob already there is left alone; otherwise the binary, as it
\* is by now, is copied and persisted without clobbering.
PublishBlob(p) ==
  /\ \/ /\ Goto(p, "publish_blob", "publish_entry")
        /\ blob' = [blob EXCEPT ![hash[p]] = IF @ = None THEN bin[co[p]] ELSE @]
     \/ Goto(p, "publish_blob", "exec_built") /\ "io" \in Faults /\ UNCHANGED blob
  /\ Records(p)
  /\ UNCHANGED <<tree, bin, stamp, entry, lease, cargo, memo, count, crossed>>

PublishEntry(p) ==
  /\ Goto(p, "publish_entry", "exec_built")
  /\ \/ entry' = [entry EXCEPT ![fp[p]] = [key |-> fp[p], hash |-> hash[p]]]
     \/ "io" \in Faults /\ UNCHANGED entry
  /\ Records(p)
  /\ UNCHANGED <<tree, bin, stamp, blob, lease, cargo, memo, count, crossed>>

-----------------------------------------------------------------------------
\* Executing the host.

\* Mutant of HostSucceeds: the lease outlives the plan.
HostSucceedsLeaking(p) ==
  /\ pc[p] \in {"exec_stamp", "exec_restored", "exec_built"}
  /\ Exit(p)
  /\ UNCHANGED <<disk, lease, cargo, count, past>>

\* run_local_rule_host_binary: the file at the binary's path is executed now.  A
\* zero exit ends the run and its plan; any other sends it down the next route.
HostSucceeds(p) ==
  /\ pc[p] \in {"exec_stamp", "exec_restored", "exec_built"}
  /\ Exit(p)
  /\ DropPlan(p)
  /\ UNCHANGED <<disk, cargo, count, dubious>>

HostFails(p) ==
  /\ \/ Goto(p, "exec_stamp", "choose") /\ UNCHANGED <<lease, crossed>>
     \/ Goto(p, "exec_restored", "build") /\ UNCHANGED <<lease, crossed>>
     \/ FallThrough(p, "exec_built")
  /\ UNCHANGED <<disk, cargo, memo, count, dubious>>

\* run_local_rule_host_through_cargo (and inspect, and the unit tests): one cargo
\* invocation that builds and runs, with no lease: it may come at any moment of
\* the session that holds it.
CargoRunStarts(p) ==
  /\ Goto(p, "cargo_run", "cargo_compiling")
  /\ CargoReads(p)
  /\ Crosses(co[p])

CargoRunEnds(p) ==
  /\ pc[p] = "cargo_compiling"
  /\ Exit(p)
  /\ CargoWrites(p) \/ (CargoStops(p) /\ UNCHANGED bin)
  /\ UNCHANGED <<tree, stamp, store, lease, count, dubious>>
  /\ Crosses(co[p])

-----------------------------------------------------------------------------
\* The environment.

Budget == edits < MaxEdits /\ edits' = edits + 1

EditSource(c, s) ==
  /\ Budget
  /\ s # src[c]
  /\ "edit" \in Interference \/ lease[c] = None
  /\ \/ "revert" \in Interference
     \/ \A p \in Procs : pc[p] \in LeasedSteps /\ co[p] = c => fp[p].src # s
  /\ src' = [src EXCEPT ![c] = s]
  /\ UNCHANGED <<lock, bin, stamp, store, lease, cargo, pc, memo, starts, past>>

EditLock(c, l) ==
  /\ Budget
  /\ l # lock[c]
  /\ "relock" \in Interference \/ lease[c] = None
  /\ lock' = [lock EXCEPT ![c] = l]
  /\ UNCHANGED <<src, bin, stamp, store, lease, cargo, pc, memo, starts, past>>

\* The binary in the target directory is truncated or replaced.
SpoilBinary(c) ==
  /\ Budget
  /\ "damage" \in Faults
  /\ bin[c] \notin {None, Garbage}
  /\ bin' = [bin EXCEPT ![c] = Garbage]
  /\ UNCHANGED <<tree, stamp, store, lease, cargo, pc, memo, starts, dubious>>
  /\ Crosses(c)

\* A blob is corrupted; an entry is truncated, written by another polint version
\* or filed under another key; or the whole store is deleted.
SpoilStore ==
  /\ Budget
  /\ "damage" \in Faults
  /\ \/ \E h \in Binary :
          /\ blob[h] \notin {None, Garbage}
          /\ blob' = [blob EXCEPT ![h] = Garbage]
          /\ UNCHANGED entry
     \/ \E f \in Fingerprint :
          /\ \E e \in {Garbage} \union {entry[g] : g \in Fingerprint} :
               e # entry[f] /\ entry' = [entry EXCEPT ![f] = e]
          /\ UNCHANGED blob
     \/ /\ \E f \in Fingerprint : entry[f] # None
        /\ entry' = [f \in Fingerprint |-> None]
        /\ blob' = [h \in Binary \union {Garbage} |-> None]
  /\ UNCHANGED <<tree, bin, stamp, lease, cargo, pc, memo, starts, past>>

\* A polint process is killed: its lease is released with its files.  Its cargo
\* dies with it, or is left behind and finishes without the lease.
Crash(p) ==
  /\ Budget
  /\ "crash" \in Faults
  /\ pc[p] # "idle"
  /\ lease' = [d \in Checkouts |-> IF lease[d] = p THEN None ELSE lease[d]]
  /\ \/ /\ Exit(p)
        /\ cargo' = [d \in Checkouts |-> IF cargo[d] = p THEN None ELSE cargo[d]]
     \/ Goto(p, "compiling", "cargo_compiling") /\ UNCHANGED <<cargo, memo>>
  /\ crossed' = crossed \ {p}
  /\ UNCHANGED <<disk, starts, dubious>>

-----------------------------------------------------------------------------

\* What a polint process does next by itself.  That a plan fails is possible,
\* never certain.
Progress(p) ==
  \/ Plan(p)
  \/ CheckStamp(p) \/ ChooseStore(p)
  \/ ReadEntry(p) \/ CopyBlob(p) \/ RemoveBlob(p) \/ DiscardEntry(p)
  \/ Persist(p) \/ StampRestored(p)
  \/ BuildStarts(p) \/ BuildEnds(p) \/ BuildFails(p)
  \/ Bracket(p) \/ HashBinary(p) \/ StampBuilt(p)
  \/ PublishBlob(p) \/ PublishEntry(p)
  \/ HostSucceeds(p) \/ HostFails(p)
  \/ CargoRunStarts(p) \/ CargoRunEnds(p)

PolintStep(p) == Progress(p) \/ PlanFails(p)

Environment ==
  \/ \E c \in Checkouts, s \in Sources : EditSource(c, s)
  \/ \E c \in Checkouts, l \in LockFiles \union {None} : EditLock(c, l)
  \/ \E c \in Checkouts : SpoilBinary(c)
  \/ SpoilStore
  \/ \E p \in Procs : Crash(p)

Next ==
  \/ \E p \in Procs, c \in Checkouts, on \in BOOLEAN : Start(p, c, on)
  \/ \E p \in Procs : PolintStep(p)
  \/ Environment

Spec == Init /\ [][Next]_vars

\* A process is scheduled, cargo and the host it runs end, and whoever waits for a
\* lock that is free gets it.
FairSpec == Spec /\ \A p \in Procs : WF_vars(Progress(p))

-----------------------------------------------------------------------------
\* What makes the store correct.

\* Binary b is what a build of the inputs named f in checkout c produces.  Inputs
\* that are not the same from every checkout can only be built in place.
AnswersFor(b, f, c) ==
  /\ b \in Binary
  /\ b.src = f.src
  /\ b.lock = f.lock
  /\ f.src \in Shareable \/ b.at = c

\* A host executed on the strength of a stamp or of a restore is the host that
\* compiling the fingerprinted inputs in this checkout would give: what
\* run_local_rule_host_kind promises ("Which one answered changes nothing about
\* what the host reports"), at the moment the binary is executed.  Polint's own
\* `cargo run` takes no lease, so a session is answered for only while nobody
\* changed the binary or the lockfile under it, and by what such sessions recorded.
ExecutesNamedInputs ==
  \A p \in Procs :
    /\ pc[p] \in {"exec_stamp", "exec_restored"}
    /\ p \notin crossed
    /\ [fp |-> fp[p], hash |-> bin[co[p]]] \notin dubious
    => AnswersFor(bin[co[p]], fp[p], co[p])

\* The same without the excuse: whatever else polint runs in the checkout.  The
\* lease does not cover `cargo run`, so the code does not give this.
ExecutesVerified ==
  \A p \in Procs : pc[p] \in {"exec_stamp", "exec_restored"} =>
    AnswersFor(bin[co[p]], fp[p], co[p])

\* A host executed after a build is the one this run's cargo compiled, also when
\* the sources changed meanwhile and it was not recorded, unless a cargo without
\* the lease replaced it after the build.
ExecutesOwnBuild ==
  \A p \in Procs : pc[p] = "exec_built" /\ p \notin crossed => bin[co[p]] = snap[p]

\* Every entry of the store is written under the key that names the complete
\* inputs of the build that produced its binary, and only for inputs every
\* checkout shares (the module documentation of rules_store.rs).  Only a session
\* crossed between its build and its record can write one for other bytes.
EntriesTruthful ==
  \A f \in Fingerprint : entry[f] \notin {None, Garbage} =>
    /\ entry[f].key.src \in Shareable
    /\ \/ \A c \in Checkouts : AnswersFor(entry[f].hash, entry[f].key, c)
       \/ [fp |-> entry[f].key, hash |-> entry[f].hash] \in dubious

\* Every stamp names a binary that answers its fingerprint in its checkout, with
\* the same exception.
StampsTruthful ==
  \A c \in Checkouts : stamp[c] # None =>
    AnswersFor(stamp[c].hash, stamp[c].fp, c) \/ stamp[c] \in dubious

\* While nothing damages the store and no copy fails, every entry can be
\* restored at every moment, whoever publishes, restores or is killed: the blob
\* is written before the entry that names it and is never taken away.  Only a
\* session crossed after it hashed its binary may publish other bytes.
EntriesRestorable ==
  \A f \in Fingerprint : entry[f] \notin {None, Garbage} =>
    \/ blob[entry[f].hash] = entry[f].hash
    \/ \E d \in dubious : d.hash = entry[f].hash

\* Every run ends: nobody waits forever for the target lease or for cargo's lock.
EveryRunEnds ==
  \A p \in Procs : pc[p] # "idle" ~> pc[p] = "idle"

=============================================================================
