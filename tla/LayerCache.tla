----------------------------- MODULE LayerCache -----------------------------
(***************************************************************************)
(* The layer cache, analysis_kernel/incremental/layer_cache.rs, as the     *)
(* symbol graph uses it (derive_requested_symbols_with_cache_stats,        *)
(* symbol_graph/mod.rs).  A run takes a snapshot of the sources, looks for *)
(* the layer derived from them, and derives and stores it when there is    *)
(* none.  An entry is two files: a blob named after the digest of its      *)
(* content and a manifest named after the layer's key.  Several processes  *)
(* share the directory, without a lock.                                    *)
(*                                                                         *)
(* A digest is what it is taken of.  A key stands for the version of the   *)
(* sources and for what the plan of the run asks of them (its selection);  *)
(* the other parts of a key act as one more source.  The keys of the model *)
(* are those of one layer, so they share their identity                    *)
(* (layer_keys_share_identity).                                            *)
(***************************************************************************)
EXTENDS Naturals, FiniteSets

CONSTANTS
  Procs,         \* polint processes in one checkout
  Versions,      \* versions of the sources
  Plans,         \* what a run may ask of the sources
  FactSets,      \* what can be derived from a version
  Facts,         \* Facts[v]: what is derived from v; two versions may agree
  Missing,       \* no such file
  Garbage,       \* content that does not parse or has another digest
  SetupMissing,  \* the answer of a run whose sidecar could not load the sources
  None,          \* no answer yet
  Edits,         \* when the sources may change, of EditKinds
  Faults,        \* what else may happen, of FaultKinds
  MaxFaults      \* how many of them may happen

EditKinds ==
  { "between",  \* while no run relies on its snapshot
    "during" }  \* at any moment

FaultKinds ==
  { "crash",    \* a process is killed
    "damage",   \* a manifest or a blob is overwritten, or restored to a wrong name
    "prune",    \* `polint cache prune` or `clean` removes a file
    "io",       \* reading or writing a file fails
    "stat",     \* asking for a file's metadata or its canonical path fails
    "setup" }   \* the sidecar cannot load the sources

ASSUME LayerAssumption ==
  /\ Facts \in [Versions -> FactSets]
  /\ Edits \subseteq EditKinds
  /\ Faults \subseteq FaultKinds
  /\ MaxFaults \in Nat

VARIABLES
  disk,      \* the version of the sources in the checkout
  manifest,  \* manifest[k]: the manifest file named after key k
  blob,      \* blob[d]: the blob file named after digest d
  pc,        \* pc[p]: the step process p is at
  key,       \* key[p]: its layer key, of its snapshot and its plan
  todo,      \* todo[p]: the manifests its scan still has to look at
  held,      \* held[p]: the manifest it has read
  payload,   \* payload[p]: the payload it derived or read
  hit,       \* hit[p]: its answer comes from the cache
  harm       \* the faults other than crashes that have struck, each once

files == <<manifest, blob>>
local == <<key, todo, held, payload, hit>>
vars  == <<disk, manifest, blob, pc, key, todo, held, payload, hit, harm>>

\* symbol_graph_layer_key
Keys == [src : Versions, plan : Plans]

\* The payload of a run with key k whose sidecar read version w: symbols are
\* derived from the database and, for Go, from what the sidecar finds on the disk.
Payload(k, w) == [plan |-> k.plan, db |-> Facts[k.src], go |-> Facts[w]]
Payloads      == [plan : Plans, db : FactSets, go : FactSets]

\* symbol_graph_output_digest
OutputDigest(k, d) == [key |-> k, payload |-> d]
OutputDigests      == [key : Keys, payload : Payloads]

Manifest(k, d) == [key |-> k, payload |-> d, output |-> OutputDigest(k, d)]
Manifests      == [key : Keys, payload : Payloads, output : OutputDigests]

Steps ==
  {"idle", "look", "list", "scan", "read", "open", "check", "evict", "evict_both",
   "evict_blob", "derive", "bypass", "write_blob", "write_manifest", "done"}

ASSUME FilesAssumption ==
  Missing # Garbage /\ {Missing, Garbage} \intersect (Manifests \union Payloads) = {}

TypeOK ==
  /\ disk \in Versions
  /\ manifest \in [Keys -> Manifests \union {Missing, Garbage}]
  /\ blob \in [Payloads -> Payloads \union {Missing, Garbage}]
  /\ pc \in [Procs -> Steps]
  /\ key \in [Procs -> Keys]
  /\ todo \in [Procs -> SUBSET Keys]
  /\ held \in [Procs -> Manifests \union {None}]
  /\ payload \in [Procs -> Payloads \union {SetupMissing, None}]
  /\ hit \in [Procs -> BOOLEAN]
  /\ harm \subseteq Faults

Init ==
  /\ disk \in Versions
  /\ manifest = [k \in Keys |-> Missing]
  /\ blob = [d \in Payloads |-> Missing]
  /\ pc = [p \in Procs |-> "idle"]
  /\ \E plan \in Plans : key = [p \in Procs |-> [src |-> disk, plan |-> plan]]
  /\ todo = [p \in Procs |-> {}]
  /\ held = [p \in Procs |-> None]
  /\ payload = [p \in Procs |-> None]
  /\ hit = [p \in Procs |-> FALSE]
  /\ harm = {}

At(p, step) == pc[p] = step
Goto(p, step) == pc' = [pc EXCEPT ![p] = step]

\* A fault other than a crash strikes, as each kind does at most once, and
\* MaxFaults of them in all.
Strikes(fault) ==
  /\ fault \in Faults \ harm
  /\ Cardinality(harm) < MaxFaults
  /\ harm' = harm \union {fault}

Evict(k) == manifest' = [manifest EXCEPT ![k] = Missing]

-----------------------------------------------------------------------------
(* Reading: read_payload_bytes_validated *)

\* The run loads the sources and computes the key of the layer; a run with the
\* cache disabled goes past it.
Start(p) ==
  /\ At(p, "idle")
  /\ \E plan \in Plans : key' = [key EXCEPT ![p] = [src |-> disk, plan |-> plan]]
  /\ \E step \in {"look", "bypass"} : Goto(p, step)
  /\ UNCHANGED <<disk, files, todo, held, payload, hit, harm>>

Look(p) ==
  /\ At(p, "look")
  /\ Goto(p, IF manifest[key[p]] = Missing THEN "list" ELSE "read")
  /\ UNCHANGED <<disk, files, local, harm>>

\* evict_stale_manifests_for_key lists the directory; a file that is created
\* while it is being listed may or may not be seen.
List(p) ==
  /\ At(p, "list")
  /\ \E seen \in SUBSET Keys :
       /\ {k \in Keys : manifest[k] # Missing} \subseteq seen
       /\ todo' = [todo EXCEPT ![p] = seen]
  /\ Goto(p, "scan")
  /\ UNCHANGED <<disk, files, key, held, payload, hit, harm>>

\* invalidation_allows_manifest_reuse.  The plan compares the parts of two keys and
\* ignores a part that differs only where the manifest's edges to it have the shape
\* of rule code or rule options; the edges of a symbol graph never have
\* (symbol_graph_layer_dependency_edges), so nothing of another key is spared.
AllowsReuse(m, k) == m.key = k

\* One manifest of the scan; one that cannot be read or parsed is left alone.  The
\* file is read and then removed: another run that replaces it in between writes a
\* manifest of the same key, which would be removed as well, so this is one step.
Scan(p) ==
  /\ At(p, "scan")
  /\ \E k \in todo[p] :
       /\ todo' = [todo EXCEPT ![p] = @ \ {k}]
       /\ IF manifest[k] \in Manifests /\ ~AllowsReuse(manifest[k], key[p])
          THEN Evict(k)
          ELSE UNCHANGED manifest
  /\ UNCHANGED <<disk, blob, pc, key, held, payload, hit, harm>>

ScanEnds(p) ==
  /\ At(p, "scan") /\ todo[p] = {}
  /\ Goto(p, "derive")
  /\ UNCHANGED <<disk, files, local, harm>>

\* Mutant of Supported: the key in the manifest is not compared.
SupportedAnyKey(m, k) == m \in Manifests

\* manifest_metadata_is_supported
Supported(m, k) == m \in Manifests /\ m.key = k

\* The manifest is read and parsed, and evicted when it is unparsable or another
\* layer's.  One that is gone by now is a miss; when it went after the check that
\* it is a managed file, the failed read evicts it again, whatever is there then.
ReadManifest(p) ==
  /\ At(p, "read")
  /\ \/ /\ Supported(manifest[key[p]], key[p])
        /\ held' = [held EXCEPT ![p] = manifest[key[p]]]
        /\ Goto(p, "open")
     \/ /\ ~Supported(manifest[key[p]], key[p])
        /\ Goto(p, "evict") \/ (manifest[key[p]] = Missing /\ Goto(p, "derive"))
        /\ UNCHANGED held
  /\ UNCHANGED <<disk, files, key, todo, payload, hit, harm>>

\* A file that cannot be read costs the manifest.
ReadFails(p) ==
  /\ At(p, "read") \/ At(p, "open")
  /\ Strikes("io")
  /\ Goto(p, "evict")
  /\ UNCHANGED <<disk, files, local>>

\* managed_existing_file: a manifest whose metadata cannot be had is a miss and stays; a
\* blob whose metadata cannot be had is evicted with the manifest, as a missing one is.
StatFails(p) ==
  /\ Strikes("stat")
  /\ \/ (At(p, "look") \/ At(p, "read")) /\ Goto(p, "derive")
     \/ At(p, "open") /\ Goto(p, "evict_both")
  /\ UNCHANGED <<disk, files, local>>

\* Mutant of ReadBlob: the digest of the content is not compared.
ReadBlobUnchecked(p) ==
  /\ At(p, "open")
  /\ payload' = [payload EXCEPT ![p] = blob[held[p].payload]]
  /\ Goto(p, "check")
  /\ UNCHANGED <<disk, files, key, todo, held, hit, harm>>

\* The blob is read: one that is missing or whose content has another digest is
\* evicted with the manifest, one that goes after the check that it is a managed
\* file costs the manifest only.
ReadBlob(p) ==
  /\ At(p, "open")
  /\ LET d == held[p].payload
     IN  \/ /\ blob[d] = d
            /\ payload' = [payload EXCEPT ![p] = d]
            /\ Goto(p, "check")
         \/ /\ blob[d] # d
            /\ Goto(p, "evict_both") \/ (blob[d] = Missing /\ Goto(p, "evict"))
            /\ UNCHANGED payload
  /\ UNCHANGED <<disk, files, key, todo, held, hit, harm>>

\* Mutant of Valid: the output digest is compared with the payload's own digest.
ValidPayloadOnly(m, d) == m.output = d

\* validate_symbol_graph_layer_payload
Valid(m, d) == m.output = OutputDigest(m.key, d)

Validate(p) ==
  /\ At(p, "check")
  /\ IF Valid(held[p], payload[p])
     THEN /\ hit' = [hit EXCEPT ![p] = TRUE]
          /\ Goto(p, "done")
     ELSE /\ Goto(p, "evict")
          /\ UNCHANGED hit
  /\ UNCHANGED <<disk, files, key, todo, held, payload, harm>>

\* evict_file of the manifest, whatever it holds by now
EvictManifest(p) ==
  /\ At(p, "evict") \/ At(p, "evict_both")
  /\ Evict(key[p])
  /\ Goto(p, IF At(p, "evict") THEN "derive" ELSE "evict_blob")
  /\ UNCHANGED <<disk, blob, local, harm>>

\* evict_file of the blob
EvictBlob(p) ==
  /\ At(p, "evict_blob")
  /\ blob' = [blob EXCEPT ![held[p].payload] = Missing]
  /\ Goto(p, "derive")
  /\ UNCHANGED <<disk, manifest, local, harm>>

-----------------------------------------------------------------------------
(* Deriving and writing *)

\* derive_requested_symbols_uncached_with_payload: the sidecar reads the sources
\* as they are now.
Derive(p) ==
  /\ At(p, "derive")
  /\ payload' = [payload EXCEPT ![p] = Payload(key[p], disk)]
  /\ Goto(p, "write_blob")
  /\ UNCHANGED <<disk, files, key, todo, held, hit, harm>>

DeriveBypassed(p) ==
  /\ At(p, "bypass")
  /\ payload' = [payload EXCEPT ![p] = Payload(key[p], disk)]
  /\ Goto(p, "done")
  /\ UNCHANGED <<disk, files, key, todo, held, hit, harm>>

\* The sidecar fails: the answer says that the setup is missing, and is not stored
\* (has_setup_missing_support).
SetupFails(p) ==
  /\ At(p, "derive") \/ At(p, "bypass")
  /\ Strikes("setup")
  /\ payload' = [payload EXCEPT ![p] = SetupMissing]
  /\ Goto(p, "done")
  /\ UNCHANGED <<disk, files, key, todo, held, hit>>

\* write_json_bytes_inner: the blob first ...
WriteBlob(p) ==
  /\ At(p, "write_blob")
  /\ blob' = [blob EXCEPT ![payload[p]] = payload[p]]
  /\ Goto(p, "write_manifest")
  /\ UNCHANGED <<disk, manifest, local, harm>>

\* ... and write_manifest_last
WriteManifest(p) ==
  /\ At(p, "write_manifest")
  /\ manifest' = [manifest EXCEPT ![key[p]] = Manifest(key[p], payload[p])]
  /\ Goto(p, "done")
  /\ UNCHANGED <<disk, blob, local, harm>>

\* Mutant of WriteFails: a blob that could not be written goes unnoticed.
WriteFailsUnnoticed(p) ==
  /\ At(p, "write_blob") \/ At(p, "write_manifest")
  /\ Strikes("io")
  /\ Goto(p, IF At(p, "write_blob") THEN "write_manifest" ELSE "done")
  /\ UNCHANGED <<disk, files, local>>

WriteFails(p) ==
  /\ At(p, "write_blob") \/ At(p, "write_manifest")
  /\ Strikes("io")
  /\ Goto(p, "done")
  /\ UNCHANGED <<disk, files, local>>

Reset(p) ==
  /\ Goto(p, "idle")
  /\ todo' = [todo EXCEPT ![p] = {}]
  /\ held' = [held EXCEPT ![p] = None]
  /\ payload' = [payload EXCEPT ![p] = None]
  /\ hit' = [hit EXCEPT ![p] = FALSE]

\* The answer has been used, and the process ends.
Finish(p) ==
  /\ At(p, "done")
  /\ Reset(p)
  /\ UNCHANGED <<disk, files, key, harm>>

-----------------------------------------------------------------------------
(* What happens around a run *)

\* A run relies on its snapshot until it has derived or found the layer.
Relies(p) == pc[p] \notin {"idle", "write_blob", "write_manifest", "done"}

Edit ==
  /\ "during" \in Edits \/ ("between" \in Edits /\ \A p \in Procs : ~Relies(p))
  /\ disk' \in Versions \ {disk}
  /\ UNCHANGED <<files, pc, local, harm>>

Crash(p) ==
  /\ "crash" \in Faults /\ ~At(p, "idle")
  /\ Reset(p)
  /\ UNCHANGED <<disk, files, key, harm>>

Damage ==
  /\ Strikes("damage")
  /\ \/ /\ \E k, l \in Keys :
             /\ manifest[k] # Missing /\ manifest[l] # Missing
             /\ manifest' = [manifest EXCEPT ![k] = IF k = l THEN Garbage ELSE manifest[l]]
        /\ UNCHANGED blob
     \/ /\ \E d \in Payloads : blob[d] # Missing /\ blob' = [blob EXCEPT ![d] = Garbage]
        /\ UNCHANGED manifest
  /\ UNCHANGED <<disk, pc, local>>

\* prune_category and clean remove files one by one; one removal is what matters,
\* since each property speaks of one entry.
Prune ==
  /\ Strikes("prune")
  /\ \/ \E k \in Keys : manifest[k] # Missing /\ Evict(k) /\ UNCHANGED blob
     \/ /\ \E d \in Payloads : blob[d] # Missing /\ blob' = [blob EXCEPT ![d] = Missing]
        /\ UNCHANGED manifest
  /\ UNCHANGED <<disk, pc, local>>

\* What a process does once its run has started.
Progress(p) ==
  \/ Look(p) \/ List(p) \/ Scan(p) \/ ScanEnds(p)
  \/ ReadManifest(p) \/ ReadBlob(p) \/ Validate(p)
  \/ EvictManifest(p) \/ EvictBlob(p)
  \/ Derive(p) \/ DeriveBypassed(p) \/ WriteBlob(p) \/ WriteManifest(p) \/ Finish(p)

Next ==
  \/ \E p \in Procs :
       \/ Start(p) \/ Progress(p)
       \/ ReadFails(p) \/ StatFails(p) \/ SetupFails(p) \/ WriteFails(p)
       \/ Crash(p)
  \/ Edit
  \/ Damage
  \/ Prune

Spec == Init /\ [][Next]_vars

FairSpec == Spec /\ \A p \in Procs : WF_vars(Progress(p))

-----------------------------------------------------------------------------
(* Properties *)

\* A layer that a run takes from the cache is the layer the run would have derived
\* from its snapshot, for every order of reads, writes, evictions, crashes and
\* damage: what is stored under a key was derived from the sources of that key,
\* and a failure of the environment is never replayed.
HitsTruthful ==
  \A p \in Procs : hit[p] => payload[p] = Payload(key[p], key[p].src)

\* As long as nothing but polint's runs touches the files, every manifest has its
\* blob beside it, also when a run was killed or failed between writing the two and
\* while others evict.  The one failure that costs more is that of a blob's metadata:
\* its reader evicts a sound blob, maybe under a manifest that was written meanwhile.
EntriesWhole ==
  harm \intersect {"damage", "prune", "stat"} = {} =>
    \A k \in Keys :
      manifest[k] # Missing =>
        /\ manifest[k] \in Manifests
        /\ blob[manifest[k].payload] = manifest[k].payload

\* Once runs come one at a time and look for the same layer, and faults have had
\* their turn, every run that gets to its end is answered from the cache: the
\* evictions of runs that started on other sources or with other plans have an end,
\* a late eviction that removed the entry of a newer run, or the blob under its
\* manifest, is made good, and no damage leaves an entry that is refused again and
\* again.
EventuallyWarm ==
  \A k \in Keys :
    <>[](\A p \in Procs : ~At(p, "idle") => /\ key[p] = k /\ ~At(p, "bypass")
                                           /\ \A q \in Procs \ {p} : At(q, "idle"))
      => <>[](\A p \in Procs : At(p, "done") /\ payload[p] # SetupMissing => hit[p])

=============================================================================
