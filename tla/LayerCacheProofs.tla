-------------------------- MODULE LayerCacheProofs --------------------------
(***************************************************************************)
(* What LayerCache guarantees for any number of processes, versions, plans *)
(* and faults: its types, that hits are truthful as long as nobody edits   *)
(* the sources under a run, and of their own key otherwise, that entries   *)
(* are whole as long as nobody but polint's runs touches the files, that a *)
(* stored layer goes on to be hit, and that runs get nearer to their end.  *)
(***************************************************************************)
EXTENDS LayerCache, TLAPS

-----------------------------------------------------------------------------
(* Types *)

HoldSteps    == {"open", "check", "evict_both", "evict_blob"}
PayloadSteps == {"check", "write_blob", "write_manifest"}

\* What the step a process is at says about its local state.
LocalOK ==
  \A p \in Procs :
    /\ pc[p] \in HoldSteps => held[p] \in Manifests
    /\ pc[p] \in PayloadSteps => payload[p] \in Payloads

TypeInv == TypeOK /\ LocalOK

\* A payload is one whatever the sidecar read.
LEMMA PayloadType ==
  ASSUME NEW k \in Keys, NEW w \in Versions
  PROVE  Payload(k, w) \in Payloads
BY LayerAssumption DEF Payload, Payloads, Keys

\* A manifest of a key and a payload.
LEMMA ManifestType ==
  ASSUME NEW k \in Keys, NEW d \in Payloads
  PROVE  Manifest(k, d) \in Manifests
BY DEF Manifest, Manifests, OutputDigest, OutputDigests

LEMMA ManifestFields ==
  ASSUME NEW m \in Manifests
  PROVE  m.key \in Keys /\ m.payload \in Payloads
BY DEF Manifests

LEMMA InitTypes == Init => TypeInv
BY DEF Init, TypeInv, TypeOK, LocalOK, Keys, Steps, HoldSteps, PayloadSteps

LEMMA NextTypes == TypeInv /\ [Next]_vars => TypeInv'
<1> SUFFICES ASSUME TypeInv, [Next]_vars PROVE TypeInv'
  OBVIOUS
<1> USE DEF TypeInv, TypeOK, LocalOK, files, local, At, Goto, HoldSteps, PayloadSteps, Steps
<1>1. ASSUME NEW p \in Procs, Start(p) PROVE TypeInv'
  <2>1. PICK plan \in Plans : key' = [key EXCEPT ![p] = [src |-> disk, plan |-> plan]]
    BY <1>1 DEF Start
  <2>2. [src |-> disk, plan |-> plan] \in Keys
    BY DEF Keys
  <2>3. key' \in [Procs -> Keys]
    BY <2>1, <2>2
  <2> QED
    BY <1>1, <2>3 DEF Start
<1>2. ASSUME NEW p \in Procs, Look(p) \/ ScanEnds(p) PROVE TypeInv'
  BY <1>2 DEF Look, ScanEnds
<1>3. ASSUME NEW p \in Procs, List(p) PROVE TypeInv'
  BY <1>3 DEF List
<1>4. ASSUME NEW p \in Procs, Scan(p) PROVE TypeInv'
  BY <1>4 DEF Scan, Evict
<1>5. ASSUME NEW p \in Procs, ReadManifest(p) PROVE TypeInv'
  BY <1>5 DEF ReadManifest, Supported
<1>6. ASSUME NEW p \in Procs, ReadFails(p) \/ StatFails(p) PROVE TypeInv'
  BY <1>6 DEF ReadFails, StatFails, Strikes
<1>7. ASSUME NEW p \in Procs, ReadBlob(p) PROVE TypeInv'
  <2>1. held[p] \in Manifests /\ held[p].payload \in Payloads
    BY <1>7, ManifestFields DEF ReadBlob
  <2> QED
    BY <1>7, <2>1 DEF ReadBlob
<1>8. ASSUME NEW p \in Procs, Validate(p) PROVE TypeInv'
  BY <1>8 DEF Validate
<1>9. ASSUME NEW p \in Procs, EvictManifest(p) PROVE TypeInv'
  BY <1>9 DEF EvictManifest, Evict
<1>10. ASSUME NEW p \in Procs, EvictBlob(p) PROVE TypeInv'
  BY <1>10 DEF EvictBlob
<1>11. ASSUME NEW p \in Procs, Derive(p) \/ DeriveBypassed(p) PROVE TypeInv'
  <2>1. Payload(key[p], disk) \in Payloads
    BY PayloadType
  <2> QED
    BY <1>11, <2>1 DEF Derive, DeriveBypassed
<1>12. ASSUME NEW p \in Procs, SetupFails(p) PROVE TypeInv'
  BY <1>12 DEF SetupFails, Strikes
<1>13. ASSUME NEW p \in Procs, WriteBlob(p) PROVE TypeInv'
  BY <1>13 DEF WriteBlob
<1>14. ASSUME NEW p \in Procs, WriteManifest(p) PROVE TypeInv'
  <2>1. Manifest(key[p], payload[p]) \in Manifests
    BY <1>14, ManifestType DEF WriteManifest
  <2> QED
    BY <1>14, <2>1 DEF WriteManifest
<1>15. ASSUME NEW p \in Procs, WriteFails(p) PROVE TypeInv'
  BY <1>15 DEF WriteFails, Strikes
<1>16. ASSUME NEW p \in Procs, Finish(p) \/ Crash(p) PROVE TypeInv'
  BY <1>16 DEF Finish, Crash, Reset
<1>17. CASE Edit
  BY <1>17 DEF Edit
<1>18. CASE Damage
  BY <1>18 DEF Damage, Strikes
<1>19. CASE Prune
  BY <1>19 DEF Prune, Strikes, Evict
<1>20. CASE UNCHANGED vars
  BY <1>20 DEF vars
<1> QED
  BY <1>1, <1>2, <1>3, <1>4, <1>5, <1>6, <1>7, <1>8, <1>9, <1>10, <1>11, <1>12, <1>13,
     <1>14, <1>15, <1>16, <1>17, <1>18, <1>19, <1>20 DEF Next, Progress

LEMMA TypeInvariant == Spec => []TypeInv
BY InitTypes, NextTypes, PTL DEF Spec

\* The state of the cache and of its readers and writers always has its type: an
\* answer is a payload, never the content of a damaged file.
THEOREM LayerTypes == Spec => []TypeOK
<1>1. TypeInv => TypeOK
  BY DEF TypeInv
<1> QED
  BY <1>1, TypeInvariant, PTL

-----------------------------------------------------------------------------
(* Hits *)

\* The layer of key k, derived from the sources of k throughout, and the layers whose
\* part from the sidecar may be of another version.
Truth(k)     == Payload(k, k.src)
Derivable(k) == {Payload(k, w) : w \in Versions}

\* What a run with key k may derive: when sources change under runs, the sidecar's
\* part is that of whatever version it finds.
Fits(k) == IF "during" \in Edits THEN Derivable(k) ELSE {Truth(k)}

\* Every stored, held or derived payload fits its key; unless sources change under
\* runs, a run that still relies on its snapshot finds the sources as they were.
TruthInv ==
  /\ \A k \in Keys :
       manifest[k] \in Manifests => manifest[k].payload \in Fits(manifest[k].key)
  /\ \A p \in Procs :
       /\ Relies(p) /\ "during" \notin Edits => key[p].src = disk
       /\ pc[p] \in HoldSteps => held[p].key = key[p] /\ held[p].payload \in Fits(key[p])
       /\ At(p, "check") => payload[p] = held[p].payload
       /\ pc[p] \in {"write_blob", "write_manifest"} => payload[p] \in Fits(key[p])
       /\ hit[p] => At(p, "done") /\ payload[p] \in Fits(key[p])

LEMMA InitTruth == Init => TruthInv
BY FilesAssumption DEF Init, TruthInv, Relies, At, HoldSteps

LEMMA NextTruth == TypeInv /\ TruthInv /\ [Next]_vars => TruthInv'
<1> SUFFICES ASSUME TypeInv, TruthInv, [Next]_vars PROVE TruthInv'
  OBVIOUS
<1> USE DEF TypeInv, TypeOK, LocalOK, TruthInv, files, local, At, Goto, HoldSteps, PayloadSteps,
            Steps, Relies
<1>1. ASSUME NEW p \in Procs, Start(p) PROVE TruthInv'
  <2>1. PICK plan \in Plans : key' = [key EXCEPT ![p] = [src |-> disk, plan |-> plan]]
    BY <1>1 DEF Start
  <2>2. key'[p].src = disk
    BY <2>1
  <2> QED
    BY <1>1, <2>1, <2>2 DEF Start
<1>2. ASSUME NEW p \in Procs, Look(p) \/ ScanEnds(p) PROVE TruthInv'
  BY <1>2 DEF Look, ScanEnds
<1>3. ASSUME NEW p \in Procs, List(p) PROVE TruthInv'
  BY <1>3 DEF List
<1>4. ASSUME NEW p \in Procs, Scan(p) PROVE TruthInv'
  BY <1>4, FilesAssumption DEF Scan, Evict
<1>5. ASSUME NEW p \in Procs, ReadManifest(p) PROVE TruthInv'
  BY <1>5 DEF ReadManifest, Supported
<1>6. ASSUME NEW p \in Procs, ReadFails(p) \/ StatFails(p) PROVE TruthInv'
  BY <1>6 DEF ReadFails, StatFails, Strikes
<1>7. ASSUME NEW p \in Procs, ReadBlob(p) PROVE TruthInv'
  BY <1>7 DEF ReadBlob
<1>8. ASSUME NEW p \in Procs, Validate(p) PROVE TruthInv'
  BY <1>8 DEF Validate
<1>9. ASSUME NEW p \in Procs, EvictManifest(p) PROVE TruthInv'
  BY <1>9, FilesAssumption DEF EvictManifest, Evict
<1>10. ASSUME NEW p \in Procs, EvictBlob(p) PROVE TruthInv'
  BY <1>10 DEF EvictBlob
<1>11. ASSUME NEW p \in Procs, Derive(p) \/ DeriveBypassed(p) PROVE TruthInv'
  <2>1. Payload(key[p], disk) \in Fits(key[p])
    BY <1>11 DEF Fits, Truth, Derivable, Derive, DeriveBypassed
  <2> QED
    BY <1>11, <2>1 DEF Derive, DeriveBypassed
<1>12. ASSUME NEW p \in Procs, SetupFails(p) PROVE TruthInv'
  BY <1>12 DEF SetupFails, Strikes
<1>13. ASSUME NEW p \in Procs, WriteBlob(p) PROVE TruthInv'
  BY <1>13 DEF WriteBlob
<1>14. ASSUME NEW p \in Procs, WriteManifest(p) PROVE TruthInv'
  <2>1. /\ Manifest(key[p], payload[p]).key = key[p]
        /\ Manifest(key[p], payload[p]).payload = payload[p]
    BY DEF Manifest
  <2>2. payload[p] \in Fits(key[p])
    BY <1>14 DEF WriteManifest
  <2> QED
    BY <1>14, <2>1, <2>2 DEF WriteManifest
<1>15. ASSUME NEW p \in Procs, WriteFails(p) PROVE TruthInv'
  BY <1>15 DEF WriteFails, Strikes
<1>16. ASSUME NEW p \in Procs, Finish(p) \/ Crash(p) PROVE TruthInv'
  BY <1>16 DEF Finish, Crash, Reset
<1>17. CASE Edit
  BY <1>17 DEF Edit
<1>18. CASE Damage
  <2>1. CASE UNCHANGED manifest
    BY <1>18, <2>1 DEF Damage
  <2>2. CASE \E k, l \in Keys : manifest' = [manifest EXCEPT ![k] = IF k = l THEN Garbage ELSE manifest[l]]
    BY <1>18, <2>2, FilesAssumption DEF Damage
  <2> QED
    BY <1>18, <2>1, <2>2 DEF Damage
<1>19. CASE Prune
  BY <1>19, FilesAssumption DEF Prune, Evict
<1>20. CASE UNCHANGED vars
  BY <1>20 DEF vars
<1> QED
  BY <1>1, <1>2, <1>3, <1>4, <1>5, <1>6, <1>7, <1>8, <1>9, <1>10, <1>11, <1>12, <1>13,
     <1>14, <1>15, <1>16, <1>17, <1>18, <1>19, <1>20 DEF Next, Progress

LEMMA TruthInvariant == Spec => [](TypeInv /\ TruthInv)
BY InitTruth, NextTruth, TypeInvariant, PTL DEF Spec

\* If nobody edits the sources under a run, a layer taken from the cache is the one
\* the run would have derived, whatever the number of runs, however they interleave,
\* crash or fail, and whatever is damaged, misplaced or pruned.
THEOREM TruthfulHits ==
  ASSUME "during" \notin Edits
  PROVE  Spec => []HitsTruthful
<1>1. TruthInv => HitsTruthful
  BY DEF TruthInv, HitsTruthful, Fits, Truth
<1> QED
  BY <1>1, TruthInvariant, PTL

\* What a hit never gets wrong: its plan and what the run's own database holds are
\* those of its key, and the sidecar's part is that of some version, unspoiled.
HitsOfOwnKey ==
  \A p \in Procs : hit[p] =>
    /\ payload[p].plan = key[p].plan
    /\ payload[p].db = Facts[key[p].src]
    /\ \E w \in Versions : payload[p].go = Facts[w]

\* Sources may be edited at any moment: the only part of a layer taken from the cache
\* that can be another version's is what the Go sidecar reads from the disk itself
\* (derive_requested_symbols_uncached_with_payload).
THEOREM EditsSpareTheDatabase == Spec => []HitsOfOwnKey
<1>1. TypeInv /\ TruthInv => HitsOfOwnKey
  <2> SUFFICES ASSUME TypeInv, TruthInv, NEW p \in Procs, hit[p]
               PROVE  /\ payload[p].plan = key[p].plan
                      /\ payload[p].db = Facts[key[p].src]
                      /\ \E w \in Versions : payload[p].go = Facts[w]
    BY DEF HitsOfOwnKey
  <2>1. key[p].src \in Versions
    BY DEF TypeInv, TypeOK, Keys
  <2>2. PICK w \in Versions : payload[p] = Payload(key[p], w)
    BY <2>1 DEF TruthInv, Fits, Truth, Derivable
  <2> QED
    BY <2>2 DEF Payload
<1> QED
  BY <1>1, TruthInvariant, PTL

-----------------------------------------------------------------------------
(* Entries *)

Untouched == harm \intersect {"damage", "prune", "stat"} = {}

\* While the files are untouched, and their metadata can be had, nobody has a reason to
\* evict a blob: what a reader holds and what a writer is about to name in a manifest is
\* in its blob.
WholeInv ==
  Untouched =>
    /\ \A k \in Keys :
         manifest[k] # Missing =>
           manifest[k] \in Manifests /\ blob[manifest[k].payload] = manifest[k].payload
    /\ \A p \in Procs :
         /\ pc[p] \notin {"evict_both", "evict_blob"}
         /\ At(p, "open") => blob[held[p].payload] = held[p].payload
         /\ At(p, "write_manifest") => blob[payload[p]] = payload[p]

LEMMA InitWhole == Init => WholeInv
BY DEF Init, WholeInv, At

LEMMA NextWhole == TypeInv /\ WholeInv /\ [Next]_vars => WholeInv'
<1> SUFFICES ASSUME TypeInv, WholeInv, [Next]_vars, Untouched' PROVE WholeInv'
  BY DEF WholeInv
<1> USE DEF TypeInv, TypeOK, LocalOK, files, local, At, Goto, HoldSteps, PayloadSteps, Steps
<1>0. harm' = harm \/ \E fault \in Faults : Strikes(fault)
  BY DEF Next, Progress, Start, Look, ScanEnds, List, Scan, ReadManifest, ReadFails, StatFails, ReadBlob,
         Validate, EvictManifest, EvictBlob, Derive, DeriveBypassed, SetupFails, WriteBlob,
         WriteManifest, WriteFails, Finish, Crash, Edit, Damage, Prune, Strikes, vars
<1>a. Untouched
  BY <1>0 DEF Untouched, Strikes
<1> USE <1>a DEF WholeInv
<1>2. ASSUME NEW p \in Procs, Start(p) \/ Look(p) \/ ScanEnds(p) \/ List(p) PROVE WholeInv'
  BY <1>2 DEF Start, Look, ScanEnds, List
<1>4. ASSUME NEW p \in Procs, Scan(p) PROVE WholeInv'
  BY <1>4 DEF Scan, Evict
<1>5. ASSUME NEW p \in Procs, ReadManifest(p) PROVE WholeInv'
  BY <1>5, FilesAssumption DEF ReadManifest, Supported
<1>6. ASSUME NEW p \in Procs, ReadFails(p) PROVE WholeInv'
  BY <1>6 DEF ReadFails
<1>7. ASSUME NEW p \in Procs, ReadBlob(p) PROVE WholeInv'
  BY <1>7 DEF ReadBlob
<1>8. ASSUME NEW p \in Procs, Validate(p) PROVE WholeInv'
  BY <1>8 DEF Validate
<1>9. ASSUME NEW p \in Procs, EvictManifest(p) PROVE WholeInv'
  BY <1>9 DEF EvictManifest, Evict
<1>10. ASSUME NEW p \in Procs, EvictBlob(p) PROVE WholeInv'
  BY <1>10 DEF EvictBlob
<1>11. ASSUME NEW p \in Procs, Derive(p) \/ DeriveBypassed(p) \/ SetupFails(p) PROVE WholeInv'
  BY <1>11 DEF Derive, DeriveBypassed, SetupFails
<1>13. ASSUME NEW p \in Procs, WriteBlob(p) PROVE WholeInv'
  <2>1. payload[p] \in Payloads /\ blob'[payload[p]] = payload[p]
    BY <1>13 DEF WriteBlob
  <2>2. \A d : d \in Payloads /\ blob[d] = d => blob'[d] = d
    BY <1>13 DEF WriteBlob
  <2>3. \A k \in Keys : manifest'[k] # Missing =>
          manifest'[k] \in Manifests /\ blob'[manifest'[k].payload] = manifest'[k].payload
    BY <1>13, <2>2, ManifestFields DEF WriteBlob
  <2>4. ASSUME NEW q \in Procs, At(q, "open")'
        PROVE  (blob[held[q].payload] = held[q].payload)'
    <3>1. At(q, "open") /\ held[q] \in Manifests /\ held' = held
      BY <1>13, <2>4 DEF WriteBlob
    <3> QED
      BY <3>1, <2>2, ManifestFields
  <2>5. ASSUME NEW q \in Procs, At(q, "write_manifest")'
        PROVE  (blob[payload[q]] = payload[q])'
    BY <1>13, <2>1, <2>2, <2>5 DEF WriteBlob
  <2> QED
    BY <1>13, <2>3, <2>4, <2>5 DEF WriteBlob
<1>14. ASSUME NEW p \in Procs, WriteManifest(p) PROVE WholeInv'
  <2>1. /\ Manifest(key[p], payload[p]) \in Manifests
        /\ Manifest(key[p], payload[p]).payload = payload[p]
    BY <1>14, ManifestType DEF WriteManifest, Manifest
  <2>2. blob[payload[p]] = payload[p]
    BY <1>14 DEF WriteManifest
  <2> QED
    BY <1>14, <2>1, <2>2 DEF WriteManifest
<1>15. ASSUME NEW p \in Procs, WriteFails(p) PROVE WholeInv'
  BY <1>15 DEF WriteFails
<1>16. ASSUME NEW p \in Procs, Finish(p) \/ Crash(p) PROVE WholeInv'
  BY <1>16 DEF Finish, Crash, Reset
<1>17. CASE Edit
  BY <1>17 DEF Edit
<1>18. CASE Damage \/ Prune \/ \E p \in Procs : StatFails(p)
  BY <1>18 DEF Damage, Prune, StatFails, Strikes, Untouched
<1>20. CASE UNCHANGED vars
  BY <1>20 DEF vars
<1> QED
  BY <1>2, <1>4, <1>5, <1>6, <1>7, <1>8, <1>9, <1>10, <1>11, <1>13,
     <1>14, <1>15, <1>16, <1>17, <1>18, <1>20 DEF Next, Progress

\* Whatever the number of runs, and wherever they are killed or fail: as long as
\* nothing else touches the files and no call for a blob's metadata fails, every
\* manifest is readable and has its blob.
THEOREM WholeEntries == Spec => []EntriesWhole
<1>1. WholeInv => EntriesWhole
  BY DEF WholeInv, EntriesWhole, Untouched
<1> QED
  BY <1>1, InitWhole, NextWhole, TypeInvariant, PTL DEF Spec

-----------------------------------------------------------------------------
(* A warm cache *)

\* A manifest that a reader with key k accepts, with its blob in place.
Accepted(m, k) ==
  /\ Supported(m, k) /\ Valid(m, m.payload)
  /\ blob[m.payload] = m.payload

\* The layer of k is stored, and every run under way looks for it, has found nothing
\* wrong so far, or is through.
Warm(k) ==
  /\ Accepted(manifest[k], k)
  /\ \A p \in Procs :
       /\ pc[p] \in {"idle", "look", "read", "open", "check", "done"}
       /\ ~At(p, "idle") => key[p] = k
       /\ At(p, "open") \/ At(p, "check") => Accepted(held[p], k)
       /\ At(p, "check") => payload[p] = held[p].payload

\* A step at which no fault strikes and no run starts but one that looks for k.
AsksFor(k) ==
  /\ harm' = harm
  /\ \A p \in Procs : At(p, "idle") => At(p, "idle")' \/ (At(p, "look") /\ key[p] = k)'

\* Such a step keeps the cache warm, and a run that gets to its end by it has a hit.
StaysWarm(k) ==
  Warm(k) /\ AsksFor(k) =>
    /\ Warm(k)'
    /\ \A p \in Procs : ~At(p, "done") /\ At(p, "done")' => hit'[p]

\* Once the layer of a key is stored, the runs that look for it are answered from the
\* cache, any number of them at once and with others killed or the sources edited at
\* any moment, until a run looks for another layer or a fault strikes
\* (read_payload_bytes_validated).
THEOREM WarmRunsHit == Spec => [][\A k \in Keys : StaysWarm(k)]_vars
<1>1. TypeInv /\ [Next]_vars => [\A k \in Keys : StaysWarm(k)]_vars
  <2> SUFFICES ASSUME TypeInv, Next, NEW k \in Keys, Warm(k), AsksFor(k)
               PROVE  Warm(k)' /\ \A p \in Procs : ~At(p, "done") /\ At(p, "done")' => hit'[p]
    BY DEF StaysWarm
  <2> USE DEF TypeInv, TypeOK, LocalOK, files, local, At, Goto, HoldSteps, PayloadSteps, Steps
  <2>1. ASSUME NEW p \in Procs, Start(p) \/ Look(p)
        PROVE  Warm(k)' /\ \A q \in Procs : ~At(q, "done") /\ At(q, "done")' => hit'[q]
    BY <2>1, FilesAssumption DEF Start, Look, Warm, Accepted, AsksFor, Supported
  <2>2. ASSUME NEW p \in Procs, ReadManifest(p)
        PROVE  Warm(k)' /\ \A q \in Procs : ~At(q, "done") /\ At(q, "done")' => hit'[q]
    BY <2>2 DEF ReadManifest, Warm, Accepted
  <2>3. ASSUME NEW p \in Procs, ReadBlob(p)
        PROVE  Warm(k)' /\ \A q \in Procs : ~At(q, "done") /\ At(q, "done")' => hit'[q]
    BY <2>3 DEF ReadBlob, Warm, Accepted
  <2>4. ASSUME NEW p \in Procs, Validate(p)
        PROVE  Warm(k)' /\ \A q \in Procs : ~At(q, "done") /\ At(q, "done")' => hit'[q]
    BY <2>4 DEF Validate, Warm, Accepted
  <2>5. ASSUME NEW p \in Procs, Finish(p) \/ Crash(p)
        PROVE  Warm(k)' /\ \A q \in Procs : ~At(q, "done") /\ At(q, "done")' => hit'[q]
    BY <2>5 DEF Finish, Crash, Reset, Warm, Accepted
  <2>6. CASE Edit
    BY <2>6 DEF Edit, Warm, Accepted
  <2>7. ASSUME NEW p \in Procs,
               \/ List(p) \/ Scan(p) \/ ScanEnds(p) \/ EvictManifest(p) \/ EvictBlob(p) \/ Derive(p)
               \/ DeriveBypassed(p) \/ WriteBlob(p) \/ WriteManifest(p)
        PROVE  FALSE
    BY <2>7 DEF Warm, List, Scan, ScanEnds, EvictManifest, EvictBlob, Derive, DeriveBypassed, WriteBlob,
       WriteManifest
  <2>8. ~Damage /\ ~Prune /\ \A p \in Procs : ~(ReadFails(p) \/ StatFails(p) \/ SetupFails(p) \/ WriteFails(p))
    BY DEF AsksFor, Damage, Prune, ReadFails, StatFails, SetupFails, WriteFails, Strikes
  <2> QED
    BY <2>1, <2>2, <2>3, <2>4, <2>5, <2>6, <2>7, <2>8 DEF Next, Progress
<1> QED
  BY <1>1, TypeInvariant, PTL DEF Spec

-----------------------------------------------------------------------------
(* Runs end *)

\* How many steps a run has left at most, not counting the manifests it scans.
StepsLeft ==
  [look |-> 9, list |-> 8, scan |-> 7, read |-> 8, open |-> 7, check |-> 6, evict |-> 5, evict_both |-> 5,
   evict_blob |-> 4, derive |-> 3, bypass |-> 3, write_blob |-> 2, write_manifest |-> 1, done |-> 0]

\* A process stands still, starts or ends a run, has one manifest less to look at, or
\* is nearer to its answer.
Advances(p) ==
  \/ UNCHANGED <<pc[p], todo[p], payload[p], hit[p]>>
  \/ At(p, "idle") \/ At(p, "idle")'
  \/ pc'[p] = pc[p] /\ \E k \in todo[p] : todo'[p] = todo[p] \ {k}
  \/ StepsLeft[pc'[p]] < StepsLeft[pc[p]]

\* No run goes round in circles, however often the entries it looks at are replaced,
\* evicted or damaged under it: what it cannot use it evicts and derives once, and
\* each other step is one towards its answer (derive_requested_symbols_with_cache_stats).
THEOREM LayerRunsAdvance == Spec => [][\A p \in Procs : Advances(p)]_vars
<1>1. TypeInv /\ [Next]_vars => [\A p \in Procs : Advances(p)]_vars
  <2> SUFFICES ASSUME TypeInv, Next PROVE \A p \in Procs : Advances(p)
    OBVIOUS
  <2> USE DEF TypeInv, TypeOK, local, At, Goto, Steps
  <2>1. ASSUME NEW p \in Procs,
               \/ Start(p) \/ Look(p) \/ List(p) \/ ScanEnds(p) \/ ReadManifest(p) \/ ReadBlob(p) \/ Validate(p)
        PROVE  \A q \in Procs : Advances(q)
    BY <2>1 DEF Start, Look, List, ScanEnds, ReadManifest, ReadBlob, Validate, Advances, StepsLeft
  <2>2. ASSUME NEW p \in Procs, Scan(p) PROVE \A q \in Procs : Advances(q)
    BY <2>2 DEF Scan, Advances
  <2>3. ASSUME NEW p \in Procs,
               \/ EvictManifest(p) \/ EvictBlob(p) \/ Derive(p) \/ DeriveBypassed(p) \/ WriteBlob(p)
               \/ WriteManifest(p)
        PROVE  \A q \in Procs : Advances(q)
    BY <2>3 DEF EvictManifest, EvictBlob, Derive, DeriveBypassed, WriteBlob, WriteManifest, Advances, StepsLeft
  <2>4. ASSUME NEW p \in Procs,
               \/ Finish(p) \/ Crash(p) \/ ReadFails(p) \/ StatFails(p) \/ SetupFails(p) \/ WriteFails(p)
        PROVE  \A q \in Procs : Advances(q)
    BY <2>4 DEF Finish, Crash, Reset, ReadFails, StatFails, SetupFails, WriteFails, Advances, StepsLeft
  <2>5. CASE Edit \/ Damage \/ Prune
    BY <2>5 DEF Edit, Damage, Prune, Advances
  <2> QED
    BY <2>1, <2>2, <2>3, <2>4, <2>5 DEF Next, Progress
<1> QED
  BY <1>1, TypeInvariant, PTL DEF Spec

=============================================================================
