-------------------------- MODULE CompileCache_proofs --------------------------
(***************************************************************************)
(* Proofs about CompileCache, for any number of processes, fingerprints    *)
(* and artifacts.                                                          *)
(***************************************************************************)
EXTENDS CompileCache, TLAPS

(* Who is inside the file lock.                                            *)
Locked == {"condemnBlob", "condemnSync", "purge", "write", "syncBlob", "name", "syncName"}

(* The records of work, as TypeOK has them.                                *)
WorkSet == [fp : Fingerprints \cup {Missing}, sha : Contents \cup {NoBlob},
            loaded : BOOLEAN, moved : BOOLEAN]

(* The lock is held by the process whose step needs it, and by no other.   *)
LockInv == \A p \in Procs : pc[p] \in Locked <=> lock = p

(* What a process works on.                                                *)
WorkInv ==
  \A p \in Procs :
    /\ pc[p] # "idle" => work[p].fp \in Fingerprints
    /\ pc[p] \in {"publish", "purge", "write", "syncBlob", "name", "syncName"} =>
         work[p].sha \in Contents

(* Without rot and failing loaders nothing is ever quarantined, and publish *)
(* names a blob only after the blob is there.                              *)
CalmInv ==
  /\ \A c \in Contents : blob[c] # "damaged"
  /\ \A f \in Fingerprints : manifest[f] # Missing => Loadable(f)
  /\ \A p \in Procs :
       /\ pc[p] \notin {"condemn", "condemnBlob", "condemnSync", "purge"}
       /\ pc[p] \in {"syncBlob", "name", "syncName"} => blob[work[p].sha] = "intact"
       /\ pc[p] = "syncName" => manifest[work[p].fp] # Missing

(* Where the power may go but nobody dies alone, whatever a manifest may   *)
(* name after the loss is a blob that is synced.                           *)
PowerInv ==
  /\ \A c \in Contents : blob[c] \in blobMay[c] /\ "damaged" \notin blobMay[c]
  /\ \A f \in Fingerprints : manifest[f] \in manifestMay[f]
  /\ \A f \in Fingerprints : \A v \in manifestMay[f] :
       v # Missing => v \in Contents /\ blobMay[v] = {"intact"}
  /\ \A c \in Contents : blob[c] = "intact" =>
       \/ blobMay[c] = {"intact"}
       \/ \E p \in Procs : pc[p] = "syncBlob" /\ work[p].sha = c
  /\ \A p \in Procs :
       pc[p] \in {"name", "syncName"} => blobMay[work[p].sha] = {"intact"}
  /\ \A f \in finished : Missing \notin manifestMay[f]

CacheInv ==
  /\ TypeOK /\ LockInv /\ WorkInv
  /\ OneKindOfCrash =>
       /\ CalmInv
       /\ IF "power" \in faults THEN PowerInv ELSE \A f \in finished : manifest[f] # Missing

(* An empty cache satisfies the invariant.                                 *)
LEMMA InitCache == Init => CacheInv
BY CacheAssumption DEF Init, CacheInv, TypeOK, LockInv, WorkInv, CalmInv, PowerInv, Loadable,
   NoWork, Locked, Steps

(* Looking a fingerprint up changes no file.                               *)
LEMMA LoadKeeps ==
  ASSUME CacheInv, NEW p \in Procs, Load(p)
  PROVE  CacheInv'
<1> USE CacheAssumption DEF Load, Goto, Take, Drop, Leave, files, NoWork, PutManifest, PutBlob, SyncManifests, SyncBlobs
<1>1. TypeOK'
  BY DEF CacheInv, TypeOK, Steps
<1>2. LockInv'
  BY DEF CacheInv, TypeOK, LockInv, Locked
<1>3. WorkInv'
  BY DEF CacheInv, TypeOK, WorkInv
<1>4. ASSUME OneKindOfCrash' PROVE CalmInv'
  BY <1>4 DEF CacheInv, TypeOK, LockInv, Locked, WorkInv, CalmInv, OneKindOfCrash, Loadable
<1>5. ASSUME OneKindOfCrash', "power" \in faults' PROVE PowerInv'
  BY <1>5 DEF CacheInv, TypeOK, LockInv, Locked, WorkInv, CalmInv, PowerInv, OneKindOfCrash, Loadable
<1>6. ASSUME OneKindOfCrash', "power" \notin faults' PROVE \A f \in finished' : manifest'[f] # Missing
  BY <1>6 DEF CacheInv, TypeOK, WorkInv, CalmInv, OneKindOfCrash, Loadable
<1> QED BY <1>1, <1>2, <1>3, <1>4, <1>5, <1>6 DEF CacheInv

(* A load that succeeds changes no file.                                   *)
LEMMA RunLoaderKeeps ==
  ASSUME CacheInv, NEW p \in Procs, RunLoader(p)
  PROVE  CacheInv'
<1> USE CacheAssumption DEF RunLoader, Goto, Take, Drop, Leave, files, NoWork, PutManifest, PutBlob, SyncManifests, SyncBlobs
<1>1. TypeOK'
  <2>1. work' \in [Procs -> WorkSet]
    <3>1. work \in [Procs -> WorkSet] /\ work[p] \in WorkSet
      BY DEF CacheInv, TypeOK, WorkSet
    <3>2. work'[p] \in WorkSet
      BY <3>1 DEF WorkSet
    <3> QED BY <3>1, <3>2
  <2> QED BY <2>1 DEF CacheInv, TypeOK, WorkInv, Steps, WorkSet
<1>2. LockInv'
  BY DEF CacheInv, TypeOK, LockInv, Locked
<1>3. WorkInv'
  BY DEF CacheInv, TypeOK, WorkInv
<1>4. ASSUME OneKindOfCrash' PROVE CalmInv'
  BY <1>4 DEF CacheInv, TypeOK, LockInv, Locked, WorkInv, CalmInv, OneKindOfCrash, Loadable
<1>5. ASSUME OneKindOfCrash', "power" \in faults' PROVE PowerInv'
  BY <1>5 DEF CacheInv, TypeOK, LockInv, Locked, WorkInv, CalmInv, PowerInv, OneKindOfCrash, Loadable
<1>6. ASSUME OneKindOfCrash', "power" \notin faults' PROVE \A f \in finished' : manifest'[f] # Missing
  BY <1>6 DEF CacheInv, TypeOK, WorkInv, CalmInv, OneKindOfCrash, Loadable
<1> QED BY <1>1, <1>2, <1>3, <1>4, <1>5, <1>6 DEF CacheInv

(* A loader fails in plans of faults of which the properties say nothing.  *)
LEMMA LoaderFailsKeeps ==
  ASSUME CacheInv, NEW p \in Procs, LoaderFails(p)
  PROVE  CacheInv'
<1> USE CacheAssumption DEF LoaderFails, Goto, Take, Drop, Leave, files, NoWork, PutManifest, PutBlob, SyncManifests, SyncBlobs
<1>1. TypeOK'
  BY DEF CacheInv, TypeOK, Steps
<1>2. LockInv'
  BY DEF CacheInv, TypeOK, LockInv, Locked
<1>3. WorkInv'
  BY DEF CacheInv, TypeOK, WorkInv
<1>4. ASSUME OneKindOfCrash' PROVE CalmInv'
  BY <1>4 DEF CacheInv, TypeOK, LockInv, Locked, WorkInv, CalmInv, OneKindOfCrash, Loadable
<1>5. ASSUME OneKindOfCrash', "power" \in faults' PROVE PowerInv'
  BY <1>5 DEF CacheInv, TypeOK, LockInv, Locked, WorkInv, CalmInv, PowerInv, OneKindOfCrash, Loadable
<1>6. ASSUME OneKindOfCrash', "power" \notin faults' PROVE \A f \in finished' : manifest'[f] # Missing
  BY <1>6 DEF CacheInv, TypeOK, WorkInv, CalmInv, OneKindOfCrash, Loadable
<1> QED BY <1>1, <1>2, <1>3, <1>4, <1>5, <1>6 DEF CacheInv

(* The manifest is moved away under the lock, in such plans only.          *)
LEMMA CondemnKeeps ==
  ASSUME CacheInv, NEW p \in Procs, Condemn(p)
  PROVE  CacheInv'
<1> USE CacheAssumption DEF Condemn, Goto, Take, Drop, Leave, files, NoWork, PutManifest, PutBlob, SyncManifests, SyncBlobs
<1>1. TypeOK'
  <2> HIDE DEF Condemn
  <2>1. work[p].fp \in Fingerprints /\ work \in [Procs -> WorkSet] /\ work[p] \in WorkSet
    BY DEF Condemn, CacheInv, TypeOK, WorkInv, WorkSet
  <2>2. CASE UNCHANGED <<files, work>>
    BY <2>2 DEF Condemn, CacheInv, TypeOK, Steps
  <2>3. CASE ~UNCHANGED <<files, work>>
    <3>1. /\ manifest' = [manifest EXCEPT ![work[p].fp] = Missing]
          /\ manifestMay' = [manifestMay EXCEPT ![work[p].fp] = @ \cup {Missing}]
          /\ work' = [work EXCEPT ![p].moved = TRUE]
          /\ UNCHANGED <<blob, blobMay>>
      BY <2>3 DEF Condemn
    <3>2. work' \in [Procs -> WorkSet]
      <4>1. [work[p] EXCEPT !.moved = TRUE] \in WorkSet
        BY <2>1 DEF WorkSet
      <4>2. work' = [work EXCEPT ![p] = [work[p] EXCEPT !.moved = TRUE]]
        BY <3>1
      <4> QED BY <4>1, <4>2, <2>1
    <3>3. /\ lock' \in Procs \cup {Nobody} /\ pc' \in [Procs -> Steps]
          /\ finished' \in SUBSET Fingerprints /\ faults' \in FaultPlans
      BY DEF Condemn, CacheInv, TypeOK, Steps
    <3> QED BY <2>1, <3>1, <3>2, <3>3 DEF CacheInv, TypeOK, WorkSet
  <2> QED BY <2>2, <2>3
<1>2. LockInv'
  BY DEF CacheInv, TypeOK, LockInv, Locked
<1>3. WorkInv'
  BY DEF CacheInv, TypeOK, WorkInv
<1>4. ASSUME OneKindOfCrash' PROVE CalmInv'
  BY <1>4 DEF CacheInv, TypeOK, LockInv, Locked, WorkInv, CalmInv, OneKindOfCrash, Loadable
<1>5. ASSUME OneKindOfCrash', "power" \in faults' PROVE PowerInv'
  BY <1>5 DEF CacheInv, TypeOK, LockInv, Locked, WorkInv, CalmInv, PowerInv, OneKindOfCrash, Loadable
<1>6. ASSUME OneKindOfCrash', "power" \notin faults' PROVE \A f \in finished' : manifest'[f] # Missing
  BY <1>6 DEF CacheInv, TypeOK, WorkInv, CalmInv, OneKindOfCrash, Loadable
<1> QED BY <1>1, <1>2, <1>3, <1>4, <1>5, <1>6 DEF CacheInv

(* The blob is moved away under the lock, in such plans only.              *)
LEMMA CondemnBlobKeeps ==
  ASSUME CacheInv, NEW p \in Procs, CondemnBlob(p)
  PROVE  CacheInv'
<1> USE CacheAssumption DEF CondemnBlob, Goto, Take, Drop, Leave, files, NoWork, PutManifest, PutBlob, SyncManifests, SyncBlobs
<1>1. TypeOK'
  <2>1. work' \in [Procs -> WorkSet]
    <3>1. work \in [Procs -> WorkSet] /\ work[p] \in WorkSet
      BY DEF CacheInv, TypeOK, WorkSet
    <3>2. work' = work \/ work' = [work EXCEPT ![p].moved = TRUE]
      OBVIOUS
    <3>3. [work[p] EXCEPT !.moved = TRUE] \in WorkSet
      BY <3>1 DEF WorkSet
    <3> QED BY <3>1, <3>2, <3>3
  <2>2. /\ manifest' \in [Fingerprints -> Contents \cup {Missing, Garbage}]
        /\ manifestMay' \in [Fingerprints -> SUBSET (Contents \cup {Missing, Garbage})]
    BY DEF CacheInv, TypeOK
  <2>3. /\ blob' \in [Contents -> {Missing, "intact", "damaged"}]
        /\ blobMay' \in [Contents -> SUBSET {Missing, "intact", "damaged"}]
    BY DEF CacheInv, TypeOK
  <2>4. /\ lock' \in Procs \cup {Nobody} /\ pc' \in [Procs -> Steps]
        /\ finished' \in SUBSET Fingerprints /\ faults' \in FaultPlans
    BY DEF CacheInv, TypeOK, Steps
  <2> QED BY <2>1, <2>2, <2>3, <2>4 DEF TypeOK, WorkSet
<1>2. LockInv'
  BY DEF CacheInv, TypeOK, LockInv, Locked
<1>3. WorkInv'
  BY DEF CacheInv, TypeOK, WorkInv
<1>4. ASSUME OneKindOfCrash' PROVE CalmInv'
  BY <1>4 DEF CacheInv, TypeOK, LockInv, Locked, WorkInv, CalmInv, OneKindOfCrash, Loadable
<1>5. ASSUME OneKindOfCrash', "power" \in faults' PROVE PowerInv'
  BY <1>5 DEF CacheInv, TypeOK, LockInv, Locked, WorkInv, CalmInv, PowerInv, OneKindOfCrash, Loadable
<1>6. ASSUME OneKindOfCrash', "power" \notin faults' PROVE \A f \in finished' : manifest'[f] # Missing
  BY <1>6 DEF CacheInv, TypeOK, WorkInv, CalmInv, OneKindOfCrash, Loadable
<1> QED BY <1>1, <1>2, <1>3, <1>4, <1>5, <1>6 DEF CacheInv

(* A quarantine ends with both directories synced and the lock free.       *)
LEMMA CondemnSyncKeeps ==
  ASSUME CacheInv, NEW p \in Procs, CondemnSync(p)
  PROVE  CacheInv'
<1> USE CacheAssumption DEF CondemnSync, Goto, Take, Drop, Leave, files, NoWork, PutManifest, PutBlob, SyncManifests, SyncBlobs
<1>1. TypeOK'
  <2>1. work' \in [Procs -> WorkSet]
    <3>1. work \in [Procs -> WorkSet] /\ work[p] \in WorkSet
      BY DEF CacheInv, TypeOK, WorkSet
    <3>2. work'[p] \in WorkSet
      BY <3>1 DEF WorkSet
    <3> QED BY <3>1, <3>2
  <2> QED BY <2>1 DEF CacheInv, TypeOK, WorkInv, Steps, WorkSet
<1>2. LockInv'
  BY DEF CacheInv, TypeOK, LockInv, Locked
<1>3. WorkInv'
  BY DEF CacheInv, TypeOK, WorkInv
<1>4. ASSUME OneKindOfCrash' PROVE CalmInv'
  BY <1>4 DEF CacheInv, TypeOK, LockInv, Locked, WorkInv, CalmInv, OneKindOfCrash, Loadable
<1>5. ASSUME OneKindOfCrash', "power" \in faults' PROVE PowerInv'
  BY <1>5 DEF CacheInv, TypeOK, LockInv, Locked, WorkInv, CalmInv, PowerInv, OneKindOfCrash, Loadable
<1>6. ASSUME OneKindOfCrash', "power" \notin faults' PROVE \A f \in finished' : manifest'[f] # Missing
  BY <1>6 DEF CacheInv, TypeOK, WorkInv, CalmInv, OneKindOfCrash, Loadable
<1> QED BY <1>1, <1>2, <1>3, <1>4, <1>5, <1>6 DEF CacheInv

(* A compilation that used what was loaded ends without writing.           *)
LEMMA AdmitKeeps ==
  ASSUME CacheInv, NEW p \in Procs, Admit(p)
  PROVE  CacheInv'
<1> USE CacheAssumption DEF Admit, Goto, Take, Drop, Leave, files, NoWork, PutManifest, PutBlob, SyncManifests, SyncBlobs
<1>1. TypeOK'
  BY DEF CacheInv, TypeOK, Steps
<1>2. LockInv'
  BY DEF CacheInv, TypeOK, LockInv, Locked
<1>3. WorkInv'
  BY DEF CacheInv, TypeOK, WorkInv
<1>4. ASSUME OneKindOfCrash' PROVE CalmInv'
  BY <1>4 DEF CacheInv, TypeOK, LockInv, Locked, WorkInv, CalmInv, OneKindOfCrash, Loadable
<1>5. ASSUME OneKindOfCrash', "power" \in faults' PROVE PowerInv'
  BY <1>5 DEF CacheInv, TypeOK, LockInv, Locked, WorkInv, CalmInv, PowerInv, OneKindOfCrash, Loadable
<1>6. ASSUME OneKindOfCrash', "power" \notin faults' PROVE \A f \in finished' : manifest'[f] # Missing
  BY <1>6 DEF CacheInv, TypeOK, WorkInv, CalmInv, OneKindOfCrash, Loadable
<1> QED BY <1>1, <1>2, <1>3, <1>4, <1>5, <1>6 DEF CacheInv

(* A compilation brings an artifact that the store may hold already.       *)
LEMMA SaveKeeps ==
  ASSUME CacheInv, NEW p \in Procs, Save(p)
  PROVE  CacheInv'
<1> USE CacheAssumption DEF Save, Goto, Take, Drop, Leave, files, NoWork, PutManifest, PutBlob, SyncManifests, SyncBlobs
<1>1. TypeOK'
  BY DEF CacheInv, TypeOK, Steps
<1>2. LockInv'
  BY DEF CacheInv, TypeOK, LockInv, Locked
<1>3. WorkInv'
  BY DEF CacheInv, TypeOK, WorkInv
<1>4. ASSUME OneKindOfCrash' PROVE CalmInv'
  BY <1>4 DEF CacheInv, TypeOK, LockInv, Locked, WorkInv, CalmInv, OneKindOfCrash, Loadable
<1>5. ASSUME OneKindOfCrash', "power" \in faults' PROVE PowerInv'
  BY <1>5 DEF CacheInv, TypeOK, LockInv, Locked, WorkInv, CalmInv, PowerInv, OneKindOfCrash, Loadable
<1>6. ASSUME OneKindOfCrash', "power" \notin faults' PROVE \A f \in finished' : manifest'[f] # Missing
  BY <1>6 DEF CacheInv, TypeOK, WorkInv, CalmInv, OneKindOfCrash, Loadable
<1> QED BY <1>1, <1>2, <1>3, <1>4, <1>5, <1>6 DEF CacheInv

(* Publication begins: a blob that is intact under the lock stays so.      *)
LEMMA PublishKeeps ==
  ASSUME CacheInv, NEW p \in Procs, Publish(p)
  PROVE  CacheInv'
<1> USE CacheAssumption DEF Publish, Goto, Take, Drop, Leave, files, NoWork, PutManifest, PutBlob, SyncManifests, SyncBlobs
<1>1. TypeOK'
  BY DEF CacheInv, TypeOK, Steps
<1>2. LockInv'
  BY DEF CacheInv, TypeOK, LockInv, Locked
<1>3. WorkInv'
  BY DEF CacheInv, TypeOK, WorkInv
<1>4. ASSUME OneKindOfCrash' PROVE CalmInv'
  BY <1>4 DEF CacheInv, TypeOK, LockInv, Locked, WorkInv, CalmInv, OneKindOfCrash, Loadable
<1>5. ASSUME OneKindOfCrash', "power" \in faults' PROVE PowerInv'
  BY <1>5 DEF CacheInv, TypeOK, LockInv, Locked, WorkInv, CalmInv, PowerInv, OneKindOfCrash, Loadable
<1>6. ASSUME OneKindOfCrash', "power" \notin faults' PROVE \A f \in finished' : manifest'[f] # Missing
  BY <1>6 DEF CacheInv, TypeOK, WorkInv, CalmInv, OneKindOfCrash, Loadable
<1> QED BY <1>1, <1>2, <1>3, <1>4, <1>5, <1>6 DEF CacheInv

(* Syncing both directories only removes what a power loss may leave.      *)
LEMMA PurgeKeeps ==
  ASSUME CacheInv, NEW p \in Procs, Purge(p)
  PROVE  CacheInv'
<1> USE CacheAssumption DEF Purge, Goto, Take, Drop, Leave, files, NoWork, PutManifest, PutBlob, SyncManifests, SyncBlobs
<1>1. TypeOK'
  BY DEF CacheInv, TypeOK, Steps
<1>2. LockInv'
  BY DEF CacheInv, TypeOK, LockInv, Locked
<1>3. WorkInv'
  BY DEF CacheInv, TypeOK, WorkInv
<1>4. ASSUME OneKindOfCrash' PROVE CalmInv'
  BY <1>4 DEF CacheInv, TypeOK, LockInv, Locked, WorkInv, CalmInv, OneKindOfCrash, Loadable
<1>5. ASSUME OneKindOfCrash', "power" \in faults' PROVE PowerInv'
  BY <1>5 DEF CacheInv, TypeOK, LockInv, Locked, WorkInv, CalmInv, PowerInv, OneKindOfCrash, Loadable
<1>6. ASSUME OneKindOfCrash', "power" \notin faults' PROVE \A f \in finished' : manifest'[f] # Missing
  BY <1>6 DEF CacheInv, TypeOK, WorkInv, CalmInv, OneKindOfCrash, Loadable
<1> QED BY <1>1, <1>2, <1>3, <1>4, <1>5, <1>6 DEF CacheInv

(* The blob appears whole, not yet synced; only its writer knows it.       *)
LEMMA WriteBlobKeeps ==
  ASSUME CacheInv, NEW p \in Procs, WriteBlob(p)
  PROVE  CacheInv'
<1> USE CacheAssumption DEF WriteBlob, Goto, Take, Drop, Leave, files, NoWork, PutManifest, PutBlob, SyncManifests, SyncBlobs
<1>1. TypeOK'
  BY DEF CacheInv, TypeOK, Steps
<1>2. LockInv'
  BY DEF CacheInv, TypeOK, LockInv, Locked
<1>3. WorkInv'
  BY DEF CacheInv, TypeOK, WorkInv
<1>4. ASSUME OneKindOfCrash' PROVE CalmInv'
  BY <1>4 DEF CacheInv, TypeOK, LockInv, Locked, WorkInv, CalmInv, OneKindOfCrash, Loadable
<1>5. ASSUME OneKindOfCrash', "power" \in faults' PROVE PowerInv'
  BY <1>5 DEF CacheInv, TypeOK, LockInv, Locked, WorkInv, CalmInv, PowerInv, OneKindOfCrash, Loadable
<1>6. ASSUME OneKindOfCrash', "power" \notin faults' PROVE \A f \in finished' : manifest'[f] # Missing
  BY <1>6 DEF CacheInv, TypeOK, WorkInv, CalmInv, OneKindOfCrash, Loadable
<1> QED BY <1>1, <1>2, <1>3, <1>4, <1>5, <1>6 DEF CacheInv

(* From here on a power loss leaves the blob where it is.                  *)
LEMMA SyncBlobKeeps ==
  ASSUME CacheInv, NEW p \in Procs, SyncBlob(p)
  PROVE  CacheInv'
<1> USE CacheAssumption DEF SyncBlob, Goto, Take, Drop, Leave, files, NoWork, PutManifest, PutBlob, SyncManifests, SyncBlobs
<1>1. TypeOK'
  BY DEF CacheInv, TypeOK, Steps
<1>2. LockInv'
  BY DEF CacheInv, TypeOK, LockInv, Locked
<1>3. WorkInv'
  BY DEF CacheInv, TypeOK, WorkInv
<1>4. ASSUME OneKindOfCrash' PROVE CalmInv'
  BY <1>4 DEF CacheInv, TypeOK, LockInv, Locked, WorkInv, CalmInv, OneKindOfCrash, Loadable
<1>5. ASSUME OneKindOfCrash', "power" \in faults' PROVE PowerInv'
  BY <1>5 DEF CacheInv, TypeOK, LockInv, Locked, WorkInv, CalmInv, PowerInv, OneKindOfCrash, Loadable
<1>6. ASSUME OneKindOfCrash', "power" \notin faults' PROVE \A f \in finished' : manifest'[f] # Missing
  BY <1>6 DEF CacheInv, TypeOK, WorkInv, CalmInv, OneKindOfCrash, Loadable
<1> QED BY <1>1, <1>2, <1>3, <1>4, <1>5, <1>6 DEF CacheInv

(* The manifest names a blob that is there and synced.                     *)
LEMMA WriteManifestKeeps ==
  ASSUME CacheInv, NEW p \in Procs, WriteManifest(p)
  PROVE  CacheInv'
<1> USE CacheAssumption DEF WriteManifest, Goto, Take, Drop, Leave, files, NoWork, PutManifest, PutBlob, SyncManifests, SyncBlobs
<1>1. TypeOK'
  BY DEF CacheInv, TypeOK, WorkInv, Steps
<1>2. LockInv'
  BY DEF CacheInv, TypeOK, LockInv, Locked
<1>3. WorkInv'
  BY DEF CacheInv, TypeOK, WorkInv
<1>4. ASSUME OneKindOfCrash' PROVE CalmInv'
  BY <1>4 DEF CacheInv, TypeOK, LockInv, Locked, WorkInv, CalmInv, OneKindOfCrash, Loadable
<1>5. ASSUME OneKindOfCrash', "power" \in faults' PROVE PowerInv'
  BY <1>5 DEF CacheInv, TypeOK, LockInv, Locked, WorkInv, CalmInv, PowerInv, OneKindOfCrash, Loadable
<1>6. ASSUME OneKindOfCrash', "power" \notin faults' PROVE \A f \in finished' : manifest'[f] # Missing
  BY <1>6 DEF CacheInv, TypeOK, WorkInv, CalmInv, OneKindOfCrash, Loadable
<1> QED BY <1>1, <1>2, <1>3, <1>4, <1>5, <1>6 DEF CacheInv

(* publish returns: the manifest cannot be lost any more.                  *)
LEMMA SyncManifestKeeps ==
  ASSUME CacheInv, NEW p \in Procs, SyncManifest(p)
  PROVE  CacheInv'
<1> USE CacheAssumption DEF SyncManifest, Goto, Take, Drop, Leave, files, NoWork, PutManifest, PutBlob, SyncManifests, SyncBlobs
<1>1. TypeOK'
  BY DEF CacheInv, TypeOK, WorkInv, Steps
<1>2. LockInv'
  BY DEF CacheInv, TypeOK, LockInv, Locked
<1>3. WorkInv'
  BY DEF CacheInv, TypeOK, WorkInv
<1>4. ASSUME OneKindOfCrash' PROVE CalmInv'
  BY <1>4 DEF CacheInv, TypeOK, LockInv, Locked, WorkInv, CalmInv, OneKindOfCrash, Loadable
<1>5. ASSUME OneKindOfCrash', "power" \in faults' PROVE PowerInv'
  BY <1>5 DEF CacheInv, TypeOK, LockInv, Locked, WorkInv, CalmInv, PowerInv, OneKindOfCrash, Loadable
<1>6. ASSUME OneKindOfCrash', "power" \notin faults' PROVE \A f \in finished' : manifest'[f] # Missing
  BY <1>6 DEF CacheInv, TypeOK, WorkInv, CalmInv, OneKindOfCrash, Loadable
<1> QED BY <1>1, <1>2, <1>3, <1>4, <1>5, <1>6 DEF CacheInv

(* A process dies alone: the lock is freed, the files stay as they are.    *)
LEMMA FailKeeps ==
  ASSUME CacheInv, NEW p \in Procs, Fail(p)
  PROVE  CacheInv'
<1> USE CacheAssumption DEF Fail, Goto, Take, Drop, Leave, files, NoWork, PutManifest, PutBlob, SyncManifests, SyncBlobs
<1>1. TypeOK'
  BY DEF CacheInv, TypeOK, Steps
<1>2. LockInv'
  BY DEF CacheInv, TypeOK, LockInv, Locked
<1>3. WorkInv'
  BY DEF CacheInv, TypeOK, WorkInv
<1>4. ASSUME OneKindOfCrash' PROVE CalmInv'
  BY <1>4 DEF CacheInv, TypeOK, LockInv, Locked, WorkInv, CalmInv, OneKindOfCrash, Loadable
<1>5. ASSUME OneKindOfCrash', "power" \in faults' PROVE PowerInv'
  BY <1>5 DEF CacheInv, TypeOK, LockInv, Locked, WorkInv, CalmInv, PowerInv, OneKindOfCrash, Loadable
<1>6. ASSUME OneKindOfCrash', "power" \notin faults' PROVE \A f \in finished' : manifest'[f] # Missing
  BY <1>6 DEF CacheInv, TypeOK, WorkInv, CalmInv, OneKindOfCrash, Loadable
<1> QED BY <1>1, <1>2, <1>3, <1>4, <1>5, <1>6 DEF CacheInv

(* A lifecycle begins outside the lock.                                    *)
LEMMA BeginKeeps ==
  ASSUME CacheInv, NEW p \in Procs, NEW f \in Fingerprints, Begin(p, f)
  PROVE  CacheInv'
<1> USE CacheAssumption DEF Begin, Goto, files, NoWork
<1>1. TypeOK'
  BY DEF CacheInv, TypeOK, Steps
<1>2. LockInv'
  BY DEF CacheInv, TypeOK, LockInv, Locked
<1>3. WorkInv'
  BY DEF CacheInv, TypeOK, WorkInv
<1>4. ASSUME OneKindOfCrash' PROVE CalmInv'
  BY <1>4 DEF CacheInv, TypeOK, CalmInv, OneKindOfCrash, Loadable
<1>5. ASSUME OneKindOfCrash', "power" \in faults' PROVE PowerInv'
  <2>1. PowerInv /\ pc[p] = "idle"
    BY <1>5 DEF CacheInv, OneKindOfCrash
  <2>2. \A q \in Procs : pc[q] \in {"syncBlob", "name", "syncName"} => pc'[q] = pc[q] /\ work'[q] = work[q]
    BY <2>1 DEF CacheInv, TypeOK
  <2>3. \A q \in Procs : pc'[q] \in {"name", "syncName"} => pc[q] = pc'[q]
    BY <2>1 DEF CacheInv, TypeOK
  <2>4. UNCHANGED <<manifest, manifestMay, blob, blobMay, finished>>
    OBVIOUS
  <2> HIDE DEF Begin
  <2> QED BY <2>1, <2>2, <2>3, <2>4 DEF PowerInv
<1>6. ASSUME OneKindOfCrash', "power" \notin faults' PROVE \A g \in finished' : manifest'[g] # Missing
  BY <1>6 DEF CacheInv, OneKindOfCrash
<1> QED BY <1>1, <1>2, <1>3, <1>4, <1>5, <1>6 DEF CacheInv

(* After a loss of power there is only what was synced, or was not but     *)
(* happens to be there; with PowerInv, that is enough for every manifest.  *)
LEMMA PowerLossKeeps ==
  ASSUME CacheInv, PowerLoss
  PROVE  CacheInv'
<1> USE CacheAssumption DEF PowerLoss, NoWork
<1>1. TypeOK'
  <2>1. manifest' \in [Fingerprints -> Contents \cup {Missing, Garbage}]
    <3>1. \A f \in Fingerprints : manifest'[f] \in Contents \cup {Missing, Garbage}
      BY DEF CacheInv, TypeOK
    <3> QED BY <3>1
  <2>2. blob' \in [Contents -> {Missing, "intact", "damaged"}]
    <3>1. \A c \in Contents : blob'[c] \in {Missing, "intact", "damaged"}
      BY DEF CacheInv, TypeOK
    <3> QED BY <3>1
  <2>3. /\ manifestMay' \in [Fingerprints -> SUBSET (Contents \cup {Missing, Garbage})]
        /\ blobMay' \in [Contents -> SUBSET {Missing, "intact", "damaged"}]
    BY <2>1, <2>2
  <2>4. /\ lock' \in Procs \cup {Nobody} /\ pc' \in [Procs -> Steps]
        /\ finished' \in SUBSET Fingerprints /\ faults' \in FaultPlans
    BY DEF CacheInv, TypeOK, Steps
  <2>5. work' \in [Procs -> WorkSet]
    BY DEF WorkSet
  <2> QED BY <2>1, <2>2, <2>3, <2>4, <2>5 DEF TypeOK, WorkSet
<1>2. LockInv'
  BY DEF LockInv, Locked
<1>3. WorkInv'
  BY DEF WorkInv
<1>4. ASSUME OneKindOfCrash' PROVE CalmInv' /\ PowerInv'
  <2>1. CalmInv /\ PowerInv
    BY <1>4 DEF CacheInv, OneKindOfCrash
  <2>2. \A c \in Contents : blob'[c] \in blobMay[c] /\ blob'[c] # "damaged"
    BY <2>1 DEF PowerInv
  <2>3. \A f \in Fingerprints : manifest'[f] # Missing =>
          manifest'[f] \in Contents /\ blob'[manifest'[f]] = "intact"
    BY <2>1, <2>2 DEF PowerInv
  <2>4. /\ \A f \in Fingerprints : manifestMay'[f] = {manifest'[f]}
        /\ \A c \in Contents : blobMay'[c] = {blob'[c]}
        /\ \A p \in Procs : pc'[p] = "idle"
    OBVIOUS
  <2>5. \A f \in finished' : Missing \notin manifestMay'[f]
    BY <2>1, <2>4 DEF PowerInv, CacheInv, TypeOK
  <2>6. CalmInv'
    BY <2>2, <2>3, <2>4 DEF CalmInv, Loadable
  <2>7. PowerInv'
    <3> HIDE DEF PowerLoss
    <3>1. \A c \in Contents : blob'[c] \in blobMay'[c] /\ "damaged" \notin blobMay'[c]
      BY <2>2, <2>4
    <3>2. \A f \in Fingerprints : manifest'[f] \in manifestMay'[f]
      BY <2>4
    <3>3. \A f \in Fingerprints : \A v \in manifestMay'[f] :
            v # Missing => v \in Contents /\ blobMay'[v] = {"intact"}
      BY <2>3, <2>4
    <3>4. \A c \in Contents : blob'[c] = "intact" => blobMay'[c] = {"intact"}
      BY <2>4
    <3> QED BY <3>1, <3>2, <3>3, <3>4, <2>4, <2>5 DEF PowerInv
  <2> QED BY <2>6, <2>7
<1> QED BY <1>1, <1>2, <1>3, <1>4 DEF CacheInv

(* Files rot in plans of faults of which the properties say nothing.       *)
LEMMA SpoilKeeps ==
  ASSUME CacheInv, NEW c \in Contents, Spoil(c)
  PROVE  CacheInv'
<1> USE DEF Spoil
<1>1. TypeOK'
  BY DEF CacheInv, TypeOK
<1>2. LockInv' /\ WorkInv' /\ ~OneKindOfCrash'
  BY DEF CacheInv, LockInv, WorkInv, OneKindOfCrash
<1> QED BY <1>1, <1>2 DEF CacheInv

LEMMA SpoilManifestKeeps ==
  ASSUME CacheInv, NEW f \in Fingerprints, SpoilManifest(f)
  PROVE  CacheInv'
<1> USE DEF SpoilManifest
<1>1. TypeOK'
  BY DEF CacheInv, TypeOK
<1>2. LockInv' /\ WorkInv' /\ ~OneKindOfCrash'
  BY DEF CacheInv, LockInv, WorkInv, OneKindOfCrash
<1> QED BY <1>1, <1>2 DEF CacheInv

(* Publication and loading by any number of processes keep the invariant,  *)
(* with one kind of crash at any of their steps.                           *)
THEOREM CacheInvariant == Spec => []CacheInv
<1>1. CacheInv /\ [Next]_vars => CacheInv'
  <2> SUFFICES ASSUME CacheInv, [Next]_vars PROVE CacheInv'
    OBVIOUS
  <2>1. ASSUME NEW p \in Procs, NEW f \in Fingerprints, Begin(p, f) PROVE CacheInv'
    BY <2>1, BeginKeeps
  <2>2. ASSUME NEW p \in Procs, Progress(p) PROVE CacheInv'
    BY <2>2, LoadKeeps, RunLoaderKeeps, LoaderFailsKeeps, CondemnKeeps, CondemnBlobKeeps,
       CondemnSyncKeeps, AdmitKeeps, SaveKeeps, PublishKeeps, PurgeKeeps, WriteBlobKeeps,
       SyncBlobKeeps, WriteManifestKeeps, SyncManifestKeeps DEF Progress
  <2>3. ASSUME NEW p \in Procs, Fail(p) PROVE CacheInv'
    BY <2>3, FailKeeps
  <2>4. CASE PowerLoss
    BY <2>4, PowerLossKeeps
  <2>5. ASSUME NEW c \in Contents, Spoil(c) PROVE CacheInv'
    BY <2>5, SpoilKeeps
  <2>6. ASSUME NEW f \in Fingerprints, SpoilManifest(f) PROVE CacheInv'
    BY <2>6, SpoilManifestKeeps
  <2>7. CASE UNCHANGED vars
    BY <2>7 DEF vars, CacheInv, TypeOK, LockInv, WorkInv, CalmInv, PowerInv, OneKindOfCrash, Loadable
  <2> QED BY <2>1, <2>2, <2>3, <2>4, <2>5, <2>6, <2>7 DEF Next
<1> QED BY <1>1, InitCache, PTL DEF Spec

(* No manifest names a blob that is not there whole, whichever processes   *)
(* died or wherever the power went (publish).                              *)
THEOREM ManifestsNeverDangle == Spec => []NoDanglingManifest
<1>1. CacheInv => NoDanglingManifest
  BY DEF CacheInv, CalmInv, NoDanglingManifest
<1> QED BY <1>1, CacheInvariant, PTL

(* What publish has returned for stays loadable through any later crash of *)
(* that kind.                                                              *)
THEOREM PublishedStaysLoadable == Spec => []PublicationsLast
<1>1. CacheInv => PublicationsLast
  <2> SUFFICES ASSUME CacheInv, OneKindOfCrash, NEW f \in finished PROVE Loadable(f)
    BY DEF PublicationsLast
  <2>1. f \in Fingerprints /\ manifest[f] # Missing
    BY DEF CacheInv, TypeOK, PowerInv
  <2> QED BY <2>1 DEF CacheInv, CalmInv
<1> QED BY <1>1, CacheInvariant, PTL
=============================================================================
