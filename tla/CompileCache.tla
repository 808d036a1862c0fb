---------------------------- MODULE CompileCache ----------------------------
(***************************************************************************)
(* The persistent compile cache of Qwen2.5-VL (compile_cache.py).          *)
(* Processes share a directory: a manifest per execution fingerprint names *)
(* a content-addressed blob, which several manifests may share.            *)
(* Every change of it happens under one file lock (flock), which the       *)
(* operating system frees when its holder dies.  The model keeps the       *)
(* files, what a power loss may make of names that are not synced yet, and *)
(* where each process is in its compilation lifecycle.                     *)
(***************************************************************************)
EXTENDS Naturals, FiniteSets

CONSTANTS
  Procs,         \* processes; one compiles at a time in each (_PROCESS_COMPILE_LOCK)
  Fingerprints,  \* execution fingerprints
  Contents,      \* the artifacts a compilation may produce, named by their SHA256
  FaultPlans,    \* sets of "crash", "power", "rot" and "loader": which faults come together
  Nobody, Missing, Garbage, NoBlob

ASSUME CacheAssumption ==
  /\ Nobody \notin Procs
  /\ Missing \notin Contents \cup {"intact", "damaged"}
  /\ Garbage \notin Contents \cup {Missing}
  /\ NoBlob \notin Contents
  /\ FaultPlans \subseteq SUBSET {"crash", "power", "rot", "loader"}

VARIABLES
  manifest,      \* the manifest of each fingerprint: the blob it names
  manifestMay,   \* what a power loss may leave of it
  blob,          \* each blob file: Missing, "intact" or "damaged"
  blobMay,       \* what a power loss may leave of it
  lock,          \* the process that holds the file lock
  pc,            \* where each process is in compilation_lifecycle
  work,          \* its fingerprint, its blob, and whether the load succeeded
  finished,      \* history: fingerprints whose publish has returned
  faults         \* the kinds of faults this behavior may have

files == <<manifest, manifestMay, blob, blobMay>>
vars == <<manifest, manifestMay, blob, blobMay, lock, pc, work, finished, faults>>

Steps == {"idle", "load", "loader", "condemn", "condemnBlob", "condemnSync", "compile",
          "publish", "purge", "write", "syncBlob", "name", "syncName"}
NoWork == [fp |-> Missing, sha |-> NoBlob, loaded |-> FALSE, moved |-> FALSE]

TypeOK ==
  /\ manifest \in [Fingerprints -> Contents \cup {Missing, Garbage}]
  /\ manifestMay \in [Fingerprints -> SUBSET (Contents \cup {Missing, Garbage})]
  /\ blob \in [Contents -> {Missing, "intact", "damaged"}]
  /\ blobMay \in [Contents -> SUBSET {Missing, "intact", "damaged"}]
  /\ lock \in Procs \cup {Nobody}
  /\ pc \in [Procs -> Steps]
  /\ work \in [Procs -> [fp : Fingerprints \cup {Missing}, sha : Contents \cup {NoBlob},
                         loaded : BOOLEAN, moved : BOOLEAN]]
  /\ finished \in SUBSET Fingerprints
  /\ faults \in FaultPlans

Init ==
  /\ manifest = [f \in Fingerprints |-> Missing]
  /\ manifestMay = [f \in Fingerprints |-> {Missing}]
  /\ blob = [c \in Contents |-> Missing]
  /\ blobMay = [c \in Contents |-> {Missing}]
  /\ lock = Nobody
  /\ pc = [p \in Procs |-> "idle"]
  /\ work = [p \in Procs |-> NoWork]
  /\ finished = {}
  /\ faults \in FaultPlans

-----------------------------------------------------------------------------
(* Files.  os.replace is atomic but durable only once its directory is     *)
(* synced: until then a power loss may leave what was there before.        *)

PutManifest(f, value) ==
  /\ manifest' = [manifest EXCEPT ![f] = value]
  /\ manifestMay' = [manifestMay EXCEPT ![f] = @ \cup {value}]

PutBlob(c, value) ==
  /\ blob' = [blob EXCEPT ![c] = value]
  /\ blobMay' = [blobMay EXCEPT ![c] = @ \cup {value}]

SyncManifests == manifestMay' = [f \in Fingerprints |-> {manifest[f]}]
SyncBlobs == blobMay' = [c \in Contents |-> {blob[c]}]

Goto(p, label) == pc' = [pc EXCEPT ![p] = label]

Take(p) == lock = Nobody /\ lock' = p
Drop == lock' = Nobody

(* The lifecycle of p ends, with the file lock released if p held it.      *)
Leave(p) ==
  /\ Goto(p, "idle")
  /\ work' = [work EXCEPT ![p] = NoWork]
  /\ lock' = IF lock = p THEN Nobody ELSE lock

-----------------------------------------------------------------------------
(* compilation_lifecycle begins.                                           *)

Begin(p, f) ==
  /\ pc[p] = "idle"
  /\ Goto(p, "load")
  /\ work' = [work EXCEPT ![p] = [NoWork EXCEPT !.fp = f]]
  /\ UNCHANGED <<files, lock, finished, faults>>

(* _load_exact, the part under the file lock.  It only reads, so it is one *)
(* step; a manifest that cannot be used is remembered, with its blob if    *)
(* that was named, and the lock is released.                               *)
Load(p) ==
  LET named == manifest[work[p].fp] IN
  /\ pc[p] = "load"
  /\ lock = Nobody
  /\ \/ /\ named = Missing
        /\ Goto(p, "compile")
        /\ UNCHANGED work
     \/ /\ named = Garbage
        /\ Goto(p, "condemn")
        /\ UNCHANGED work
     \/ /\ named \in Contents
        /\ Goto(p, IF blob[named] = "intact" THEN "loader" ELSE "condemn")
        /\ work' = [work EXCEPT ![p].sha = named]
  /\ UNCHANGED <<files, lock, finished, faults>>

(* torch.compiler.load_cache_artifacts, outside the file lock.             *)
RunLoader(p) ==
  /\ pc[p] = "loader"
  /\ Goto(p, "compile")
  /\ work' = [work EXCEPT ![p].loaded = TRUE]
  /\ UNCHANGED <<files, lock, finished, faults>>

LoaderFails(p) ==
  /\ pc[p] = "loader"
  /\ Goto(p, "condemn")
  /\ "loader" \in faults
  /\ UNCHANGED <<files, lock, work, finished, faults>>

(* _quarantine_locked, with the lock taken anew: the manifest is moved     *)
(* away, then the blob, whatever they hold by now.                         *)
Condemn(p) ==
  LET f == work[p].fp IN
  /\ pc[p] = "condemn"
  /\ Take(p)
  /\ IF manifest[f] = Missing
     THEN UNCHANGED <<files, work>>
     ELSE /\ PutManifest(f, Missing)
          /\ work' = [work EXCEPT ![p].moved = TRUE]
          /\ UNCHANGED <<blob, blobMay>>
  /\ Goto(p, "condemnBlob")
  /\ UNCHANGED <<finished, faults>>

CondemnBlob(p) ==
  LET c == work[p].sha IN
  /\ pc[p] = "condemnBlob"
  /\ IF c = NoBlob \/ blob[c] = Missing
     THEN UNCHANGED <<files, work>>
     ELSE /\ PutBlob(c, Missing)
          /\ work' = [work EXCEPT ![p].moved = TRUE]
          /\ UNCHANGED <<manifest, manifestMay>>
  /\ Goto(p, "condemnSync")
  /\ UNCHANGED <<lock, finished, faults>>

CondemnSync(p) ==
  /\ pc[p] = "condemnSync"
  /\ IF work[p].moved THEN SyncManifests /\ SyncBlobs ELSE UNCHANGED <<manifestMay, blobMay>>
  /\ Drop
  /\ Goto(p, "compile")
  /\ work' = [work EXCEPT ![p] = [NoWork EXCEPT !.fp = work[p].fp]]
  /\ UNCHANGED <<manifest, blob, finished, faults>>

-----------------------------------------------------------------------------
(* The compilation and publish.  A compilation that used what was loaded   *)
(* is admitted and publishes nothing; any other saves its artifacts.       *)

Admit(p) ==
  /\ pc[p] = "compile"
  /\ work[p].loaded
  /\ Leave(p)
  /\ UNCHANGED <<files, finished, faults>>

Save(p) ==
  /\ pc[p] = "compile"
  /\ \E c \in Contents : work' = [work EXCEPT ![p].sha = c]
  /\ Goto(p, "publish")
  /\ UNCHANGED <<files, lock, finished, faults>>

(* A blob of that name is kept if it is intact, and moved away if not.     *)
Publish(p) ==
  LET c == work[p].sha IN
  /\ pc[p] = "publish"
  /\ Take(p)
  /\ IF blob[c] = "damaged"
     THEN PutBlob(c, Missing) /\ Goto(p, "purge")
     ELSE /\ Goto(p, IF blob[c] = "intact" THEN "name" ELSE "write")
          /\ UNCHANGED <<blob, blobMay>>
  /\ UNCHANGED <<manifest, manifestMay, work, finished, faults>>

Purge(p) ==
  /\ pc[p] = "purge"
  /\ SyncManifests /\ SyncBlobs
  /\ Goto(p, "write")
  /\ UNCHANGED <<manifest, blob, lock, work, finished, faults>>

(* The temporary file is written and synced before it is renamed, so the   *)
(* blob appears whole.                                                     *)
WriteBlob(p) ==
  /\ pc[p] = "write"
  /\ PutBlob(work[p].sha, "intact")
  /\ Goto(p, "syncBlob")
  /\ UNCHANGED <<manifest, manifestMay, lock, work, finished, faults>>

(* Mutant: the directory of the blobs is not synced.                       *)
SyncBlobNever(p) ==
  /\ pc[p] = "syncBlob"
  /\ Goto(p, "name")
  /\ UNCHANGED <<files, lock, work, finished, faults>>

SyncBlob(p) ==
  /\ pc[p] = "syncBlob"
  /\ SyncBlobs
  /\ Goto(p, "name")
  /\ UNCHANGED <<manifest, manifestMay, blob, lock, work, finished, faults>>

WriteManifest(p) ==
  /\ pc[p] = "name"
  /\ PutManifest(work[p].fp, work[p].sha)
  /\ Goto(p, "syncName")
  /\ UNCHANGED <<blob, blobMay, lock, work, finished, faults>>

(* Mutant: publish returns without syncing the directory of the manifests. *)
SyncManifestNever(p) ==
  /\ pc[p] = "syncName"
  /\ finished' = finished \cup {work[p].fp}
  /\ Leave(p)
  /\ UNCHANGED <<files, faults>>

SyncManifest(p) ==
  /\ pc[p] = "syncName"
  /\ SyncManifests
  /\ finished' = finished \cup {work[p].fp}
  /\ Leave(p)
  /\ UNCHANGED <<manifest, blob, blobMay, faults>>

-----------------------------------------------------------------------------
(* Faults.                                                                 *)

(* The compiler, the disk or the saver raises, and the exception leaves    *)
(* the lifecycle through its finally clauses; or the process is killed and *)
(* the operating system closes its files.  A temporary file that is left   *)
(* is never looked at again.                                               *)
Fail(p) ==
  /\ "crash" \in faults
  /\ pc[p] # "idle"
  /\ Leave(p)
  /\ UNCHANGED <<files, finished, faults>>

PowerLoss ==
  /\ manifest' \in [Fingerprints -> UNION {manifestMay[f] : f \in Fingerprints}]
  /\ \A f \in Fingerprints : manifest'[f] \in manifestMay[f]
  /\ blob' \in [Contents -> UNION {blobMay[c] : c \in Contents}]
  /\ \A c \in Contents : blob'[c] \in blobMay[c]
  /\ manifestMay' = [f \in Fingerprints |-> {manifest'[f]}]
  /\ blobMay' = [c \in Contents |-> {blob'[c]}]
  /\ lock' = Nobody
  /\ pc' = [p \in Procs |-> "idle"]
  /\ work' = [p \in Procs |-> NoWork]
  /\ "power" \in faults
  /\ UNCHANGED <<finished, faults>>

Spoil(c) ==
  /\ blob[c] = "intact"
  /\ blob' = [blob EXCEPT ![c] = "damaged"]
  /\ blobMay' = [blobMay EXCEPT ![c] = (@ \ {"intact"}) \cup {"damaged"}]
  /\ "rot" \in faults
  /\ UNCHANGED <<manifest, manifestMay, lock, pc, work, finished, faults>>

SpoilManifest(f) ==
  /\ manifest[f] \in Contents
  /\ manifest' = [manifest EXCEPT ![f] = Garbage]
  /\ manifestMay' = [manifestMay EXCEPT ![f] = (@ \ Contents) \cup {Garbage}]
  /\ "rot" \in faults
  /\ UNCHANGED <<blob, blobMay, lock, pc, work, finished, faults>>

-----------------------------------------------------------------------------
Progress(p) ==
  \/ Load(p) \/ RunLoader(p) \/ LoaderFails(p)
  \/ Condemn(p) \/ CondemnBlob(p) \/ CondemnSync(p)
  \/ Admit(p) \/ Save(p)
  \/ Publish(p) \/ Purge(p) \/ WriteBlob(p) \/ SyncBlob(p) \/ WriteManifest(p) \/ SyncManifest(p)

Next ==
  \/ \E p \in Procs :
       \/ \E f \in Fingerprints : Begin(p, f)
       \/ Progress(p) \/ Fail(p)
  \/ PowerLoss
  \/ \E c \in Contents : Spoil(c)
  \/ \E f \in Fingerprints : SpoilManifest(f)

Spec == Init /\ [][Next]_vars

-----------------------------------------------------------------------------
(* Properties.                                                             *)

Loadable(f) == manifest[f] \in Contents /\ blob[manifest[f]] = "intact"

(* Processes that fail or die at any step, or else losses of power, and no *)
(* files that rot or loaders that fail.  (Both together can lose a blob:   *)
(* one process dies before it syncs the blob, another finds the file and   *)
(* only syncs its manifest.  The next load then quarantines the entry.)    *)
OneKindOfCrash == faults \subseteq {"crash"} \/ faults \subseteq {"power"}

(* A manifest never names a blob that is not there whole, at whatever step *)
(* of publish the processes, or the machine, have stopped.                 *)
NoDanglingManifest ==
  OneKindOfCrash => \A f \in Fingerprints : manifest[f] # Missing => Loadable(f)

(* What publish has published can be loaded from then on: no crash and no  *)
(* other process takes it away.                                            *)
PublicationsLast == OneKindOfCrash => \A f \in finished : Loadable(f)
=============================================================================
