---------------------------- MODULE VaultStorage ----------------------------
(***************************************************************************)
(* The vault with its encrypted chunk files.  Request threads and command  *)
(* line processes (Worker) share one metadata database and one blob        *)
(* directory.  A metadata transaction is atomic, but what a method does to *)
(* blobs happens before, after or between its transactions:                *)
(*                                                                         *)
(*   import_file     puts every chunk with no lock, then one transaction   *)
(*   upload_chunk    puts its chunk inside a transaction                   *)
(*   commit_upload   reads every chunk inside its transaction              *)
(*   collect_garbage lists ref_count = 0 with no lock, unlinks the first   *)
(*                   blob with no lock, the others inside a transaction    *)
(*   collect_orphan_blobs  two queries, a directory listing and the        *)
(*                   unlinks, all with no lock                             *)
(*                                                                         *)
(* put and delete of one blob are single steps: put writes a temporary     *)
(* file and renames it, and equal chunk ids have equal plaintext.          *)
(***************************************************************************)
EXTENDS VaultCatalog

CONSTANTS Worker, NoWorker, NoKey

ASSUME StorageAssumption ==
  NoWorker \notin Worker /\ NoKey \notin Key /\ MaxChunks > 0

VARIABLES blobs,   \* chunk ids with a file in the blob directory
          lock,    \* holder of SQLite's write lock across several steps
          worker   \* what each worker is doing

storageVars == <<catalogVars, blobs, lock, worker>>

Writing == {"put", "record", "verify"}

Collecting == {"refs", "opens", "list", "unlink", "scan", "gcUnlink", "gcRow"}

WorkerRow == [pc : {"idle"} \cup Writing \cup Collecting,
              path : Path \cup {NoPath}, content : Content, key : Key \cup {NoKey},
              at : 1..(MaxChunks + 1), todo : SUBSET Chunk, seen : SUBSET Chunk]

Idle == [pc |-> "idle", path |-> NoPath, content |-> <<>>, key |-> NoKey,
         at |-> 1, todo |-> {}, seen |-> {}]

Unlocked == lock = NoWorker

Become(w, row) == worker' = [worker EXCEPT ![w] = row]

Referenced == {c \in Chunk : c \in chunkRows /\ refCount[c] > 0}

Recorded(k) == {sessions[k].rows[i] : i \in 1..MaxChunks} \ {NoChunk}

-----------------------------------------------------------------------------
StorageInit ==
  /\ Init
  /\ blobs = {}
  /\ lock = NoWorker
  /\ worker = [w \in Worker |-> Idle]

-----------------------------------------------------------------------------
(* import_file *)

StartImport(w, p, content) ==
  /\ worker[w].pc = "idle"
  /\ Become(w, [Idle EXCEPT !.pc = "put", !.path = p, !.content = content])
  /\ UNCHANGED <<catalogVars, blobs, lock>>

PutNext(w) ==
  /\ worker[w].pc = "put"
  /\ worker[w].at \in DOMAIN worker[w].content
  /\ blobs' = blobs \cup {worker[w].content[worker[w].at]}
  /\ Become(w, [worker[w] EXCEPT !.at = @ + 1])
  /\ UNCHANGED <<catalogVars, lock>>

PublishImport(w) ==
  /\ worker[w].pc = "put"
  /\ worker[w].at \notin DOMAIN worker[w].content
  /\ Unlocked
  /\ \/ ImportFile(worker[w].path, worker[w].content)
     \/ /\ HeadIs(worker[w].path, worker[w].content)
        /\ UNCHANGED catalogVars
  /\ Become(w, Idle)
  /\ UNCHANGED <<blobs, lock>>

-----------------------------------------------------------------------------
(* upload_chunk and commit_upload *)

\* Under the lock, a chunk with no row yet is put; a recorded ordinal is
\* answered "deduplicated" with no look at the blob, which changes nothing.
BeginChunk(w, k, i, c) ==
  /\ worker[w].pc = "idle"
  /\ Unlocked
  /\ Accepts(k)
  /\ i <= sessions[k].size
  /\ sessions[k].rows[i] = NoChunk
  /\ blobs' = blobs \cup {c}
  /\ lock' = w
  /\ Become(w, [Idle EXCEPT !.pc = "record", !.key = k, !.at = i, !.content = [j \in {1} |-> c]])
  /\ UNCHANGED catalogVars

RecordChunk(w) ==
  /\ worker[w].pc = "record"
  /\ UploadChunk(worker[w].key, worker[w].at, worker[w].content[1])
  /\ lock' = NoWorker
  /\ Become(w, Idle)
  /\ UNCHANGED blobs

\* Bound: random ids never run out in the code, so no commit starts here that
\* would find none left.
IdsLeft(p) ==
  /\ \E v \in VersionId : versions[v].status = "free"
  /\ LiveAt(p) # {} \/ \E f \in FileId : files[f].status = "free"

BeginCommit(w, k) ==
  /\ worker[w].pc = "idle"
  /\ Unlocked
  /\ Accepts(k)
  /\ IsComplete(k)
  /\ HeadIs(sessions[k].path, Uploaded(k)) \/ IdsLeft(sessions[k].path)
  /\ lock' = w
  /\ Become(w, [Idle EXCEPT !.pc = "verify", !.key = k])
  /\ UNCHANGED <<catalogVars, blobs>>

\* No rollback after a missing blob: the connection keeps its transaction.
VerifyKeepsLock_mutant(w) ==
  LET k == worker[w].key
      i == worker[w].at
  IN /\ worker[w].pc = "verify"
     /\ i <= sessions[k].size
     /\ IF sessions[k].rows[i] \in blobs
        THEN Become(w, [worker[w] EXCEPT !.at = @ + 1])
        ELSE Become(w, Idle)
     /\ UNCHANGED <<catalogVars, blobs, lock>>

\* The chunks are trusted without reading them back.
VerifyBlindly_mutant(w) ==
  /\ worker[w].pc = "verify"
  /\ worker[w].at <= sessions[worker[w].key].size
  /\ Become(w, [worker[w] EXCEPT !.at = @ + 1])
  /\ UNCHANGED <<catalogVars, blobs, lock>>

\* A missing blob is an IntegrityError: the transaction rolls back.
VerifyNext(w) ==
  LET k == worker[w].key
      i == worker[w].at
  IN /\ worker[w].pc = "verify"
     /\ i <= sessions[k].size
     /\ IF sessions[k].rows[i] \in blobs
        THEN Become(w, [worker[w] EXCEPT !.at = @ + 1]) /\ UNCHANGED lock
        ELSE Become(w, Idle) /\ lock' = NoWorker
     /\ UNCHANGED <<catalogVars, blobs>>

FinishCommit(w) ==
  /\ worker[w].pc = "verify"
  /\ worker[w].at > sessions[worker[w].key].size
  /\ CommitUpload(worker[w].key)
  /\ lock' = NoWorker
  /\ Become(w, Idle)
  /\ UNCHANGED blobs

-----------------------------------------------------------------------------
(* abort_upload, cleanup_uploads and the collect_orphan_blobs they end with *)

Abort(w, k) ==
  /\ worker[w].pc = "idle"
  /\ Unlocked
  /\ \/ AbortUpload(k)
     \/ sessions[k].state \in {"aborted", "expired"} /\ UNCHANGED catalogVars
  /\ Become(w, [Idle EXCEPT !.pc = "refs"])
  /\ UNCHANGED <<blobs, lock>>

Cleanup(w) ==
  /\ worker[w].pc = "idle"
  /\ Unlocked
  /\ \/ CleanupUploads
     \/ /\ ~\E k \in Key : sessions[k].state = "open" /\ sessions[k].overdue
        /\ UNCHANGED catalogVars
  /\ Become(w, [Idle EXCEPT !.pc = "refs"])
  /\ UNCHANGED <<blobs, lock>>

\* Only the chunks of what can be seen are kept, not those of older versions.
SelectVisible_mutant(w) ==
  /\ worker[w].pc = "refs"
  /\ Become(w, [worker[w] EXCEPT !.pc = "opens", !.seen =
                  UNION {Range(versions[files[f].current].chunks) :
                           f \in {g \in FileId : files[g].status = "live"}}])
  /\ UNCHANGED <<catalogVars, blobs, lock>>

SelectReferenced(w) ==
  /\ worker[w].pc = "refs"
  /\ Become(w, [worker[w] EXCEPT !.pc = "opens", !.seen = Referenced])
  /\ UNCHANGED <<catalogVars, blobs, lock>>

SelectOpenChunks(w) ==
  /\ worker[w].pc = "opens"
  /\ Become(w, [worker[w] EXCEPT !.pc = "list", !.seen = @ \cup
                  UNION {Recorded(k) : k \in {j \in Key : sessions[j].state = "open"}}])
  /\ UNCHANGED <<catalogVars, blobs, lock>>

\* The worker is done when its list is empty.
Unlinking(w, pc, todo) ==
  Become(w, IF todo = {} THEN Idle ELSE [worker[w] EXCEPT !.pc = pc, !.todo = todo])

ListOrphans(w) ==
  /\ worker[w].pc = "list"
  /\ Unlinking(w, "unlink", blobs \ worker[w].seen)
  /\ UNCHANGED <<catalogVars, blobs, lock>>

\* The sweep ends after its first blob.
UnlinkOne_mutant(w) ==
  /\ worker[w].pc = "unlink"
  /\ \E c \in worker[w].todo : blobs' = blobs \ {c}
  /\ Become(w, Idle)
  /\ UNCHANGED <<catalogVars, lock>>

UnlinkOrphan(w) ==
  /\ worker[w].pc = "unlink"
  /\ \E c \in worker[w].todo :
       /\ blobs' = blobs \ {c}
       /\ Unlinking(w, "unlink", worker[w].todo \ {c})
  /\ UNCHANGED <<catalogVars, lock>>

-----------------------------------------------------------------------------
(* purge_file and the collect_garbage it ends with, also a command itself *)

Purge(w, p) ==
  /\ worker[w].pc = "idle"
  /\ Unlocked
  /\ PurgeFile(p)
  /\ Become(w, [Idle EXCEPT !.pc = "scan"])
  /\ UNCHANGED <<blobs, lock>>

StartGc(w) ==
  /\ worker[w].pc = "idle"
  /\ Become(w, [Idle EXCEPT !.pc = "scan"])
  /\ UNCHANGED <<catalogVars, blobs, lock>>

SelectZero(w) ==
  /\ worker[w].pc = "scan"
  /\ Unlinking(w, "gcUnlink", chunkRows \ Referenced)
  /\ UNCHANGED <<catalogVars, blobs, lock>>

\* The blob goes first, its row second; content remembers which.
UnlinkZero(w) ==
  /\ worker[w].pc = "gcUnlink"
  /\ \E c \in worker[w].todo :
       /\ blobs' = blobs \ {c}
       /\ Become(w, [worker[w] EXCEPT !.pc = "gcRow", !.content = [j \in {1} |-> c]])
  /\ UNCHANGED <<catalogVars, lock>>

\* The row is deleted whatever has become of its count.
DeleteUnchecked_mutant(w) ==
  LET c == worker[w].content[1]
      left == worker[w].todo \ {c}
      dropped == worker[w].seen \cup {c}
  IN /\ worker[w].pc = "gcRow"
     /\ lock \in {NoWorker, w}
     /\ \/ /\ left # {}
           /\ lock' = w
           /\ Become(w, [worker[w] EXCEPT !.pc = "gcUnlink", !.content = <<>>,
                                          !.todo = left, !.seen = dropped])
           /\ UNCHANGED chunkRows
        \/ /\ left = {}
           /\ lock' = NoWorker
           /\ Become(w, Idle)
           /\ chunkRows' = chunkRows \ dropped
     /\ UNCHANGED <<files, versions, refCount, sessions, dirs, clock, blobs>>

\* DELETE ... AND ref_count = 0.  The first one takes the write lock, the
\* commit after the last one applies them and drops the lock; seen collects
\* the rows this transaction has deleted so far.
DeleteZeroRow(w) ==
  LET c == worker[w].content[1]
      left == worker[w].todo \ {c}
      dropped == worker[w].seen \cup ({c} \ Referenced)
  IN /\ worker[w].pc = "gcRow"
     /\ lock \in {NoWorker, w}
     /\ \/ /\ left # {}
           /\ lock' = w
           /\ Become(w, [worker[w] EXCEPT !.pc = "gcUnlink", !.content = <<>>,
                                          !.todo = left, !.seen = dropped])
           /\ UNCHANGED chunkRows
        \/ /\ left = {}
           /\ lock' = NoWorker
           /\ Become(w, Idle)
           /\ chunkRows' = chunkRows \ dropped
     /\ UNCHANGED <<files, versions, refCount, sessions, dirs, clock, blobs>>

-----------------------------------------------------------------------------
(* A worker dies, or gives up waiting for the lock ("database is locked"): *)
(* its open transaction rolls back and its other effects stay.             *)
Fail(w) ==
  /\ worker[w].pc # "idle"
  /\ Become(w, Idle)
  /\ lock' = IF lock = w THEN NoWorker ELSE lock
  /\ UNCHANGED <<catalogVars, blobs>>

-----------------------------------------------------------------------------
(* Methods that touch no blob: one transaction of any thread. *)
Transaction ==
  /\ Unlocked
  /\ \/ \E p \in Path : DeleteFile(p) \/ RestoreFile(p)
     \/ \E p \in Path, v \in VersionId : RestoreVersion(p, v)
     \/ \E p, q \in Path : MoveFile(p, q)
     \/ \E S \in SUBSET Path : \E to \in [S -> Path] : MoveFiles(S, to)
     \/ \E d \in Dir : CreateDirectory(d)
     \/ \E k \in Key, p \in Path, n \in 0..MaxChunks : CreateUpload(k, p, n)
     \/ \E k \in Key : ExpireOverdue(k)
  /\ UNCHANGED <<blobs, lock, worker>>

\* expires_at is compared once, when a transaction on the session begins, and
\* only such transactions compare it: a deadline that passes while one holds
\* the lock is as good as passing when it ends.
Passing ==
  /\ \/ Tick
     \/ \E k \in Key :
          /\ \A w \in Worker : worker[w].key # k
          /\ DeadlinePasses(k)
  /\ UNCHANGED <<blobs, lock, worker>>

Start(w) ==
  \/ \E p \in Path, content \in Content : StartImport(w, p, content)
  \/ \E k \in Key, i \in 1..MaxChunks, c \in Chunk : BeginChunk(w, k, i, c)
  \/ \E k \in Key : BeginCommit(w, k) \/ Abort(w, k)
  \/ \E p \in Path : Purge(w, p)
  \/ Cleanup(w)
  \/ StartGc(w)

\* What a worker that has started goes on to do.
Continue(w) ==
  \/ PutNext(w) \/ PublishImport(w)
  \/ RecordChunk(w)
  \/ VerifyNext(w) \/ FinishCommit(w)
  \/ SelectReferenced(w) \/ SelectOpenChunks(w) \/ ListOrphans(w) \/ UnlinkOrphan(w)
  \/ SelectZero(w) \/ UnlinkZero(w) \/ DeleteZeroRow(w)

StorageNext ==
  \/ Transaction
  \/ Passing
  \/ \E w \in Worker : Start(w) \/ Continue(w) \/ Fail(w)

StorageSpec == StorageInit /\ [][StorageNext]_storageVars

-----------------------------------------------------------------------------
(* Operating rule: no import or upload step is in flight while a collector *)
(* runs.  Nothing in the code enforces it; QuietSpec is the vault under an *)
(* operator who does.                                                      *)
Quiet ==
  \A w, x \in Worker :
    ~(worker[w].pc \in Writing /\ worker[x].pc \in Collecting)

QuietNext == StorageNext /\ Quiet'

QuietSpec == StorageInit /\ [][QuietNext]_storageVars

-----------------------------------------------------------------------------
(* Properties *)

StorageTypeOK ==
  /\ TypeOK
  /\ blobs \subseteq Chunk
  /\ lock \in Worker \cup {NoWorker}
  /\ worker \in [Worker -> WorkerRow]

\* Every chunk some version uses, visible, historic or in the trash, has its
\* blob.
StoredIfReferenced == \A c \in Chunk : refCount[c] > 0 => c \in blobs

\* At each of its steps the vault does to its metadata one whole transaction
\* or nothing, whatever steps on blobs it is cut into, and a row deletion of
\* collect_garbage never takes a chunk that was referenced again meanwhile.
ImplementsCatalog == Spec

\* A finished orphan sweep leaves no blob but those its two queries found
\* referenced or recorded by an open upload.
SweepComplete ==
  [][\A w \in Worker :
       worker[w].pc = "unlink" /\ worker'[w].pc = "idle" /\ blobs' # blobs
         => blobs' \subseteq worker[w].seen]_storageVars

\* A worker that took the write lock gives it back: it never waits for
\* anything while it holds it.
LockReleased == \A w \in Worker : lock = w ~> lock # w

\* Each worker is a thread of a running process: what it started goes on
\* unless it fails, and the lock is not needed to continue when it is held.
FairStorageSpec == StorageSpec /\ \A w \in Worker : WF_storageVars(Continue(w))

\* An upload session's recorded chunks are stored as long as it is open, so
\* that sending the chunks it has no record of completes it.
RecordedChunksStored ==
  \A k \in Key : sessions[k].state = "open" => Recorded(k) \subseteq blobs

\* collect_garbage unlinks only blobs of chunks no version uses.
GcKeepsReferenced ==
  [][\A w \in Worker : worker[w].pc = "gcUnlink" /\ worker'[w].pc = "gcRow"
       => \A c \in blobs \ blobs' : c \notin Referenced]_storageVars

\* The sweep of orphan blobs unlinks only blobs of chunks no version uses.
SweepKeepsReferenced ==
  [][\A w \in Worker : worker[w].pc = "unlink" /\ worker'[w] # worker[w]
       => \A c \in blobs \ blobs' : c \notin Referenced]_storageVars
=============================================================================
