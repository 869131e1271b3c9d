------------------------- MODULE VaultStorageProofs -------------------------
(***************************************************************************)
(* VaultStorage implements VaultCatalog, and under the quiet rule it loses *)
(* no referenced chunk: proved for any number of workers, with the blobs,  *)
(* the lock and every step of a method between its transactions.           *)
(***************************************************************************)
EXTENDS VaultStorage, VaultStoreProofs

\* What a worker in the middle of a method relies on: whoever has written to
\* the database and not committed holds the lock, and the rows collect_garbage
\* has deleted so far are still without references.
MidMethod(w) ==
  LET r == worker[w] IN
  /\ r.pc = "put" => r.path \in Path
  /\ r.pc = "record" =>
       lock = w /\ r.key \in Key /\ r.at \in 1..MaxChunks /\ r.content[1] \in Chunk
  /\ r.pc = "verify" => lock = w /\ r.key \in Key
  /\ r.pc = "scan" => r.seen = {}
  /\ r.pc = "gcRow" => r.content[1] \in Chunk
  /\ r.pc \in {"gcUnlink", "gcRow"} =>
       /\ r.seen # {} => lock = w
       /\ \A c \in r.seen : refCount[c] = 0

StorageRows ==
  /\ blobs \subseteq Chunk
  /\ lock \in Worker \cup {NoWorker}
  /\ worker \in [Worker -> WorkerRow]

StorageInv ==
  /\ CatalogInv
  /\ StorageRows
  /\ \A w \in Worker : MidMethod(w)

-----------------------------------------------------------------------------
(* Frames *)

\* A worker that holds the lock, or finds it free, does not disturb the others:
\* one of them that relies on the lock holds it.
LEMMA OthersKeep ==
  ASSUME StorageInv, NEW w \in Worker, NEW row \in WorkerRow, Become(w, row),
         lock' = lock \/ (lock \in {NoWorker, w} /\ lock' \in {NoWorker, w}),
         refCount' = refCount \/ lock \in {NoWorker, w}
  PROVE  /\ worker' \in [Worker -> WorkerRow]
         /\ worker'[w] = row
         /\ \A x \in Worker \ {w} : worker'[x] = worker[x] /\ MidMethod(x)'
<1>1. worker' \in [Worker -> WorkerRow] /\ worker'[w] = row
  BY DEF Become, StorageInv, StorageRows
<1>2. ASSUME NEW x \in Worker, x # w
      PROVE  worker'[x] = worker[x] /\ MidMethod(x)'
  <2>1. worker'[x] = worker[x]
    BY <1>2 DEF Become, StorageInv, StorageRows
  <2>2. lock = x => lock' = x /\ refCount' = refCount
    BY <1>2, StorageAssumption DEF StorageAssumption
  <2>3. MidMethod(x)
    BY <1>2 DEF StorageInv
  <2>4. CASE lock = x
    BY <2>1, <2>2, <2>3, <2>4 DEF MidMethod
  <2>5. CASE lock # x
    <3>1. ~(worker[x].pc \in {"record", "verify"})
      BY <2>3, <2>5 DEF MidMethod
    <3>2. worker[x].pc \in {"gcUnlink", "gcRow"} => worker[x].seen = {}
      BY <2>3, <2>5 DEF MidMethod
    <3>3. QED
      BY <2>1, <2>3, <3>1, <3>2 DEF MidMethod
  <2>6. QED
    BY <2>1, <2>4, <2>5
<1>3. QED
  BY <1>1, <1>2

\* So a step of one worker preserves the invariant if its own row is in order.
LEMMA WorkerStep ==
  ASSUME StorageInv, NEW w \in Worker, NEW row \in WorkerRow, Become(w, row),
         lock' = lock \/ (lock \in {NoWorker, w} /\ lock' \in {NoWorker, w}),
         refCount' = refCount \/ lock \in {NoWorker, w},
         [Next]_catalogVars, blobs' \subseteq Chunk,
         worker'[w] = row => MidMethod(w)'
  PROVE  StorageInv'
<1>1. CatalogInv'
  BY CatalogNextInv DEF StorageInv
<1>2. /\ worker' \in [Worker -> WorkerRow]
      /\ worker'[w] = row
      /\ \A x \in Worker \ {w} : MidMethod(x)'
  BY OthersKeep
<1>3. lock' \in Worker \cup {NoWorker}
  BY DEF StorageInv, StorageRows
<1>4. QED
  BY <1>1, <1>2, <1>3 DEF StorageInv, StorageRows

\* An idle worker relies on nothing.
LEMMA IdleRow == Idle \in WorkerRow /\ Idle.pc = "idle"
<1>1. 1 \in 1..(MaxChunks + 1)
  BY CatalogAssumption DEF CatalogAssumption
<1>2. QED
  BY <1>1, EmptyContent DEF Idle, WorkerRow

\* A content of one chunk, as upload_chunk and collect_garbage carry it.
LEMMA OneChunk ==
  ASSUME NEW c \in Chunk
  PROVE  [j \in {1} |-> c] \in Content /\ [j \in {1} |-> c][1] = c
<1>1. 1 \in 0..MaxChunks /\ {1} = 1..1
  BY CatalogAssumption, StorageAssumption DEF CatalogAssumption, StorageAssumption
<1>2. [j \in {1} |-> c] \in [1..1 -> Chunk]
  BY <1>1
<1>3. QED
  BY <1>1, <1>2 DEF Content

-----------------------------------------------------------------------------
(* import_file *)

\* Starting an import only notes what to import.
LEMMA StartImportStep ==
  ASSUME StorageInv, NEW w \in Worker, NEW p \in Path, NEW content \in Content,
         StartImport(w, p, content)
  PROVE  StorageInv' /\ [Next]_catalogVars
<1> DEFINE row == [Idle EXCEPT !.pc = "put", !.path = p, !.content = content]
<1>1. row \in WorkerRow /\ row.pc = "put" /\ row.path = p
  BY IdleRow DEF Idle, WorkerRow, Writing
<1>2. Become(w, row) /\ lock' = lock /\ UNCHANGED catalogVars /\ blobs' = blobs
  BY DEF StartImport
<1>3. refCount' = refCount /\ [Next]_catalogVars /\ blobs' \subseteq Chunk
  BY <1>2 DEF catalogVars, StorageInv, StorageRows
<1>4. worker'[w] = row => MidMethod(w)'
  BY <1>1 DEF MidMethod
<1> HIDE DEF row
<1>5. QED
  BY <1>1, <1>2, <1>3, <1>4, WorkerStep

\* Putting a chunk stays within the content.
LEMMA PutNextStep ==
  ASSUME StorageInv, NEW w \in Worker, PutNext(w)
  PROVE  StorageInv' /\ [Next]_catalogVars
<1> DEFINE r == worker[w]
           row == [r EXCEPT !.at = @ + 1]
<1>1. r \in WorkerRow /\ r.pc = "put" /\ r.path \in Path
  BY DEF PutNext, StorageInv, StorageRows, MidMethod
<1>2. r.content \in Content /\ r.at \in DOMAIN r.content
  BY <1>1 DEF PutNext, WorkerRow
<1>3. r.content[r.at] \in Chunk /\ r.at \in 1..MaxChunks
  BY <1>2, ContentShape
<1>4. row \in WorkerRow /\ row.pc = "put" /\ row.path \in Path
  BY <1>1, <1>3, CatalogAssumption DEF WorkerRow, CatalogAssumption
<1>5. Become(w, row) /\ lock' = lock /\ UNCHANGED catalogVars /\ blobs' \subseteq Chunk
  BY <1>3 DEF PutNext, StorageInv, StorageRows
<1>6. refCount' = refCount /\ [Next]_catalogVars
  BY <1>5 DEF catalogVars
<1>7. worker'[w] = row => MidMethod(w)'
  BY <1>4 DEF MidMethod
<1> HIDE DEF row
<1>8. QED
  BY <1>4, <1>5, <1>6, <1>7, WorkerStep

\* Becoming idle again is always in order.
LEMMA BecomeIdle ==
  ASSUME StorageInv, NEW w \in Worker, Become(w, Idle),
         lock' = lock \/ (lock \in {NoWorker, w} /\ lock' \in {NoWorker, w}),
         refCount' = refCount \/ lock \in {NoWorker, w},
         [Next]_catalogVars, blobs' \subseteq Chunk
  PROVE  StorageInv'
<1>1. worker'[w] = Idle => MidMethod(w)'
  BY IdleRow DEF MidMethod
<1>2. QED
  BY <1>1, IdleRow, WorkerStep

\* Publishing an import is ImportFile of the catalog, or nothing.
LEMMA PublishImportStep ==
  ASSUME StorageInv, NEW w \in Worker, PublishImport(w)
  PROVE  StorageInv' /\ [Next]_catalogVars
<1>1. worker[w].path \in Path /\ worker[w].content \in Content
  BY DEF PublishImport, StorageInv, StorageRows, MidMethod, WorkerRow
<1>2. [Next]_catalogVars
  BY <1>1 DEF PublishImport, Next
<1>3. QED
  BY <1>2, BecomeIdle DEF PublishImport, Unlocked, StorageInv, StorageRows

-----------------------------------------------------------------------------
(* upload_chunk and commit_upload *)

\* Beginning a chunk takes the lock.
LEMMA BeginChunkStep ==
  ASSUME StorageInv, NEW w \in Worker, NEW k \in Key, NEW i \in 1..MaxChunks, NEW c \in Chunk,
         BeginChunk(w, k, i, c)
  PROVE  StorageInv' /\ [Next]_catalogVars
<1> DEFINE row == [Idle EXCEPT !.pc = "record", !.key = k, !.at = i, !.content = [j \in {1} |-> c]]
<1>1. i \in 1..(MaxChunks + 1)
  BY CatalogAssumption DEF CatalogAssumption
<1>2. /\ row \in WorkerRow
      /\ row.pc = "record" /\ row.key = k /\ row.at = i /\ row.content[1] = c
  BY <1>1, IdleRow, OneChunk DEF Idle, WorkerRow, Writing
<1>3. Become(w, row) /\ lock = NoWorker /\ lock' = w /\ UNCHANGED catalogVars /\ blobs' \subseteq Chunk
  BY DEF BeginChunk, Unlocked, StorageInv, StorageRows
<1>4. refCount' = refCount /\ [Next]_catalogVars
  BY <1>3 DEF catalogVars
<1>5. worker'[w] = row => MidMethod(w)'
  BY <1>2, <1>3 DEF MidMethod
<1> HIDE DEF row
<1>6. QED
  BY <1>2, <1>3, <1>4, <1>5, WorkerStep

\* Recording a chunk is UploadChunk of the catalog.
LEMMA RecordChunkStep ==
  ASSUME StorageInv, NEW w \in Worker, RecordChunk(w)
  PROVE  StorageInv' /\ [Next]_catalogVars
<1>1. /\ lock = w /\ worker[w].key \in Key /\ worker[w].at \in 1..MaxChunks
      /\ worker[w].content[1] \in Chunk
  BY DEF RecordChunk, StorageInv, MidMethod
<1>2. [Next]_catalogVars
  BY <1>1 DEF RecordChunk, Next
<1>3. QED
  BY <1>1, <1>2, BecomeIdle DEF RecordChunk, StorageInv, StorageRows

\* Beginning a commit takes the lock.
LEMMA BeginCommitStep ==
  ASSUME StorageInv, NEW w \in Worker, NEW k \in Key, BeginCommit(w, k)
  PROVE  StorageInv' /\ [Next]_catalogVars
<1> DEFINE row == [Idle EXCEPT !.pc = "verify", !.key = k]
<1>1. row \in WorkerRow /\ row.pc = "verify" /\ row.key = k
  BY IdleRow DEF Idle, WorkerRow, Writing
<1>2. Become(w, row) /\ lock = NoWorker /\ lock' = w /\ UNCHANGED catalogVars /\ blobs' \subseteq Chunk
  BY DEF BeginCommit, Unlocked, StorageInv, StorageRows
<1>3. refCount' = refCount /\ [Next]_catalogVars
  BY <1>2 DEF catalogVars
<1>4. worker'[w] = row => MidMethod(w)'
  BY <1>1, <1>2 DEF MidMethod
<1> HIDE DEF row
<1>5. QED
  BY <1>1, <1>2, <1>3, <1>4, WorkerStep

\* Verifying a chunk moves on, or rolls back and gives the lock back.
LEMMA VerifyNextStep ==
  ASSUME StorageInv, NEW w \in Worker, VerifyNext(w)
  PROVE  StorageInv' /\ [Next]_catalogVars
<1> DEFINE r == worker[w]
           row == [r EXCEPT !.at = @ + 1]
<1>1. r \in WorkerRow /\ r.pc = "verify" /\ r.key \in Key /\ lock = w
  BY DEF VerifyNext, StorageInv, StorageRows, MidMethod
<1>2. sessions[r.key].size \in 0..MaxChunks
  BY <1>1 DEF StorageInv, CatalogInv, TypeOK, SessionRow
<1>3. r.at + 1 \in 1..(MaxChunks + 1)
  BY <1>1, <1>2, CatalogAssumption DEF VerifyNext, WorkerRow, CatalogAssumption
<1>4. row \in WorkerRow /\ row.pc = "verify" /\ row.key \in Key
  BY <1>1, <1>3 DEF WorkerRow
<1>5. UNCHANGED catalogVars /\ blobs' \subseteq Chunk
  BY DEF VerifyNext, StorageInv, StorageRows
<1>6. refCount' = refCount /\ [Next]_catalogVars
  BY <1>5 DEF catalogVars
<1>7. CASE Become(w, row) /\ lock' = lock
  <2>1. worker'[w] = row => MidMethod(w)'
    BY <1>1, <1>4, <1>7 DEF MidMethod
  <2> HIDE DEF row
  <2>2. QED
    BY <1>4, <1>5, <1>6, <1>7, <2>1, WorkerStep
<1>8. CASE Become(w, Idle) /\ lock' = NoWorker
  BY <1>1, <1>5, <1>6, <1>8, BecomeIdle
<1>9. QED
  BY <1>6, <1>7, <1>8 DEF VerifyNext

\* Finishing a commit is CommitUpload of the catalog.
LEMMA FinishCommitStep ==
  ASSUME StorageInv, NEW w \in Worker, FinishCommit(w)
  PROVE  StorageInv' /\ [Next]_catalogVars
<1>1. lock = w /\ worker[w].key \in Key
  BY DEF FinishCommit, StorageInv, MidMethod
<1>2. [Next]_catalogVars
  BY <1>1 DEF FinishCommit, Next
<1>3. QED
  BY <1>1, <1>2, BecomeIdle DEF FinishCommit, StorageInv, StorageRows

-----------------------------------------------------------------------------
(* Collectors *)

\* A step of a collector that keeps database, lock and rows deleted so far.
LEMMA CollectorStep ==
  ASSUME StorageInv, NEW w \in Worker, NEW row \in WorkerRow, Become(w, row),
         row.pc \in {"refs", "opens", "list", "unlink"},
         lock' = lock, refCount' = refCount, [Next]_catalogVars, blobs' \subseteq Chunk
  PROVE  StorageInv'
<1>1. worker'[w] = row => MidMethod(w)'
  BY DEF MidMethod
<1>2. QED
  BY <1>1, WorkerStep

\* abort_upload and cleanup_uploads are transactions of the catalog, or nothing.
LEMMA AbortStep ==
  ASSUME StorageInv, NEW w \in Worker, (\E k \in Key : Abort(w, k)) \/ Cleanup(w)
  PROVE  StorageInv' /\ [Next]_catalogVars
<1> DEFINE row == [Idle EXCEPT !.pc = "refs"]
<1>1. row \in WorkerRow /\ row.pc = "refs"
  BY IdleRow DEF Idle, WorkerRow, Collecting
<1>2. [Next]_catalogVars /\ refCount' = refCount
  BY DEF Abort, Cleanup, AbortUpload, SetSession, CleanupUploads, Next, catalogVars
<1>3. Become(w, row) /\ lock' = lock /\ blobs' \subseteq Chunk
  BY DEF Abort, Cleanup, StorageInv, StorageRows
<1> HIDE DEF row
<1>4. QED
  BY <1>1, <1>2, <1>3, CollectorStep

\* The two queries of the orphan sweep read.
LEMMA SweepQueryStep ==
  ASSUME StorageInv, NEW w \in Worker, SelectReferenced(w) \/ SelectOpenChunks(w)
  PROVE  StorageInv' /\ [Next]_catalogVars
<1> DEFINE r == worker[w]
           Found == UNION {Recorded(k) : k \in {j \in Key : sessions[j].state = "open"}}
<1>1. r \in WorkerRow
  BY DEF StorageInv, StorageRows
<1>2. Referenced \subseteq Chunk
  BY DEF Referenced
<1>3. Found \subseteq Chunk
  <2>1. ASSUME NEW k \in Key PROVE Recorded(k) \subseteq Chunk
    <3>1. sessions[k].rows \in [1..MaxChunks -> Chunk \cup {NoChunk}]
      BY DEF StorageInv, CatalogInv, TypeOK, SessionRow
    <3>2. QED
      BY <3>1 DEF Recorded
  <2>2. QED
    BY <2>1
<1>4. PICK row \in WorkerRow : Become(w, row) /\ row.pc \in {"opens", "list"}
  <2>1. CASE SelectReferenced(w)
    <3>1. [r EXCEPT !.pc = "opens", !.seen = Referenced] \in WorkerRow
      BY <1>1, <1>2 DEF WorkerRow, Collecting
    <3>2. [r EXCEPT !.pc = "opens", !.seen = Referenced].pc = "opens"
      BY <1>1 DEF WorkerRow
    <3>3. QED
      BY <2>1, <3>1, <3>2 DEF SelectReferenced
  <2>2. CASE SelectOpenChunks(w)
    <3>1. [r EXCEPT !.pc = "list", !.seen = @ \cup Found] \in WorkerRow
      BY <1>1, <1>3 DEF WorkerRow, Collecting
    <3>2. [r EXCEPT !.pc = "list", !.seen = @ \cup Found].pc = "list"
      BY <1>1 DEF WorkerRow
    <3>3. QED
      BY <2>2, <3>1, <3>2 DEF SelectOpenChunks
  <2>3. QED
    BY <2>1, <2>2
<1>5. UNCHANGED <<catalogVars, blobs, lock>>
  BY DEF SelectReferenced, SelectOpenChunks
<1>6. refCount' = refCount /\ [Next]_catalogVars /\ blobs' \subseteq Chunk
  BY <1>5 DEF catalogVars, StorageInv, StorageRows
<1>7. QED
  BY <1>4, <1>5, <1>6, CollectorStep

\* A worker with a list of blobs to unlink keeps its lock and its deletions.
LEMMA UnlinkingRow ==
  ASSUME StorageInv, NEW w \in Worker, NEW pc \in {"unlink", "gcUnlink"},
         NEW todo \in SUBSET Chunk, Unlinking(w, pc, todo)
  PROVE  \E row \in WorkerRow :
           /\ Become(w, row)
           /\ \/ row = Idle
              \/ row = [worker[w] EXCEPT !.pc = pc, !.todo = todo]
<1>1. [worker[w] EXCEPT !.pc = pc, !.todo = todo] \in WorkerRow
  BY DEF StorageInv, StorageRows, WorkerRow, Collecting
<1>2. QED
  BY <1>1, IdleRow DEF Unlinking

\* Listing the directory, and unlinking what the queries did not name.
LEMMA SweepUnlinkStep ==
  ASSUME StorageInv, NEW w \in Worker, ListOrphans(w) \/ UnlinkOrphan(w)
  PROVE  StorageInv' /\ [Next]_catalogVars
<1>1. worker[w] \in WorkerRow
  BY DEF StorageInv, StorageRows
<1>2. PICK todo \in SUBSET Chunk : Unlinking(w, "unlink", todo)
  BY <1>1 DEF ListOrphans, UnlinkOrphan, StorageInv, StorageRows, WorkerRow
<1>3. PICK row \in WorkerRow : /\ Become(w, row)
                               /\ \/ row = Idle
                                  \/ row = [worker[w] EXCEPT !.pc = "unlink", !.todo = todo]
  BY <1>2, UnlinkingRow
<1>4. UNCHANGED <<catalogVars, lock>> /\ blobs' \subseteq Chunk
  BY DEF ListOrphans, UnlinkOrphan, StorageInv, StorageRows
<1>5. refCount' = refCount /\ [Next]_catalogVars
  BY <1>4 DEF catalogVars
<1>6. row = Idle \/ row.pc = "unlink"
  BY <1>1, <1>3 DEF WorkerRow
<1>7. QED
  BY <1>3, <1>4, <1>5, <1>6, BecomeIdle, CollectorStep

\* purge_file is PurgeFile of the catalog.
LEMMA PurgeStep ==
  ASSUME StorageInv, NEW w \in Worker, (\E p \in Path : Purge(w, p)) \/ StartGc(w)
  PROVE  StorageInv' /\ [Next]_catalogVars
<1> DEFINE row == [Idle EXCEPT !.pc = "scan"]
<1>1. row \in WorkerRow /\ row.pc = "scan" /\ row.seen = {}
  BY IdleRow DEF Idle, WorkerRow, Collecting
<1>2. [Next]_catalogVars
  BY DEF Purge, StartGc, Next
<1>3. Become(w, row) /\ lock' = lock /\ blobs' \subseteq Chunk
  BY DEF Purge, StartGc, StorageInv, StorageRows
<1>4. refCount' = refCount \/ lock = NoWorker
  BY DEF Purge, StartGc, Unlocked, catalogVars
<1>5. worker'[w] = row => MidMethod(w)'
  BY <1>1 DEF MidMethod
<1> HIDE DEF row
<1>6. QED
  BY <1>1, <1>2, <1>3, <1>4, <1>5, WorkerStep

\* A collector that has deleted nothing yet and one that has keep what they
\* deleted: only the holder of the lock could reference it again.
LEMMA GcRow ==
  ASSUME StorageInv, NEW w \in Worker, NEW row \in WorkerRow, Become(w, row),
         row.pc \in {"gcUnlink", "gcRow"},
         row.pc = "gcRow" => row.content[1] \in Chunk,
         row.seen # {} => lock' = w,
         \A c \in row.seen : refCount[c] = 0,
         lock' = lock \/ (lock \in {NoWorker, w} /\ lock' \in {NoWorker, w}),
         refCount' = refCount, [Next]_catalogVars, blobs' \subseteq Chunk
  PROVE  StorageInv'
<1>1. worker'[w] = row => MidMethod(w)'
  BY DEF MidMethod
<1>2. QED
  BY <1>1, WorkerStep

\* Listing the chunks without references.
LEMMA SelectZeroStep ==
  ASSUME StorageInv, NEW w \in Worker, SelectZero(w)
  PROVE  StorageInv' /\ [Next]_catalogVars
<1> DEFINE row == [worker[w] EXCEPT !.pc = "gcUnlink", !.todo = chunkRows \ Referenced]
<1>1. worker[w] \in WorkerRow /\ worker[w].pc = "scan" /\ chunkRows \ Referenced \in SUBSET Chunk
  BY DEF SelectZero, StorageInv, StorageRows, CatalogInv, TypeOK
<1>2. UNCHANGED <<catalogVars, lock>> /\ blobs' \subseteq Chunk
  BY DEF SelectZero, StorageInv, StorageRows
<1>3. refCount' = refCount /\ [Next]_catalogVars
  BY <1>2 DEF catalogVars
<1>4. worker[w].seen = {}
  BY <1>1 DEF StorageInv, MidMethod
<1>5. row \in WorkerRow /\ row.pc = "gcUnlink" /\ row.seen = {}
  BY <1>1, <1>4 DEF WorkerRow, Collecting
<1>6. CASE Become(w, row)
  <2> HIDE DEF row
  <2>1. QED
    BY <1>2, <1>3, <1>5, <1>6, GcRow
<1>7. CASE Become(w, Idle)
  BY <1>2, <1>3, <1>7, BecomeIdle
<1>8. QED
  BY <1>3, <1>6, <1>7 DEF SelectZero, Unlinking

\* Unlinking a blob touches no row.
LEMMA UnlinkZeroStep ==
  ASSUME StorageInv, NEW w \in Worker, UnlinkZero(w)
  PROVE  StorageInv' /\ [Next]_catalogVars
<1>1. /\ worker[w] \in WorkerRow
      /\ worker[w].seen # {} => lock = w
      /\ \A c \in worker[w].seen : refCount[c] = 0
  BY DEF UnlinkZero, StorageInv, StorageRows, MidMethod
<1>2. PICK c \in worker[w].todo :
        Become(w, [worker[w] EXCEPT !.pc = "gcRow", !.content = [j \in {1} |-> c]])
  BY DEF UnlinkZero
<1> DEFINE row == [worker[w] EXCEPT !.pc = "gcRow", !.content = [j \in {1} |-> c]]
<1>3. c \in Chunk
  BY <1>1 DEF WorkerRow
<1>4. /\ row \in WorkerRow
      /\ row.pc = "gcRow" /\ row.content[1] = c /\ row.seen = worker[w].seen
  BY <1>1, <1>3, OneChunk DEF WorkerRow, Collecting
<1>5. UNCHANGED <<catalogVars, lock>> /\ blobs' \subseteq Chunk
  BY DEF UnlinkZero, StorageInv, StorageRows
<1>6. refCount' = refCount /\ [Next]_catalogVars
  BY <1>5 DEF catalogVars
<1> HIDE DEF row
<1>7. QED
  BY <1>1, <1>2, <1>3, <1>4, <1>5, <1>6, GcRow DEF row

\* Deleting rows is DropChunkRows of the catalog: everything in the list still
\* has no reference when the transaction commits.
LEMMA DeleteZeroRowStep ==
  ASSUME StorageInv, NEW w \in Worker, DeleteZeroRow(w)
  PROVE  StorageInv' /\ [Next]_catalogVars
<1> DEFINE c == worker[w].content[1]
           left == worker[w].todo \ {c}
           dropped == worker[w].seen \cup ({c} \ Referenced)
           row == [worker[w] EXCEPT !.pc = "gcUnlink", !.content = <<>>,
                                    !.todo = left, !.seen = dropped]
<1>1. /\ worker[w] \in WorkerRow /\ c \in Chunk
      /\ \A x \in worker[w].seen : refCount[x] = 0
  BY DEF DeleteZeroRow, StorageInv, StorageRows, MidMethod
<1>2. dropped \in SUBSET Chunk /\ left \in SUBSET Chunk
  BY <1>1 DEF WorkerRow
<1>3. \A x \in dropped : refCount[x] = 0
  <2>1. c \notin Referenced => refCount[c] = 0
    BY <1>1 DEF Referenced, StorageInv, CatalogInv, TypeOK, RefCountsExact
  <2>2. QED
    BY <1>1, <2>1
<1>4. /\ lock \in {NoWorker, w} /\ blobs' \subseteq Chunk
      /\ UNCHANGED <<files, versions, refCount, sessions, dirs, clock>>
  BY DEF DeleteZeroRow, StorageInv, StorageRows
<1>5. CASE lock' = w /\ Become(w, row) /\ UNCHANGED chunkRows
  <2>1. row \in WorkerRow /\ row.pc = "gcUnlink" /\ row.seen = dropped
    BY <1>1, <1>2, EmptyContent DEF WorkerRow, Collecting
  <2>2. [Next]_catalogVars
    BY <1>4, <1>5 DEF catalogVars
  <2> HIDE DEF row, dropped
  <2>3. QED
    BY <1>3, <1>4, <1>5, <2>1, <2>2, GcRow
<1>6. CASE lock' = NoWorker /\ Become(w, Idle) /\ chunkRows' = chunkRows \ dropped
  <2>1. DropChunkRows(dropped \cap chunkRows)
    BY <1>3, <1>4, <1>6 DEF DropChunkRows
  <2>2. dropped \cap chunkRows \in SUBSET Chunk
    BY <1>2
  <2>3. [Next]_catalogVars
    BY <2>1, <2>2 DEF Next
  <2>4. QED
    BY <1>4, <1>6, <2>3, BecomeIdle
<1>7. QED
  BY <1>5, <1>6 DEF DeleteZeroRow

-----------------------------------------------------------------------------
(* The specification *)

\* A worker that fails leaves the database as it was.
LEMMA FailStep ==
  ASSUME StorageInv, NEW w \in Worker, Fail(w)
  PROVE  StorageInv' /\ [Next]_catalogVars
<1>1. UNCHANGED catalogVars /\ blobs' \subseteq Chunk
  BY DEF Fail, StorageInv, StorageRows
<1>2. refCount' = refCount /\ [Next]_catalogVars
  BY <1>1 DEF catalogVars
<1>3. QED
  BY <1>1, <1>2, BecomeIdle DEF Fail

\* A transaction of any other thread needs the lock to be free.
LEMMA TransactionStep ==
  ASSUME StorageInv, Transaction \/ Passing
  PROVE  StorageInv' /\ [Next]_catalogVars
<1>1. [Next]_catalogVars
  BY DEF Transaction, Passing, Next
<1>2. UNCHANGED <<blobs, lock, worker>>
  BY DEF Transaction, Passing
<1>3. lock = NoWorker \/ refCount' = refCount
  BY DEF Transaction, Unlocked, Passing, Tick, DeadlinePasses, SetSession
<1>4. ASSUME NEW w \in Worker PROVE MidMethod(w)'
  <2>1. MidMethod(w)
    BY DEF StorageInv
  <2>2. lock = w => refCount' = refCount
    BY <1>3, StorageAssumption DEF StorageAssumption
  <2>3. QED
    BY <1>2, <2>1, <2>2 DEF MidMethod
<1>5. CatalogInv'
  BY <1>1, CatalogNextInv DEF StorageInv
<1>6. QED
  BY <1>1, <1>2, <1>4, <1>5 DEF StorageInv, StorageRows

\* Every step preserves the invariant and is a transaction of the catalog, or
\* changes none of its tables.
LEMMA StorageNextInv ==
  ASSUME StorageInv, [StorageNext]_storageVars
  PROVE  StorageInv' /\ [Next]_catalogVars
<1>1. CASE Transaction \/ Passing
  BY <1>1, TransactionStep
<1>2. ASSUME NEW w \in Worker, Start(w)
      PROVE  StorageInv' /\ [Next]_catalogVars
  BY <1>2, StartImportStep, BeginChunkStep, BeginCommitStep, AbortStep, PurgeStep DEF Start
<1>3. ASSUME NEW w \in Worker, Continue(w)
      PROVE  StorageInv' /\ [Next]_catalogVars
  BY <1>3, PutNextStep, PublishImportStep, RecordChunkStep, VerifyNextStep, FinishCommitStep,
     SweepQueryStep, SweepUnlinkStep, SelectZeroStep, UnlinkZeroStep, DeleteZeroRowStep
     DEF Continue
<1>4. ASSUME NEW w \in Worker, Fail(w)
      PROVE  StorageInv' /\ [Next]_catalogVars
  BY <1>4, FailStep
<1>5. CASE UNCHANGED storageVars
  <2>1. UNCHANGED catalogVars /\ UNCHANGED <<blobs, lock, worker>> /\ refCount' = refCount
    BY <1>5 DEF storageVars, catalogVars
  <2>2. CatalogInv'
    BY <2>1, CatalogNextInv DEF StorageInv
  <2>3. \A w \in Worker : MidMethod(w)'
    BY <2>1 DEF StorageInv, MidMethod
  <2>4. QED
    BY <2>1, <2>2, <2>3 DEF StorageInv, StorageRows
<1>6. QED
  BY <1>1, <1>2, <1>3, <1>4, <1>5 DEF StorageNext

\* A new vault has idle workers.
LEMMA StorageInitInv == StorageInit => StorageInv
<1> SUFFICES ASSUME StorageInit PROVE StorageInv
  OBVIOUS
<1>1. CatalogInv
  BY CatalogInitInv DEF StorageInit
<1>2. StorageRows
  BY IdleRow DEF StorageInit, StorageRows
<1>3. \A w \in Worker : MidMethod(w)
  BY IdleRow DEF StorageInit, MidMethod
<1>4. QED
  BY <1>1, <1>2, <1>3 DEF StorageInv

\* The invariant holds with blobs written, read and unlinked at any time.
THEOREM StorageSafe == StorageSpec => []StorageInv
<1>1. StorageInv /\ [StorageNext]_storageVars => StorageInv'
  BY StorageNextInv
<1>2. QED
  BY <1>1, StorageInitInv, PTL DEF StorageSpec

\* Types of the whole vault, with blobs, lock and workers.
THEOREM StorageTyped == StorageSpec => []StorageTypeOK
<1>1. StorageInv => StorageTypeOK
  BY DEF StorageInv, StorageRows, CatalogInv, StorageTypeOK
<1>2. QED
  BY <1>1, StorageSafe, PTL

\* The vault with its blobs, workers and failures implements the catalog: all
\* that is proved of the catalog holds of it, and a stale list of
\* collect_garbage deletes no row that is referenced.
THEOREM StorageImplementsCatalog == StorageSpec => ImplementsCatalog
<1>1. StorageInit => Init
  BY DEF StorageInit
<1>2. StorageInv /\ [StorageNext]_storageVars => [Next]_catalogVars
  BY StorageNextInv
<1>3. QED
  BY <1>1, <1>2, StorageSafe, PTL DEF StorageSpec, ImplementsCatalog, Spec

\* Seen as documents at paths, blobs on disk, streams between transactions,
\* crashed collectors and failing methods never show: each step of a worker is
\* one that a user asked for or changes nothing.
THEOREM StorageIsAStore == StorageSpec => ImplementsStore
<1>1. QED
  BY StorageImplementsCatalog, VaultIsAStore, PTL DEF ImplementsCatalog

-----------------------------------------------------------------------------
(* No collector runs while a writer is in the middle of a method. *)

\* What such schedules add: a writer's chunks are stored as far as it got, and
\* no collector has a referenced chunk on its list.
BlobsSafe(w) ==
  LET r == worker[w] IN
  /\ r.pc = "put" => \A i \in DOMAIN r.content : i < r.at => r.content[i] \in blobs
  /\ r.pc = "verify" =>
       \A i \in 1..sessions[r.key].size : i < r.at => sessions[r.key].rows[i] \in blobs
  /\ r.pc \in {"opens", "list"} => \A c \in Chunk : refCount[c] > 0 => c \in r.seen
  /\ r.pc \in {"unlink", "gcUnlink", "gcRow"} => \A c \in r.todo : refCount[c] = 0

QuietInv ==
  /\ StorageInv
  /\ Quiet
  /\ StoredIfReferenced
  /\ \A w \in Worker : BlobsSafe(w)

\* No chunk gets its first reference.
NoNewReference == \A c \in Chunk : refCount'[c] > 0 => refCount[c] > 0

\* The session whoever is verifying reads stays as it is.
VerifiedRowsKept(x) ==
  worker[x].pc = "verify" =>
    /\ sessions'[worker[x].key].size = sessions[worker[x].key].size
    /\ sessions'[worker[x].key].rows = sessions[worker[x].key].rows

\* Only a collector takes blobs from the others and only a writer gives a chunk
\* its first reference, so neither disturbs the other kind.
LEMMA QuietStep ==
  ASSUME QuietInv, StorageInv', Quiet', NEW w \in Worker, NEW row, Become(w, row),
         blobs \subseteq blobs' \/ worker[w].pc \in Collecting,
         NoNewReference \/ worker[w].pc \in Writing,
         \A x \in Worker \ {w} : VerifiedRowsKept(x),
         StoredIfReferenced',
         worker'[w] = row => BlobsSafe(w)'
  PROVE  QuietInv'
<1>1. /\ worker'[w] = row
      /\ \A x \in Worker \ {w} : worker'[x] = worker[x]
  BY DEF Become, QuietInv, StorageInv, StorageRows
<1>2. ASSUME NEW x \in Worker, x # w PROVE BlobsSafe(x)'
  <2>1. BlobsSafe(x) /\ worker'[x] = worker[x] /\ VerifiedRowsKept(x)
    BY <1>1, <1>2 DEF QuietInv
  <2>2. /\ worker[x].pc \in Writing => blobs \subseteq blobs'
        /\ worker[x].pc \in Collecting => NoNewReference
    BY DEF QuietInv, Quiet
  <2>3. /\ worker[x].pc \in {"put", "verify"} => blobs \subseteq blobs'
        /\ worker[x].pc \in {"opens", "list", "unlink", "gcUnlink", "gcRow"} => NoNewReference
    BY <2>2 DEF Writing, Collecting
  <2>4. refCount \in [Chunk -> Nat] /\ refCount' \in [Chunk -> Nat] /\ worker[x] \in WorkerRow
    BY DEF QuietInv, StorageInv, StorageRows, CatalogInv, TypeOK
  <2>5. worker[x].todo \subseteq Chunk
    BY <2>4 DEF WorkerRow
  <2>6. worker[x].pc = "put" =>
          \A i \in DOMAIN worker[x].content : i < worker[x].at => worker[x].content[i] \in blobs'
    BY <2>1, <2>3 DEF BlobsSafe
  <2>7. worker[x].pc = "verify" =>
          \A i \in 1..sessions'[worker[x].key].size :
            i < worker[x].at => sessions'[worker[x].key].rows[i] \in blobs'
    BY <2>1, <2>3 DEF BlobsSafe, VerifiedRowsKept
  <2>8. worker[x].pc \in {"opens", "list"} =>
          \A c \in Chunk : refCount'[c] > 0 => c \in worker[x].seen
    BY <2>1, <2>3 DEF BlobsSafe, NoNewReference
  <2>9. worker[x].pc \in {"unlink", "gcUnlink", "gcRow"} =>
          \A c \in worker[x].todo : refCount'[c] = 0
    BY <2>1, <2>3, <2>4, <2>5 DEF BlobsSafe, NoNewReference
  <2>10. QED
    BY <2>1, <2>6, <2>7, <2>8, <2>9 DEF BlobsSafe
<1>3. BlobsSafe(w)'
  BY <1>1
<1>4. QED
  BY <1>2, <1>3 DEF QuietInv

\* A worker that becomes idle relies on no blob.
LEMMA QuietIdle ==
  ASSUME QuietInv, StorageInv', Quiet', NEW w \in Worker, Become(w, Idle),
         blobs \subseteq blobs' \/ worker[w].pc \in Collecting,
         NoNewReference \/ worker[w].pc \in Writing,
         \A x \in Worker \ {w} : VerifiedRowsKept(x),
         StoredIfReferenced'
  PROVE  QuietInv'
<1>1. worker'[w] = Idle => BlobsSafe(w)'
  BY IdleRow DEF BlobsSafe
<1>2. QED
  BY <1>1, QuietStep

\* Steps that change no table need no argument about rows and references.
LEMMA TablesKept ==
  ASSUME QuietInv, UNCHANGED catalogVars
  PROVE  /\ NoNewReference
         /\ \A x \in Worker : VerifiedRowsKept(x)
         /\ blobs \subseteq blobs' => StoredIfReferenced'
  BY DEF catalogVars, NoNewReference, VerifiedRowsKept, QuietInv, StoredIfReferenced

\* Whoever is verifying holds the lock, so no one else changes its session.
LEMMA LockKeepsSessions ==
  ASSUME StorageInv, NEW w \in Worker, lock \in {NoWorker, w}
  PROVE  \A x \in Worker \ {w} : VerifiedRowsKept(x)
  BY StorageAssumption DEF StorageAssumption, StorageInv, MidMethod, VerifiedRowsKept

-----------------------------------------------------------------------------
(* References *)

\* Publishing a content references its chunks and no others.
LEMMA AddVersionReferences ==
  ASSUME CatalogInv, NEW f, NEW v, NEW content \in Content, AddVersion(f, v, content),
         NEW c \in Chunk, refCount'[c] > 0
  PROVE  refCount[c] > 0 \/ c \in Range(content)
<1>1. SUFFICES ASSUME c \notin Range(content) PROVE refCount[c] > 0
  OBVIOUS
<1>2. Occurrences(content, c) = {}
  BY <1>1 DEF Occurrences, Range
<1>3. refCount'[c] = refCount[c] + 0
  BY <1>2, FS_EmptySet DEF AddVersion
<1>4. QED
  BY <1>3 DEF CatalogInv, TypeOK

\* The chunks of every version are referenced.
LEMMA UsedIsReferenced ==
  ASSUME CatalogInv, NEW v \in PresentVersions, NEW c \in Range(versions[v].chunks)
  PROVE  c \in Chunk /\ refCount[c] > 0
<1>1. v \in VersionId /\ versions[v].chunks \in Content
  BY DEF PresentVersions, CatalogInv, TypeOK, VersionRow
<1>2. PICK i \in DOMAIN versions[v].chunks : versions[v].chunks[i] = c
  BY DEF Range
<1>3. i \in 1..MaxChunks /\ c \in Chunk
  BY <1>1, <1>2, ContentShape
<1> DEFINE U == UsesIn(PresentVersions, c)
<1>4. <<v, i>> \in U
  BY <1>2, <1>3 DEF UsesIn
<1>5. IsFiniteSet(U)
  BY UsesFinite DEF PresentVersions
<1>6. Cardinality(U) \in Nat /\ Cardinality(U) # 0
  BY <1>4, <1>5, FS_CardinalityType, FS_EmptySet
<1>7. refCount[c] = Cardinality(U)
  BY <1>3 DEF CatalogInv, RefCountsExact
<1>8. QED
  BY <1>3, <1>6, <1>7

\* restore_version references what the old version references already.
LEMMA RestoreVersionReferences ==
  ASSUME CatalogInv, NEW p \in Path, NEW old \in VersionId, RestoreVersion(p, old)
  PROVE  NoNewReference
<1>1. PICK f \in LiveAt(p), v \in VersionId :
        old \in VersionsOf(f) /\ AddVersion(f, v, versions[old].chunks)
  BY DEF RestoreVersion
<1>2. old \in PresentVersions /\ versions[old].chunks \in Content
  BY <1>1 DEF VersionsOf, PresentVersions, CatalogInv, TypeOK, VersionRow
<1>3. ASSUME NEW c \in Chunk, refCount'[c] > 0 PROVE refCount[c] > 0
  BY <1>1, <1>2, <1>3, AddVersionReferences, UsedIsReferenced
<1>4. QED
  BY <1>3 DEF NoNewReference

\* A purge only takes references away.
LEMMA PurgeReferences ==
  ASSUME CatalogInv, NEW p \in Path, PurgeFile(p)
  PROVE  NoNewReference
<1>1. PICK f \in LatestTrashAt(p) :
        refCount' = [c \in Chunk |-> refCount[c] - Cardinality(UsesIn(VersionsOf(f), c))]
  BY DEF PurgeFile
<1>2. ASSUME NEW c \in Chunk, refCount'[c] > 0 PROVE refCount[c] > 0
  <2>1. IsFiniteSet(UsesIn(VersionsOf(f), c))
    BY UsesFinite DEF VersionsOf
  <2>2. Cardinality(UsesIn(VersionsOf(f), c)) \in Nat
    BY <2>1, FS_CardinalityType
  <2>3. QED
    BY <1>1, <1>2, <2>2 DEF CatalogInv, TypeOK
<1>3. QED
  BY <1>2 DEF NoNewReference

-----------------------------------------------------------------------------
(* Writers *)

\* Starting an import, a chunk or a commit: no chunk has been passed yet.
LEMMA QuietStart ==
  ASSUME QuietInv, StorageInv', Quiet', NEW w \in Worker,
         \/ \E p \in Path, content \in Content : StartImport(w, p, content)
         \/ \E k \in Key, i \in 1..MaxChunks, c \in Chunk : BeginChunk(w, k, i, c)
         \/ \E k \in Key : BeginCommit(w, k)
  PROVE  QuietInv'
<1>1. UNCHANGED catalogVars /\ blobs \subseteq blobs'
  BY DEF StartImport, BeginChunk, BeginCommit
<1>2. /\ NoNewReference /\ StoredIfReferenced'
      /\ \A x \in Worker \ {w} : VerifiedRowsKept(x)
  BY <1>1, TablesKept
<1>3. Idle.at = 1 /\ \A i \in Int : ~(1 <= i /\ i < 1)
  BY DEF Idle
<1>4. ASSUME NEW p \in Path, NEW content \in Content, StartImport(w, p, content)
      PROVE  QuietInv'
  <2> DEFINE row == [Idle EXCEPT !.pc = "put", !.path = p, !.content = content]
  <2>1. Become(w, row) /\ row.pc = "put" /\ row.content = content /\ row.at = 1
    BY <1>4 DEF StartImport, Idle
  <2>2. \A i \in DOMAIN content : ~(i < 1)
    BY ContentShape, CatalogAssumption DEF CatalogAssumption
  <2>3. worker'[w] = row => BlobsSafe(w)'
    BY <2>1, <2>2 DEF BlobsSafe
  <2> HIDE DEF row
  <2>4. QED
    BY <1>1, <1>2, <2>1, <2>3, QuietStep
<1>5. ASSUME NEW k \in Key, NEW i \in 1..MaxChunks, NEW c \in Chunk, BeginChunk(w, k, i, c)
      PROVE  QuietInv'
  <2> DEFINE row == [Idle EXCEPT !.pc = "record", !.key = k, !.at = i, !.content = [j \in {1} |-> c]]
  <2>1. Become(w, row) /\ row.pc = "record"
    BY <1>5 DEF BeginChunk, Idle
  <2>2. worker'[w] = row => BlobsSafe(w)'
    BY <2>1 DEF BlobsSafe
  <2> HIDE DEF row
  <2>3. QED
    BY <1>1, <1>2, <2>1, <2>2, QuietStep
<1>6. ASSUME NEW k \in Key, BeginCommit(w, k) PROVE QuietInv'
  <2> DEFINE row == [Idle EXCEPT !.pc = "verify", !.key = k]
  <2>1. Become(w, row) /\ row.pc = "verify" /\ row.at = 1
    BY <1>6 DEF BeginCommit, Idle
  <2>2. \A n : \A i \in 1..n : ~(i < 1)
    OBVIOUS
  <2>3. worker'[w] = row => BlobsSafe(w)'
    BY <2>1, <2>2 DEF BlobsSafe
  <2> HIDE DEF row
  <2>4. QED
    BY <1>1, <1>2, <2>1, <2>3, QuietStep
<1>7. QED
  BY <1>4, <1>5, <1>6

\* A chunk that is put or verified is stored.
LEMMA QuietPut ==
  ASSUME QuietInv, StorageInv', Quiet', NEW w \in Worker, PutNext(w)
  PROVE  QuietInv'
<1> DEFINE r == worker[w]
           row == [r EXCEPT !.at = @ + 1]
<1>1. /\ r \in WorkerRow /\ r.pc = "put" /\ BlobsSafe(w)
      /\ blobs' = blobs \cup {r.content[r.at]} /\ Become(w, row)
      /\ UNCHANGED catalogVars
  BY DEF PutNext, QuietInv, StorageInv, StorageRows
<1>2. /\ NoNewReference /\ StoredIfReferenced'
      /\ \A x \in Worker \ {w} : VerifiedRowsKept(x)
  BY <1>1, TablesKept
<1>3. row.pc = "put" /\ row.content = r.content /\ row.at = r.at + 1
  BY <1>1 DEF WorkerRow
<1>4. DOMAIN r.content \subseteq Int /\ r.at \in Int
  BY <1>1, ContentShape, CatalogAssumption DEF WorkerRow, CatalogAssumption
<1>5. \A i \in DOMAIN r.content : i < r.at + 1 => r.content[i] \in blobs'
  <2>1. \A i \in DOMAIN r.content : i < r.at + 1 => i < r.at \/ i = r.at
    BY <1>4
  <2>2. QED
    BY <1>1, <2>1 DEF BlobsSafe
<1>6. worker'[w] = row => BlobsSafe(w)'
  BY <1>3, <1>5 DEF BlobsSafe
<1> HIDE DEF row
<1>7. QED
  BY <1>1, <1>2, <1>6, QuietStep

\* Every chunk of the import was put before it is published.
LEMMA QuietPublish ==
  ASSUME QuietInv, StorageInv', Quiet', NEW w \in Worker, PublishImport(w)
  PROVE  QuietInv'
<1> DEFINE r == worker[w]
<1>1. /\ r \in WorkerRow /\ r.pc = "put" /\ BlobsSafe(w) /\ r.at \notin DOMAIN r.content
      /\ Become(w, Idle) /\ blobs' = blobs /\ lock = NoWorker
  BY DEF PublishImport, Unlocked, QuietInv, StorageInv, StorageRows
<1>2. StoredIfReferenced'
  <2>1. CASE UNCHANGED catalogVars
    BY <1>1, <2>1, TablesKept
  <2>2. CASE ImportFile(r.path, r.content)
    <3>1. PICK f \in FileId, v \in VersionId : AddVersion(f, v, r.content)
      BY <2>2 DEF ImportFile, Publish
    <3>2. Range(r.content) \subseteq blobs
      <4>1. PICK n \in 0..MaxChunks : r.content \in [1..n -> Chunk]
        BY <1>1 DEF WorkerRow, Content
      <4>2. n \in Nat /\ DOMAIN r.content = 1..n /\ r.at \in Nat \ {0}
        BY <1>1, <4>1, CatalogAssumption DEF WorkerRow, CatalogAssumption
      <4>3. \A i \in DOMAIN r.content : i < r.at
        BY <1>1, <4>2
      <4>4. QED
        BY <1>1, <4>3 DEF BlobsSafe, Range
    <3>3. \A c \in Chunk : refCount'[c] > 0 => refCount[c] > 0 \/ c \in Range(r.content)
      BY <1>1, <3>1, AddVersionReferences DEF QuietInv, StorageInv, WorkerRow
    <3>4. QED
      BY <1>1, <3>2, <3>3 DEF QuietInv, StoredIfReferenced
  <2>3. QED
    BY <2>1, <2>2 DEF PublishImport
<1>3. \A x \in Worker \ {w} : VerifiedRowsKept(x)
  BY <1>1, LockKeepsSessions DEF QuietInv
<1>4. QED
  BY <1>1, <1>2, <1>3, QuietIdle DEF Writing

\* upload_chunk needs nothing of its blob once it has put it.
LEMMA QuietRecord ==
  ASSUME QuietInv, StorageInv', Quiet', NEW w \in Worker, RecordChunk(w)
  PROVE  QuietInv'
<1>1. /\ lock = w /\ Become(w, Idle) /\ blobs' = blobs /\ refCount' = refCount
  BY DEF RecordChunk, UploadChunk, SetSession, QuietInv, StorageInv, MidMethod
<1>2. NoNewReference /\ StoredIfReferenced'
  BY <1>1 DEF NoNewReference, QuietInv, StoredIfReferenced
<1>3. \A x \in Worker \ {w} : VerifiedRowsKept(x)
  BY <1>1, LockKeepsSessions DEF QuietInv
<1>4. QED
  BY <1>1, <1>2, <1>3, QuietIdle

\* Verifying: the chunk is stored, or the commit ends here.
LEMMA QuietVerify ==
  ASSUME QuietInv, StorageInv', Quiet', NEW w \in Worker, VerifyNext(w)
  PROVE  QuietInv'
<1> DEFINE r == worker[w]
           k == r.key
           row == [r EXCEPT !.at = @ + 1]
<1>1. /\ r \in WorkerRow /\ r.pc = "verify" /\ BlobsSafe(w)
      /\ UNCHANGED <<catalogVars, blobs>>
  BY DEF VerifyNext, QuietInv, StorageInv, StorageRows
<1>2. /\ NoNewReference /\ StoredIfReferenced'
      /\ \A x \in Worker \ {w} : VerifiedRowsKept(x)
  BY <1>1, TablesKept
<1>3. CASE Become(w, Idle)
  BY <1>1, <1>2, <1>3, QuietIdle
<1>4. CASE Become(w, row) /\ sessions[k].rows[r.at] \in blobs
  <2>1. row.pc = "verify" /\ row.key = k /\ row.at = r.at + 1 /\ r.at \in Int
    BY <1>1, CatalogAssumption DEF WorkerRow, CatalogAssumption
  <2>2. \A i \in 1..sessions[k].size : i < r.at + 1 => i < r.at \/ i = r.at
    BY <2>1
  <2>3. \A i \in 1..sessions[k].size : i < r.at + 1 => sessions[k].rows[i] \in blobs
    BY <1>1, <1>4, <2>2 DEF BlobsSafe
  <2>4. sessions' = sessions /\ blobs' = blobs
    BY <1>1 DEF catalogVars
  <2>5. worker'[w] = row => BlobsSafe(w)'
    BY <2>1, <2>3, <2>4 DEF BlobsSafe
  <2> HIDE DEF row
  <2>6. QED
    BY <1>1, <1>2, <1>4, <2>5, QuietStep
<1>5. QED
  BY <1>3, <1>4 DEF VerifyNext

\* Every chunk of the upload was read before it is published.
LEMMA QuietFinish ==
  ASSUME QuietInv, StorageInv', Quiet', NEW w \in Worker, FinishCommit(w)
  PROVE  QuietInv'
<1> DEFINE r == worker[w]
           k == r.key
<1>1. /\ r \in WorkerRow /\ r.pc = "verify" /\ k \in Key /\ lock = w /\ BlobsSafe(w)
      /\ r.at > sessions[k].size /\ CommitUpload(k) /\ Become(w, Idle) /\ blobs' = blobs
  BY DEF FinishCommit, QuietInv, StorageInv, StorageRows, MidMethod
<1>2. /\ sessions[k] \in SessionRow /\ CatalogInv /\ r.at \in Int
  BY <1>1, CatalogAssumption DEF QuietInv, StorageInv, CatalogInv, TypeOK, WorkerRow, CatalogAssumption
<1>3. StoredIfReferenced'
  <2>1. CASE refCount' = refCount
    BY <1>1, <2>1 DEF QuietInv, StoredIfReferenced
  <2>2. CASE \E f \in FileId, v \in VersionId : AddVersion(f, v, Uploaded(k))
    <3>1. Uploaded(k) \in Content
      BY <1>1, <1>2, UploadedContent DEF CommitUpload
    <3>2. Range(Uploaded(k)) \subseteq blobs
      <4>1. \A i \in 1..sessions[k].size : i < r.at
        BY <1>1, <1>2, CatalogAssumption DEF SessionRow, CatalogAssumption
      <4>2. \A i \in 1..sessions[k].size : sessions[k].rows[i] \in blobs
        BY <1>1, <4>1 DEF BlobsSafe
      <4>3. QED
        BY <4>2 DEF Uploaded, Range
    <3>3. \A c \in Chunk : refCount'[c] > 0 => refCount[c] > 0 \/ c \in Range(Uploaded(k))
      BY <1>2, <2>2, <3>1, AddVersionReferences
    <3>4. QED
      BY <1>1, <3>2, <3>3 DEF QuietInv, StoredIfReferenced
  <2>3. QED
    BY <1>1, <2>1, <2>2 DEF CommitUpload, Publish
<1>4. \A x \in Worker \ {w} : VerifiedRowsKept(x)
  BY <1>1, LockKeepsSessions DEF QuietInv
<1>5. QED
  BY <1>1, <1>3, <1>4, QuietIdle DEF Writing

-----------------------------------------------------------------------------
(* Collectors *)

\* Starting a collector: it has no list yet.
LEMMA QuietCollect ==
  ASSUME QuietInv, StorageInv', Quiet', NEW w \in Worker,
         \/ (\E k \in Key : Abort(w, k)) \/ Cleanup(w)
         \/ (\E p \in Path : Purge(w, p)) \/ StartGc(w)
  PROVE  QuietInv'
<1>1. PICK pc \in {"refs", "scan"} : Become(w, [Idle EXCEPT !.pc = pc])
  BY DEF Abort, Cleanup, Purge, StartGc
<1> DEFINE row == [Idle EXCEPT !.pc = pc]
<1>2. row.pc = pc
  BY DEF Idle
<1>3. blobs' = blobs
  BY DEF Abort, Cleanup, Purge, StartGc
<1>4. NoNewReference /\ \A x \in Worker \ {w} : VerifiedRowsKept(x)
  <2>1. CASE StartGc(w)
    BY <2>1, TablesKept DEF StartGc
  <2>2. CASE (\E k \in Key : Abort(w, k)) \/ Cleanup(w)
    <3>1. lock = NoWorker /\ refCount' = refCount
      BY <2>2 DEF Abort, Cleanup, Unlocked, AbortUpload, SetSession, CleanupUploads, catalogVars
    <3>2. QED
      BY <3>1, LockKeepsSessions DEF NoNewReference, QuietInv
  <2>3. CASE \E p \in Path : Purge(w, p)
    <3>1. lock = NoWorker /\ NoNewReference
      BY <2>3, PurgeReferences DEF Purge, Unlocked, QuietInv, StorageInv
    <3>2. QED
      BY <3>1, LockKeepsSessions DEF QuietInv
  <2>4. QED
    BY <2>1, <2>2, <2>3
<1>5. StoredIfReferenced'
  BY <1>3, <1>4 DEF NoNewReference, QuietInv, StoredIfReferenced
<1>6. worker'[w] = row => BlobsSafe(w)'
  BY <1>2 DEF BlobsSafe
<1> HIDE DEF row
<1>7. QED
  BY <1>1, <1>3, <1>4, <1>5, <1>6, QuietStep DEF row

\* The queries of the sweep find every referenced chunk.
LEMMA QuietQuery ==
  ASSUME QuietInv, StorageInv', Quiet', NEW w \in Worker,
         SelectReferenced(w) \/ SelectOpenChunks(w)
  PROVE  QuietInv'
<1> DEFINE r == worker[w]
           Found == UNION {Recorded(k) : k \in {j \in Key : sessions[j].state = "open"}}
<1>1. r \in WorkerRow /\ BlobsSafe(w) /\ UNCHANGED <<catalogVars, blobs>>
  BY DEF SelectReferenced, SelectOpenChunks, QuietInv, StorageInv, StorageRows
<1>2. /\ NoNewReference /\ StoredIfReferenced'
      /\ \A x \in Worker \ {w} : VerifiedRowsKept(x)
  BY <1>1, TablesKept
<1>3. PICK row \in WorkerRow : /\ Become(w, row) /\ row.pc \in {"opens", "list"}
                               /\ \A c \in Chunk : refCount[c] > 0 => c \in row.seen
  <2>1. CASE SelectReferenced(w)
    <3> DEFINE row == [r EXCEPT !.pc = "opens", !.seen = Referenced]
    <3>1. Referenced \subseteq Chunk
      BY DEF Referenced
    <3>2. row \in WorkerRow /\ row.pc = "opens" /\ row.seen = Referenced
      BY <1>1, <3>1 DEF WorkerRow, Collecting
    <3>3. \A c \in Chunk : refCount[c] > 0 => c \in Referenced
      BY DEF Referenced, QuietInv, StorageInv, CatalogInv, RefCountsExact
    <3>4. Become(w, row)
      BY <2>1 DEF SelectReferenced
    <3>5. QED
      BY <3>2, <3>3, <3>4
  <2>2. CASE SelectOpenChunks(w)
    <3> DEFINE row == [r EXCEPT !.pc = "list", !.seen = @ \cup Found]
    <3>1. r.pc = "opens" /\ Become(w, row)
      BY <2>2 DEF SelectOpenChunks
    <3>2. row.pc = "list" /\ row.seen = r.seen \cup Found
      BY <1>1 DEF WorkerRow
    <3>3. worker'[w] = row
      BY <3>1 DEF Become, QuietInv, StorageInv, StorageRows
    <3>4. row \in WorkerRow
      BY <3>3 DEF StorageInv, StorageRows
    <3>5. \A c \in Chunk : refCount[c] > 0 => c \in r.seen
      BY <1>1, <3>1 DEF BlobsSafe
    <3>6. QED
      BY <3>1, <3>2, <3>4, <3>5
  <2>3. QED
    BY <2>1, <2>2
<1>4. refCount' = refCount /\ blobs' = blobs
  BY <1>1 DEF catalogVars
<1>5. worker'[w] = row => BlobsSafe(w)'
  BY <1>3, <1>4 DEF BlobsSafe
<1>6. QED
  BY <1>1, <1>2, <1>3, <1>5, QuietStep

\* A collector whose list has only chunks without references, and what it
\* unlinks neither.
LEMMA QuietUnlinking ==
  ASSUME QuietInv, StorageInv', Quiet', NEW w \in Worker, worker[w].pc \in Collecting,
         NEW row \in WorkerRow, Become(w, row),
         row = Idle \/ (/\ row.pc \in {"unlink", "gcUnlink", "gcRow"}
                       /\ \A c \in row.todo : refCount[c] = 0),
         \A c \in blobs \ blobs' : refCount[c] = 0,
         UNCHANGED <<files, versions, refCount, sessions, dirs, clock>>
  PROVE  QuietInv'
<1>1. NoNewReference /\ \A x \in Worker \ {w} : VerifiedRowsKept(x)
  BY DEF NoNewReference, VerifiedRowsKept
<1>2. StoredIfReferenced'
  BY DEF QuietInv, StoredIfReferenced
<1>3. worker'[w] = row => BlobsSafe(w)'
  BY IdleRow DEF BlobsSafe
<1>4. QED
  BY <1>1, <1>2, <1>3, QuietStep

\* The sweep lists what its queries did not find, and unlinks what it listed.
LEMMA QuietSweep ==
  ASSUME QuietInv, StorageInv', Quiet', NEW w \in Worker,
         ListOrphans(w) \/ UnlinkOrphan(w)
  PROVE  QuietInv'
<1>1. /\ worker[w] \in WorkerRow /\ BlobsSafe(w) /\ worker[w].pc \in Collecting
      /\ UNCHANGED catalogVars
  BY DEF ListOrphans, UnlinkOrphan, Collecting, QuietInv, StorageInv, StorageRows
<1>2. PICK todo \in SUBSET Chunk :
        /\ Unlinking(w, "unlink", todo)
        /\ \A c \in todo : refCount[c] = 0
        /\ \A c \in blobs \ blobs' : refCount[c] = 0
  <2>1. CASE ListOrphans(w)
    <3>1. \A c \in blobs \ worker[w].seen : c \in Chunk /\ refCount[c] = 0
      <4>1. \A c \in Chunk : refCount[c] > 0 => c \in worker[w].seen
        BY <1>1, <2>1 DEF ListOrphans, BlobsSafe
      <4>2. QED
        BY <4>1 DEF QuietInv, StorageInv, StorageRows, CatalogInv, TypeOK
    <3>2. blobs' = blobs /\ Unlinking(w, "unlink", blobs \ worker[w].seen)
      BY <2>1 DEF ListOrphans
    <3>3. blobs \ worker[w].seen \in SUBSET Chunk
      BY <3>1
    <3>4. QED
      BY <3>1, <3>2, <3>3
  <2>2. CASE UnlinkOrphan(w)
    <3>1. worker[w].todo \in SUBSET Chunk /\ \A c \in worker[w].todo : refCount[c] = 0
      BY <1>1, <2>2 DEF UnlinkOrphan, BlobsSafe, WorkerRow
    <3>2. PICK c \in worker[w].todo :
            blobs' = blobs \ {c} /\ Unlinking(w, "unlink", worker[w].todo \ {c})
      BY <2>2 DEF UnlinkOrphan
    <3>3. worker[w].todo \ {c} \in SUBSET Chunk
      BY <3>1
    <3>4. QED
      BY <3>1, <3>2, <3>3
  <2>3. QED
    BY <2>1, <2>2
<1>3. PICK row \in WorkerRow : /\ Become(w, row)
                               /\ \/ row = Idle
                                  \/ row = [worker[w] EXCEPT !.pc = "unlink", !.todo = todo]
  BY <1>2, UnlinkingRow DEF QuietInv
<1>4. row = Idle \/ (row.pc = "unlink" /\ row.todo = todo)
  BY <1>1, <1>3 DEF WorkerRow
<1>5. UNCHANGED <<files, versions, refCount, sessions, dirs, clock>>
  BY <1>1 DEF catalogVars
<1>6. QED
  BY <1>1, <1>2, <1>3, <1>4, <1>5, QuietUnlinking

\* collect_garbage lists chunks without references, unlinks what it listed and
\* then deletes its row.
LEMMA QuietGarbage ==
  ASSUME QuietInv, StorageInv', Quiet', NEW w \in Worker,
         SelectZero(w) \/ UnlinkZero(w) \/ DeleteZeroRow(w)
  PROVE  QuietInv'
<1>1. /\ worker[w] \in WorkerRow /\ BlobsSafe(w) /\ worker[w].pc \in Collecting
      /\ UNCHANGED <<files, versions, refCount, sessions, dirs, clock>>
  BY DEF SelectZero, UnlinkZero, DeleteZeroRow, Collecting, QuietInv, StorageInv, StorageRows, catalogVars
<1>2. PICK row : /\ Become(w, row)
                 /\ row = Idle \/ (/\ row.pc \in {"gcUnlink", "gcRow"}
                                  /\ \A c \in row.todo : refCount[c] = 0)
                 /\ \A c \in blobs \ blobs' : refCount[c] = 0
  <2>1. CASE SelectZero(w)
    <3> DEFINE todo == chunkRows \ Referenced
               row == [worker[w] EXCEPT !.pc = "gcUnlink", !.todo = todo]
    <3>1. \A c \in todo : refCount[c] = 0
      BY DEF Referenced, QuietInv, StorageInv, CatalogInv, TypeOK
    <3>2. row.pc = "gcUnlink" /\ row.todo = todo
      BY <1>1 DEF WorkerRow
    <3>3. (Become(w, Idle) \/ Become(w, row)) /\ blobs' = blobs
      BY <2>1 DEF SelectZero, Unlinking
    <3> HIDE DEF row, todo
    <3>4. QED
      BY <3>1, <3>2, <3>3
  <2>2. CASE UnlinkZero(w)
    <3>1. PICK c \in worker[w].todo :
            /\ blobs' = blobs \ {c}
            /\ Become(w, [worker[w] EXCEPT !.pc = "gcRow", !.content = [j \in {1} |-> c]])
      BY <2>2 DEF UnlinkZero
    <3> DEFINE row == [worker[w] EXCEPT !.pc = "gcRow", !.content = [j \in {1} |-> c]]
    <3>2. row.pc = "gcRow" /\ row.todo = worker[w].todo
      BY <1>1 DEF WorkerRow
    <3>3. \A x \in worker[w].todo : refCount[x] = 0
      BY <1>1, <2>2 DEF UnlinkZero, BlobsSafe
    <3>4. Become(w, row)
      BY <3>1
    <3> HIDE DEF row
    <3>5. QED
      BY <3>1, <3>2, <3>3, <3>4
  <2>3. CASE DeleteZeroRow(w)
    <3> DEFINE left == worker[w].todo \ {worker[w].content[1]}
               dropped == worker[w].seen \cup ({worker[w].content[1]} \ Referenced)
               row == [worker[w] EXCEPT !.pc = "gcUnlink", !.content = <<>>,
                                        !.todo = left, !.seen = dropped]
    <3>1. row.pc = "gcUnlink" /\ row.todo = left
      BY <1>1 DEF WorkerRow
    <3>2. \A c \in left : refCount[c] = 0
      BY <1>1, <2>3 DEF DeleteZeroRow, BlobsSafe
    <3>3. (Become(w, Idle) \/ Become(w, row)) /\ blobs' = blobs
      BY <2>3 DEF DeleteZeroRow
    <3> HIDE DEF row, left
    <3>4. QED
      BY <3>1, <3>2, <3>3
  <2>4. QED
    BY <2>1, <2>2, <2>3
<1>3. row \in WorkerRow
  BY <1>2 DEF Become, QuietInv, StorageInv, StorageRows
<1>4. QED
  BY <1>1, <1>2, <1>3, QuietUnlinking

-----------------------------------------------------------------------------
(* The specification under the rule *)

\* Any thread's transaction, and time passing, give no chunk its first
\* reference and leave the session of a commit alone.
LEMMA QuietTransaction ==
  ASSUME QuietInv, StorageInv', Quiet', Transaction \/ Passing
  PROVE  QuietInv'
<1>1. blobs' = blobs /\ worker' = worker
  BY DEF Transaction, Passing
<1>2. NoNewReference
  <2>1. CASE \E p \in Path, v \in VersionId : RestoreVersion(p, v)
    BY <2>1, RestoreVersionReferences DEF QuietInv, StorageInv
  <2>2. CASE refCount' = refCount
    BY <2>2 DEF NoNewReference
  <2>3. QED
    BY <2>1, <2>2 DEF Transaction, Passing, Tick, DeadlinePasses, SetSession, DeleteFile, RestoreFile,
       MoveFile, MoveFiles, Relocate, CreateDirectory, CreateUpload, ExpireOverdue
<1>3. ASSUME NEW x \in Worker PROVE VerifiedRowsKept(x)
  <2>1. CASE Transaction
    BY <2>1, StorageAssumption
       DEF StorageAssumption, Transaction, Unlocked, QuietInv, StorageInv, MidMethod, VerifiedRowsKept
  <2>2. CASE Passing
    <3>1. CASE sessions' = sessions
      BY <3>1 DEF VerifiedRowsKept
    <3>2. CASE \E k \in Key : worker[x].key # k /\ DeadlinePasses(k)
      BY <3>2 DEF VerifiedRowsKept, DeadlinePasses, SetSession, QuietInv, StorageInv, MidMethod,
         CatalogInv, TypeOK
    <3>3. QED
      BY <2>2, <3>1, <3>2 DEF Passing, Tick
  <2>3. QED
    BY <2>1, <2>2
<1>4. StoredIfReferenced'
  BY <1>1, <1>2 DEF NoNewReference, QuietInv, StoredIfReferenced
<1>5. ASSUME NEW x \in Worker PROVE BlobsSafe(x)'
  <2>1. BlobsSafe(x) /\ VerifiedRowsKept(x)
    BY <1>3 DEF QuietInv
  <2>2. refCount \in [Chunk -> Nat] /\ refCount' \in [Chunk -> Nat] /\ worker[x].todo \subseteq Chunk
    BY DEF QuietInv, StorageInv, StorageRows, CatalogInv, TypeOK, WorkerRow
  <2>3. worker[x].pc \in {"unlink", "gcUnlink", "gcRow"} =>
          \A c \in worker[x].todo : refCount'[c] = 0
    BY <1>2, <2>1, <2>2 DEF BlobsSafe, NoNewReference
  <2>4. worker[x].pc \in {"opens", "list"} =>
          \A c \in Chunk : refCount'[c] > 0 => c \in worker[x].seen
    BY <1>2, <2>1 DEF BlobsSafe, NoNewReference
  <2>5. QED
    BY <1>1, <2>1, <2>3, <2>4 DEF BlobsSafe, VerifiedRowsKept
<1>6. QED
  BY <1>4, <1>5 DEF QuietInv

\* A worker that fails keeps the blobs it has put.
LEMMA QuietFail ==
  ASSUME QuietInv, StorageInv', Quiet', NEW w \in Worker, Fail(w)
  PROVE  QuietInv'
<1>1. UNCHANGED <<catalogVars, blobs>> /\ Become(w, Idle)
  BY DEF Fail
<1>2. QED
  BY <1>1, TablesKept, QuietIdle

\* Every step that obeys the rule preserves the invariant.
LEMMA QuietNextInv == QuietInv /\ [QuietNext]_storageVars => QuietInv'
<1> SUFFICES ASSUME QuietInv, [QuietNext]_storageVars PROVE QuietInv'
  OBVIOUS
<1>1. StorageInv'
  BY StorageNextInv DEF QuietInv, QuietNext
<1>2. ASSUME QuietNext PROVE QuietInv'
  <2>1. StorageNext /\ Quiet'
    BY <1>2 DEF QuietNext
  <2>2. CASE Transaction \/ Passing
    BY <1>1, <2>1, <2>2, QuietTransaction
  <2>3. ASSUME NEW w \in Worker, Start(w) PROVE QuietInv'
    BY <1>1, <2>1, <2>3, QuietStart, QuietCollect DEF Start
  <2>4. ASSUME NEW w \in Worker, Continue(w) PROVE QuietInv'
    BY <1>1, <2>1, <2>4, QuietPut, QuietPublish, QuietRecord, QuietVerify, QuietFinish,
       QuietQuery, QuietSweep, QuietGarbage DEF Continue
  <2>5. ASSUME NEW w \in Worker, Fail(w) PROVE QuietInv'
    BY <1>1, <2>1, <2>5, QuietFail
  <2>6. QED
    BY <2>1, <2>2, <2>3, <2>4, <2>5 DEF StorageNext
<1>3. CASE UNCHANGED storageVars
  <2>1. UNCHANGED <<catalogVars, blobs, lock, worker>> /\ refCount' = refCount /\ sessions' = sessions
    BY <1>3 DEF storageVars, catalogVars
  <2>2. \A w \in Worker : BlobsSafe(w)'
    BY <2>1 DEF QuietInv, BlobsSafe
  <2>3. QED
    BY <1>1, <2>1, <2>2 DEF QuietInv, Quiet, StoredIfReferenced
<1>4. QED
  BY <1>2, <1>3

\* In a new vault nothing is referenced and no worker is busy.
LEMMA QuietInitInv == StorageInit => QuietInv
<1> SUFFICES ASSUME StorageInit PROVE QuietInv
  OBVIOUS
<1>1. StorageInv
  BY StorageInitInv
<1>2. \A w \in Worker : worker[w].pc = "idle"
  BY IdleRow DEF StorageInit
<1>3. Quiet /\ \A w \in Worker : BlobsSafe(w)
  BY <1>2 DEF Quiet, Writing, Collecting, BlobsSafe
<1>4. StoredIfReferenced
  BY DEF StorageInit, Init, StoredIfReferenced
<1>5. QED
  BY <1>1, <1>3, <1>4 DEF QuietInv

\* If no collector runs while an import or upload is in flight, every chunk
\* that a version uses has its blob at all times, whatever else happens and
\* whoever fails where.
THEOREM NothingLost == QuietSpec => []StoredIfReferenced
<1>1. QuietInv => StoredIfReferenced
  BY DEF QuietInv
<1>2. QED
  BY <1>1, QuietInitInv, QuietNextInv, PTL DEF QuietSpec

-----------------------------------------------------------------------------
(* What a sweep leaves *)

\* A sweep that is unlinking has every blob on its list that its queries did
\* not find: nobody has added one since it listed the directory.
ListsComplete ==
  \A w \in Worker :
    worker[w].pc = "unlink" => blobs \subseteq worker[w].seen \cup worker[w].todo

\* A worker that is not sweeping next, and adds no blob.
LEMMA ListsKept ==
  ASSUME StorageInv, ListsComplete, NEW w \in Worker, NEW row, Become(w, row),
         blobs' \subseteq blobs,
         row.pc = "unlink" => blobs' \subseteq row.seen \cup row.todo
  PROVE  ListsComplete'
<1>1. worker'[w] = row /\ \A x \in Worker \ {w} : worker'[x] = worker[x]
  BY DEF Become, StorageInv, StorageRows
<1>2. QED
  BY <1>1 DEF ListsComplete

\* Only writers add blobs, and none of them is at work while a sweep is.
LEMMA WritersAdd ==
  ASSUME QuietInv, Quiet', NEW w \in Worker,
         \/ PutNext(w)
         \/ \E k \in Key, i \in 1..MaxChunks, c \in Chunk : BeginChunk(w, k, i, c)
  PROVE  ListsComplete'
<1>1. worker'[w].pc \in Writing
  <2>1. CASE PutNext(w)
    <3>1. worker[w] \in WorkerRow /\ worker[w].pc = "put"
          /\ worker'[w] = [worker[w] EXCEPT !.at = @ + 1]
      BY <2>1 DEF PutNext, Become, QuietInv, StorageInv, StorageRows
    <3>2. QED
      BY <3>1 DEF WorkerRow, Writing
  <2>2. ASSUME NEW k \in Key, NEW i \in 1..MaxChunks, NEW c \in Chunk, BeginChunk(w, k, i, c)
        PROVE  worker'[w].pc \in Writing
    <3>1. worker'[w] = [Idle EXCEPT !.pc = "record", !.key = k, !.at = i,
                                    !.content = [j \in {1} |-> c]]
      BY <2>2 DEF BeginChunk, Become, QuietInv, StorageInv, StorageRows
    <3>2. QED
      BY <3>1 DEF Idle, Writing
  <2>3. QED
    BY <2>1, <2>2
<1>2. \A x \in Worker : worker'[x].pc # "unlink"
  BY <1>1 DEF Quiet, Collecting
<1>3. QED
  BY <1>2 DEF ListsComplete

\* Listing puts every blob on the list that was not found, unlinking takes one
\* off the list and out of the directory.
LEMMA SweepLists ==
  ASSUME QuietInv, ListsComplete, NEW w \in Worker, ListOrphans(w) \/ UnlinkOrphan(w)
  PROVE  ListsComplete'
<1>1. worker[w] \in WorkerRow
  BY DEF QuietInv, StorageInv, StorageRows
<1>2. PICK todo :
        /\ Unlinking(w, "unlink", todo)
        /\ blobs' \subseteq blobs
        /\ blobs' \subseteq worker[w].seen \cup todo
  <2>1. CASE ListOrphans(w)
    BY <2>1 DEF ListOrphans
  <2>2. CASE UnlinkOrphan(w)
    BY <2>2 DEF UnlinkOrphan, ListsComplete
  <2>3. QED
    BY <2>1, <2>2
<1> DEFINE row == [worker[w] EXCEPT !.pc = "unlink", !.todo = todo]
<1>3. row.seen = worker[w].seen /\ row.todo = todo
  BY <1>1 DEF WorkerRow
<1>4. Become(w, Idle) \/ Become(w, row)
  BY <1>2 DEF Unlinking
<1> HIDE DEF row
<1>5. QED
  BY <1>2, <1>3, <1>4, ListsKept, IdleRow DEF QuietInv

\* All other steps of a worker.
LEMMA OthersList ==
  ASSUME QuietInv, ListsComplete, NEW w \in Worker, Start(w) \/ Continue(w) \/ Fail(w),
         ~\E k \in Key, i \in 1..MaxChunks, c \in Chunk : BeginChunk(w, k, i, c),
         ~PutNext(w), ~ListOrphans(w), ~UnlinkOrphan(w)
  PROVE  ListsComplete'
<1>1. worker[w] \in WorkerRow /\ StorageInv
  BY DEF QuietInv, StorageInv, StorageRows
<1>2. SUFFICES \E row : Become(w, row) /\ row.pc # "unlink" /\ blobs' \subseteq blobs
  BY <1>1, ListsKept
<1>3. ASSUME Become(w, Idle), blobs' \subseteq blobs
      PROVE  \E row : Become(w, row) /\ row.pc # "unlink" /\ blobs' \subseteq blobs
  BY <1>3, IdleRow
<1>4. CASE Start(w)
  <2>1. blobs' = blobs
    BY <1>4 DEF Start, StartImport, BeginCommit, Abort, Purge, Cleanup, StartGc
  <2>2. \/ \E p \in Path, content \in Content :
             Become(w, [Idle EXCEPT !.pc = "put", !.path = p, !.content = content])
        \/ \E k \in Key : Become(w, [Idle EXCEPT !.pc = "verify", !.key = k])
        \/ Become(w, [Idle EXCEPT !.pc = "refs"])
        \/ Become(w, [Idle EXCEPT !.pc = "scan"])
    BY <1>4 DEF Start, StartImport, BeginCommit, Abort, Purge, Cleanup, StartGc
  <2>3. QED
    BY <2>1, <2>2 DEF Idle
<1>5. CASE Continue(w)
  <2>1. CASE PublishImport(w) \/ RecordChunk(w) \/ FinishCommit(w)
    BY <1>3, <2>1 DEF PublishImport, RecordChunk, FinishCommit
  <2>2. CASE VerifyNext(w)
    <3>1. worker[w].pc = "verify" /\ blobs' = blobs
          /\ (Become(w, Idle) \/ Become(w, [worker[w] EXCEPT !.at = @ + 1]))
      BY <2>2 DEF VerifyNext
    <3>2. [worker[w] EXCEPT !.at = @ + 1].pc = worker[w].pc
      BY <1>1 DEF WorkerRow
    <3>3. QED
      BY <1>3, <3>1, <3>2
  <2>3. CASE SelectReferenced(w) \/ SelectOpenChunks(w)
    <3>1. blobs' = blobs /\ \E seen : \E pc \in {"opens", "list"} :
            Become(w, [worker[w] EXCEPT !.pc = pc, !.seen = seen])
      BY <2>3 DEF SelectReferenced, SelectOpenChunks
    <3>2. \A pc, seen : [worker[w] EXCEPT !.pc = pc, !.seen = seen].pc = pc
      BY <1>1 DEF WorkerRow
    <3>3. QED
      BY <3>1, <3>2
  <2>4. CASE SelectZero(w)
    <3> DEFINE todo == chunkRows \ Referenced
    <3>1. blobs' = blobs /\ (Become(w, Idle)
            \/ Become(w, [worker[w] EXCEPT !.pc = "gcUnlink", !.todo = todo]))
      BY <2>4 DEF SelectZero, Unlinking
    <3>2. [worker[w] EXCEPT !.pc = "gcUnlink", !.todo = todo].pc = "gcUnlink"
      BY <1>1 DEF WorkerRow
    <3>3. QED
      BY <1>3, <3>1, <3>2
  <2>5. CASE UnlinkZero(w)
    <3>1. \E c : /\ blobs' = blobs \ {c}
                 /\ Become(w, [worker[w] EXCEPT !.pc = "gcRow", !.content = [j \in {1} |-> c]])
      BY <2>5 DEF UnlinkZero
    <3>2. \A c : [worker[w] EXCEPT !.pc = "gcRow", !.content = [j \in {1} |-> c]].pc = "gcRow"
      BY <1>1 DEF WorkerRow
    <3>3. QED
      BY <3>1, <3>2
  <2>6. CASE DeleteZeroRow(w)
    <3>1. blobs' = blobs /\ (Become(w, Idle) \/ \E left, dropped :
            Become(w, [worker[w] EXCEPT !.pc = "gcUnlink", !.content = <<>>,
                                        !.todo = left, !.seen = dropped]))
      BY <2>6 DEF DeleteZeroRow
    <3>2. \A left, dropped : [worker[w] EXCEPT !.pc = "gcUnlink", !.content = <<>>,
                                               !.todo = left, !.seen = dropped].pc = "gcUnlink"
      BY <1>1 DEF WorkerRow
    <3>3. QED
      BY <1>3, <3>1, <3>2
  <2>7. QED
    BY <1>5, <2>1, <2>2, <2>3, <2>4, <2>5, <2>6 DEF Continue
<1>6. CASE Fail(w)
  BY <1>3, <1>6 DEF Fail
<1>7. QED
  BY <1>4, <1>5, <1>6

LEMMA SweepNextInv == QuietInv /\ ListsComplete /\ [QuietNext]_storageVars => ListsComplete'
<1> SUFFICES ASSUME QuietInv, ListsComplete, [QuietNext]_storageVars PROVE ListsComplete'
  OBVIOUS
<1>1. CASE UNCHANGED <<blobs, worker>>
  BY <1>1 DEF ListsComplete
<1>2. CASE Transaction \/ Passing
  BY <1>1, <1>2 DEF Transaction, Passing
<1>3. ASSUME NEW w \in Worker, Start(w) \/ Continue(w) \/ Fail(w), Quiet' PROVE ListsComplete'
  BY <1>3, WritersAdd, SweepLists, OthersList
<1>4. QED
  BY <1>1, <1>2, <1>3 DEF QuietNext, StorageNext, storageVars

\* What a worker is doing changes by its own steps only.
LEMMA OwnStep ==
  ASSUME StorageInv, StorageNext, NEW w \in Worker, worker'[w] # worker[w]
  PROVE  Start(w) \/ Continue(w) \/ Fail(w)
<1>1. ASSUME NEW x \in Worker, x # w, NEW row, Become(x, row) PROVE FALSE
  BY <1>1 DEF Become, StorageInv, StorageRows
<1>2. ~(Transaction \/ Passing)
  BY DEF Transaction, Passing
<1>3. ASSUME NEW x \in Worker, Start(x) \/ Continue(x) \/ Fail(x) PROVE x = w
  <2>1. \E row : Become(x, row)
    BY <1>3 DEF Start, StartImport, BeginChunk, BeginCommit, Abort, Purge, Cleanup, StartGc,
       Continue, PutNext, PublishImport, RecordChunk, VerifyNext, FinishCommit, SelectReferenced,
       SelectOpenChunks, ListOrphans, UnlinkOrphan, Unlinking, SelectZero, UnlinkZero,
       DeleteZeroRow, Fail
  <2>2. QED
    BY <1>1, <2>1
<1>4. QED
  BY <1>2, <1>3 DEF StorageNext

\* In the middle of unlinking it can only go on unlinking or fail.
LEMMA UnlinkerStep ==
  ASSUME StorageInv, StorageNext, NEW w \in Worker, worker'[w] # worker[w],
         worker[w].pc \in {"unlink", "gcUnlink"}
  PROVE  /\ UNCHANGED catalogVars
         /\ worker[w].pc = "unlink" => UnlinkOrphan(w) \/ blobs' = blobs
<1>1. UnlinkOrphan(w) \/ UnlinkZero(w) \/ Fail(w)
  BY OwnStep DEF Start, StartImport, BeginChunk, BeginCommit, Abort, Purge, Cleanup, StartGc,
     Continue, PutNext, PublishImport, RecordChunk, VerifyNext, FinishCommit, SelectReferenced,
     SelectOpenChunks, ListOrphans, SelectZero, DeleteZeroRow
<1>2. QED
  BY <1>1 DEF UnlinkOrphan, UnlinkZero, Fail

\* A step that ends a sweep and unlinks is the unlinking of the last on its list.
LEMMA SweepEnds ==
  ASSUME QuietInv, ListsComplete, StorageNext, NEW w \in Worker,
         worker[w].pc = "unlink", worker'[w].pc = "idle", blobs' # blobs
  PROVE  blobs' \subseteq worker[w].seen
<1>1. worker[w] \in WorkerRow /\ worker \in [Worker -> WorkerRow]
  BY DEF QuietInv, StorageInv, StorageRows
<1>2. UnlinkOrphan(w)
  BY UnlinkerStep DEF QuietInv
<1>3. PICK c \in worker[w].todo :
        blobs' = blobs \ {c} /\ Unlinking(w, "unlink", worker[w].todo \ {c})
  BY <1>2 DEF UnlinkOrphan
<1> DEFINE row == [worker[w] EXCEPT !.pc = "unlink", !.todo = worker[w].todo \ {c}]
<1>4. row.pc = "unlink"
  BY <1>1 DEF WorkerRow
<1>5. worker[w].todo \ {c} = {}
  <2>1. ASSUME Become(w, row) PROVE FALSE
    <3>1. worker'[w] = row
      BY <1>1, <2>1 DEF Become
    <3>2. QED
      BY <1>4, <3>1
  <2>2. QED
    BY <1>3, <2>1 DEF Unlinking
<1>6. QED
  BY <1>3, <1>5 DEF ListsComplete

\* If no collector runs while an import or upload is in flight, a finished sweep
\* leaves no blob but those it found in use, with other collectors at work and
\* workers failing at any step.
THEOREM SweepLeavesNothing == QuietSpec => SweepComplete
<1> DEFINE Left == \A w \in Worker :
                     worker[w].pc = "unlink" /\ worker'[w].pc = "idle" /\ blobs' # blobs
                       => blobs' \subseteq worker[w].seen
<1>1. StorageInit => ListsComplete
  BY IdleRow DEF StorageInit, ListsComplete
<1>2. QuietInv /\ ListsComplete /\ [QuietNext]_storageVars => [Left]_storageVars
  BY SweepEnds DEF QuietNext
<1>3. [][Left]_storageVars => SweepComplete
  BY DEF SweepComplete
<1>4. QED
  BY <1>1, <1>2, <1>3, QuietInitInv, QuietNextInv, SweepNextInv, PTL DEF QuietSpec

\* Under the rule the two collectors unlink only blobs of chunks no version uses,
\* though one has no lock between its query and its unlinks and the other none at
\* all: of the first MCStorageGcRace shows that it needs the rule.
THEOREM CollectorsSpare == QuietSpec => GcKeepsReferenced /\ SweepKeepsReferenced
<1> DEFINE Gc == \A w \in Worker : worker[w].pc = "gcUnlink" /\ worker'[w].pc = "gcRow"
                   => \A c \in blobs \ blobs' : c \notin Referenced
           Sweep == \A w \in Worker : worker[w].pc = "unlink" /\ worker'[w] # worker[w]
                      => \A c \in blobs \ blobs' : c \notin Referenced
<1>1. QuietInv /\ QuietInv' /\ [QuietNext]_storageVars => [Gc]_storageVars /\ [Sweep]_storageVars
  <2> SUFFICES ASSUME QuietInv, QuietInv', StorageNext PROVE Gc /\ Sweep
    BY DEF QuietNext
  <2>1. ASSUME NEW w \in Worker, worker'[w] # worker[w],
               worker[w].pc \in {"unlink", "gcUnlink"}, NEW c \in blobs \ blobs'
        PROVE  c \notin Referenced
    <3>1. refCount' = refCount
      BY <2>1, UnlinkerStep DEF QuietInv, catalogVars
    <3>2. QED
      BY <2>1, <3>1 DEF QuietInv, StoredIfReferenced, Referenced
  <2>2. QED
    BY <2>1
<1>2. [][Gc]_storageVars => GcKeepsReferenced
  BY DEF GcKeepsReferenced
<1>3. [][Sweep]_storageVars => SweepKeepsReferenced
  BY DEF SweepKeepsReferenced
<1>4. QED
  BY <1>1, <1>2, <1>3, QuietInitInv, QuietNextInv, PTL DEF QuietSpec
=============================================================================
