# A verification of PSN Drive

This directory holds TLA+ specifications of PSN Drive (`psn_drive/`), a
self-hosted file vault: versioned files, content-defined sharing of encrypted
chunks, a trash, resumable uploads, share links and garbage collection, all on one
SQLite database and a directory of chunk files, served over HTTP to paired devices and
backed up while it works. TLC checks the specifications on small instances; TLAPS
proves the safety of all of them but `BatchMoves` for every instance.

    tlc -config MCShares.cfg MCShareLinks.tla             # one run
    tlapm VaultCatalogProofs.tla                          # the proofs of one module

`PROJECT.json` lists the runs, the source lines each definition stands for, the
hazards of the code and the mistakes (mutants) each property was seen to catch.

## The system

| part | state | operations | interacts with |
|---|---|---|---|
| Catalog (`vault.py`, `database.py`) | `files`, `versions`, `version_chunks`, `chunks`, `directories` | import, delete, restore, restore a version, move one or many, create directory, purge | every other part; each write is one transaction under SQLite's write lock |
| Upload sessions (`vault.py` 1179-1516) | `upload_sessions`, `upload_session_chunks` | create, chunk, commit, abort, expire, clean up | catalog tables, blob store |
| Blob store (`storage.py`) and its collectors | one file per chunk id | put, get, delete, list; `collect_garbage`, `collect_orphan_blobs` | called before, inside and after transactions |
| Trash retention (`vault.py` 1129-1177) | `vault_settings` | set policy, run | list of the trash, then purges |
| Quota, status | `vault_settings`, usage of the blob directory | set, read | import, upload |
| Share links (`vault.py` 525-691) | `share_links` | create, revoke, download with a limit and an expiry | versions (foreign keys), HTTP |
| Device authentication (`auth.py`) | devices, pairing sessions, challenges, tokens, admin action tokens | pair, challenge, exchange, verify, revoke, consume | HTTP |
| HTTP API (`http_api.py`) | rate limiter buckets | one thread per request | all of the above |
| Sync client (`sync_client.py`, `sync_lock.py`) | local state database, lock file | scan, upload, resume, watch | upload sessions over HTTP |
| Service runtime (`service_runtime.py`) | lock file, `server.json` | start, status, stop, clean up | processes |
| Backups (`database.py`, `disaster_backup.py`) | snapshots, archives, the `.psn` directory | back up, restore | database and blobs of a running vault |
| Artifact registry and sanctions (`vault.py` 748-929) | artifacts, permissions, sanctions | register, sanction, lift | HTTP, command line |

What is hard here:

* **Counters kept by hand.** `chunks.ref_count` is changed by import, upload
  commit, version restore and purge; a count that is too low lets the collector
  take shared data, one too high leaks it.
* **References without foreign keys.** `files.current_version_id` and
  `upload_sessions.committed_version_id` are plain columns; purge must leave no
  dangling one.
* **Idempotent retries.** A client that lost an answer repeats create, chunk and
  commit; sessions are reopened after an abort, an expiry or a newer version.
* **Blobs outside transactions.** Chunk files are written before, read inside and
  unlinked outside the transactions, by any number of request threads and
  command line processes, each of which may die.
* **Stale reads.** Both collectors, the retention run, a download and the stop
  command act on what they read earlier.
* **Authority in steps.** A request is authorised in one transaction, confirmed in
  another and acts in a third; a device may be revoked between any two.
* **Backups of a vault at work.** Metadata is copied first and chunk files later;
  a restore replaces a directory in several steps and may be cut short and forced again.

## Modules

| module | models | note |
|---|---|---|
| `VersionedStore` | the promise to a user: documents with a head and a history at paths, and a trash | abstract, no code of its own |
| `VaultCatalog` | all metadata transactions of `Vault`, upload sessions included | implements `VersionedStore` |
| `VaultStorage` | the same with blobs, workers, the write lock and failures | implements `VaultCatalog` |
| `BatchMoves` | `move_files` UPDATE by UPDATE against the unique index | implements `VaultCatalog` |
| `VaultRetention` | `VaultCatalog` with the retention run | |
| `ShareLinks` | share links and streaming downloads | `VaultStorage` with both |
| `SyncClient` | the directory sync client, its local records and its requests | `VaultCatalog` with a client of its upload sessions |
| `DeviceAuth` | pairing, challenges, tokens, confirmed acts, revocation | on its own |
| `ServiceRuntime` | server processes, their lock and state file, stop and clean-up | part of the next |
| `VaultBackups` | disaster and metadata backups and restores | `ServiceRuntime` with the control directory `.psn` |
| `VaultCatalogProofs`, `ShareLinksProofs`, `VaultStorageProofs`, `VaultRetentionProofs`, `SyncClientProofs`, `DeviceAuthProofs`, `VaultBackupsProofs` | theorems about the module each is named after | |
| `VaultStoreProofs` | `VaultCatalog` implements `VersionedStore` | |
| `MCBatchMoves` (with `VaultCatalog` itself), `MCVaultStorage`, `MCVaultRetention`, `MCShareLinks`, `MCSyncClient`, `MCDeviceAuth`, `MCVaultBackups` | instances for TLC | |

### VaultCatalog

| variable | code |
|---|---|
| `files` | rows of `files`; `status` is *free* (id not issued), *live* (`deleted_at` null), *trash*, *purged* (row deleted); ids are random and never issued twice, so a purged id keeps a tombstone |
| `versions` | rows of `versions` with their `version_chunks` as the sequence `chunks` |
| `chunkRows`, `refCount` | rows of `chunks` and the column `ref_count` |
| `sessions` | rows of `upload_sessions` by idempotency key, with `upload_session_chunks` as `rows` and `overdue` for an `expires_at` in the past |
| `dirs` | rows of `directories` |
| `clock` | the wall clock, needed only to order `deleted_at` |

Each writing method of `Vault` is one action, because the code brackets it with
`BEGIN IMMEDIATE` and `commit`: `ImportFile`, `DeleteFile`, `RestoreFile`,
`RestoreVersion`, `MoveFile`, `MoveFiles`, `CreateDirectory`, `PurgeFile`,
`CreateUpload`, `UploadChunk`, `CommitUpload`, `AbortUpload`, `CleanupUploads`.
`DropChunkRows` is the effect of a whole `collect_garbage` on the database;
`ExpireOverdue` is the part of `upload_chunk` and `commit_upload` that marks an
overdue session and fails. Calls that raise or only read change nothing and are
the absence of a step. Where two deleted files at a path have equal stamps,
`LIMIT 1` may return either, and so may `LatestTrashAt`; `deleted_at` is read
before the lock is taken, so it may lag by `LockWait`.

Abstractions: a content is the sequence of its chunk ids (ids are keyed digests of
the plaintext, one chunk size throughout), an upload's expected size and hash are
its number of chunks, the events table is left out since nothing reads it
to decide anything.

### VaultStorage

Adds `blobs` (ids with a file), `lock` (who holds the write lock over more than one
step) and `worker` (where each thread or process is inside a method). `import_file`
is `StartImport`, one `PutNext` per chunk, `PublishImport`; `upload_chunk` is
`BeginChunk`, `RecordChunk`; `commit_upload` is `BeginCommit`, one `VerifyNext` per
chunk, `FinishCommit`; `abort_upload` and `cleanup_uploads` go on to
`collect_orphan_blobs` (`SelectReferenced`, `SelectOpenChunks`, `ListOrphans`,
`UnlinkOrphan`); `purge_file` goes on to `collect_garbage` (`SelectZero`,
`UnlinkZero`, `DeleteZeroRow`), whose first `DELETE` takes the lock and whose
deletions take effect at the commit. `Fail` is a worker that dies or times out on
the lock: an open transaction rolls back, blobs stay as they are. One put and one
unlink are single steps: `put` writes a temporary file and renames it.

Nothing in the code keeps collectors away from writers. `StorageSpec` is the code as
it is; `QuietSpec` restricts it to schedules where no import or upload is in flight
while a collector runs, an operating rule an administrator could follow.

### BatchMoves

`VaultCatalog.Relocate` writes all paths of a batch at once, which is what others see of
it. `BatchMoves` has the statements in between: `Begin` takes the write lock and checks
the batch, `Lift` moves one source after the other to a temporary path, `Place` moves each
to its destination and creates the directories, `Commit` and `Rollback` end the
transaction. `batch` holds what is uncommitted; `Taken` is the index
`uq_live_file_path`, which SQLite checks at every UPDATE. While a batch is under way all
other transactions wait.

### VaultRetention

Adds the policy in days, the cutoff and the listed files of the current run. The
list is read once (`StartRun`); each listed *path* is purged in a transaction of its
own (`PurgeListed`), with the users' transactions in between.

### SyncClient

| variable | code |
|---|---|
| `local` | the files of the sync root: content and modification time |
| `synced` | rows of `synced_files` in `.psn-sync/state.sqlite3` |
| `client` | the local variables of `run` and `upload_file`, and how far they are |
| `late` | requests the client gave up (`pinned_raw_request` waits ten seconds) and a server thread may still execute |
| `edits`, `others`, `failures` | how much of the bounds is used |

A run is `StartRun`, then for each file `StatFile`, `HashFile`, `CreateSession`, one
`SendChunk` per chunk, `Commit`, `StatAfter`, `Record`, and at last `EndRun`, which
marks rows of files that are gone as *missing*. `ServerRefuses` and `StepFails` are
the exceptions the loop catches; the other files go on. Between any two steps the
user edits (`Edit`), other devices write, deadlines pass, requests are lost or
executed late, and the process dies (`Crash`, which releases the `SyncLock`: one
client at a time is what the lock gives). The server's half of each step is an action
of `VaultCatalog`. Idealised: the directory is flat and listed at once, a file is
hashed in one step, every edit gives a new modification time, a late request finds a
session by its key and not its id. `CalmSpec` adds that the user does not rewrite a
file between its first and its last `stat` of an upload; deleting it is allowed.

### ShareLinks

| variable | code |
|---|---|
| `links` | rows of `share_links`; *closed* is revoked or past `expires_at`, *gone* is a row SQLite deleted with its version |
| `readers` | a thread in `_stream_manifest` or a command in `export_file`: how far its download is |
| `offers` | history: the content a link was made for, its limit, the downloads it began |

A shared download looks at its row under the write lock (`BeginShared`) and then counts,
lists the chunks and commits (`FinishShared`); in between it may die. `FindVersion` and
`ListChunks` are the two queries of the other downloads; `StreamNext` reads one chunk
file, long after either. Every step of `VaultStorage`, on rows and on blobs, may come in
between, together with `Cascade` (`ON DELETE CASCADE` from versions to links). Readers are
threads of their own. `QuietShareSpec` is under the quiet rule of `VaultStorage`, which
keeps writers and collectors apart and downloads from neither.

### DeviceAuth

| variable | code |
|---|---|
| `devices`, `pairings` | rows of `devices` and `pairing_sessions` |
| `challenges` | rows of `auth_challenges` and of `admin_challenges`, told apart by purpose |
| `tokens` | rows of `access_tokens` and of `action_tokens`, told apart by purpose |
| `signed` | challenges the owner of the device has signed |
| `requests` | the local state of each request thread |
| `acts` | history: what was deleted or purged on the strength of each action token |

A purpose is `Login` or an act (an action on a path). `exchange_token` and
`exchange_admin_token` share `Grant`. A key is the text a device sends, as in the code:
`claim_pairing` decodes base64 but looks for the *text* among the devices, so what is said
of a revoked device is said of its row, and another spelling of its key may be registered
as a new device with a new code. Creating a challenge checks the device in one step
and inserts in another, as the code does; a request passes through `Authorize`,
`ConsumeActionToken` and `Perform`, and `EndRequest` is its end, an exception or the
death of the server. Deadlines are lapses at any time: a method that read the clock
before it waited for the lock may still take a row for valid, so a row lapses when no
method can any longer.

### ServiceRuntime and VaultBackups

| variable | code |
|---|---|
| `servers` | each `server-run` process: how far it is and the directory whose `server.lock` it holds |
| `stateFile` | the process named in `.psn/run/server.json`, nothing, or a torn file |
| `commands` | `server-stop` and `--cleanup-stale`, each after its look at the state file |
| `home`, `vaults` | the directory that is `.psn`, and what each directory that was or is `.psn` holds |
| `collector`, `dropped` | blobs a running collector is yet to unlink; chunks that lost their last reference |
| `archive`, `maker` | a disaster backup, and one in the making |
| `restorer` | `disaster-restore` and its safety directory |
| `backups`, `rollback` | metadata backups and `metadata-restore` |
| `report`, `mislaid` | what the operator was told; servers whose state file another process removed |

The lock is an `flock` that ends with its process. The state file is emptied and then
written (`OpenState`, `WriteState`), read and later acted on by commands, and removed by
path. A vault's content is the chunks its metadata refers to and those it holds;
`PutBlob`, `Publish` and `Release` change them, and a collector that has listed what
nothing refers to (`StartCollector`) unlinks one after the other (`Unlink`) or dies, as in
`VaultStorage` when no writer meets a collector. `stop` looks at the process
(`FindRunning`), signals it and polls in separate steps; a signal to a process that died
since fails (`SignalFails`). Process ids are not reused. `dropped` is the history of
chunks that lost their last reference, in a purge or when older metadata or an older
archive came back.

*Operating rules.* A disaster-restore is started when `server-stop` has reported that no
server runs and no state file is left, and no server, backup, collector or writing command
is started until it has ended, as `docs/DISASTER_BACKUP.md:94` asks; nothing in the code
enforces it. A server that lost its state file is not seen by that report; it is taken to
write nothing during the restore. A metadata-restore is under no such rule: imports,
purges, servers and backups go on between its two steps. Only collectors are kept out of
its way, and one metadata-restore is made at a time: a collector that has listed a chunk
which older metadata bring back would be the race of `storage_gc_race` once more.

## Runs

| run | question | instance |
|---|---|---|
| `catalog` | are counts, heads, paths, directories and history right under every mixture of calls, are uploads idempotent and their promises kept, does a batch ever meet the unique index, is it one transaction to others, and is the whole a `VersionedStore`? | 1 key, 2 paths (one in a directory), 2 files, 2 versions, 2 chunks, contents up to 2 chunks, all stamps equal, batches of a move into the directory and of a swap, 2 temporary paths |
| `shares` | are links and downloads what they promised, while files are written, purged and collected? | 1 worker and 2 readers under the quiet rule, 1 path, 2 files, 2 versions, 1 chunk that a content may hold twice, 1 link with a limit of 1 |
| `storage_quiet` | under the quiet rule, does every referenced chunk have its blob, and does a sweep finish its work, in spite of failures? | 2 workers, 1 key, 2 versions, 2 chunks, one chunk per content |
| `storage_race` | with no rule at all, do all steps add up to whole catalog transactions, and is the write lock always released? | 2 fair workers, 1 key, 2 versions, 1 chunk |
| `storage_gc_race` | **violated**: `collect_garbage` unlinks a blob that is referenced again | 2 workers |
| `storage_resume` | **violated**: a purge takes the blob of a chunk an open upload has recorded | 1 worker |
| `sync_calm` | are the client's records true, and is every file recorded in the end? | 1 path, contents empty or one of 2 chunks, 2 edits, 1 call by others, 1 failure, 6 version ids |
| `sync_torn` | **violated**: a file rewritten during its upload leaves a record of content the vault does not hold | 1 path, 2 edits |
| `retention` | **violated**: a retention run destroys a file that was not expired | 2 files at 1 path |
| `access` | does each challenge give one token, does a revoked device have nothing, was every act confirmed? | 2 devices, 2 codes, 2 keys, 3 challenges, 3 tokens, 2 requests, 2 acts |
| `operations` | is the state file true, are archives honest, is anything missing that was not dropped, does a whole vault always survive? | 2 server processes, 1 command, 2 directories, 1 chunk |
| `stale_cleanup` | **violated**: a cleanup removes the state of a starting server | 2 server processes, 1 command |

Why the bounds are enough: two workers give every race between a writer and a
collector; two files at one path give a live file over a trashed one and two
trashed ones; two versions give a file with history, a restored version, or two files that
share chunks; two chunks give sharing, and contents of two give repeated chunks,
partial uploads and collectors with lists longer than one. File, version and chunk
ids and workers are symmetric sets in runs without liveness: no definition chooses
among them but `TreeView`, whose `CHOOSE` is over a set of one. Ids run out in a
small instance; `IdsLeft` keeps a commit from starting that could not finish for
that reason alone. In `sync_calm` two edits give a change and its reversal, which with
a crash or a late request and a foreign write covers reopened, superseded, expired and
purged sessions; six version ids are more than its bounds can use. A symmetry set is
unsound with liveness, so ids are numbers there and the action constraint
`IdsInOrder` lets them be issued in order only. Runs do not check for deadlock: a vault no one uses, or whose
bounded ids and clock are used up, is at rest.

In `catalog` two live files on two paths give the swap, the one batch of two that meets the
index without temporary paths; every batch is also taken as one step of `VaultCatalog`, so
the statements are followed for two of them only. The clock stands still there: among equal
stamps any deletion may be the latest, so every order of stamps is covered; `storage_quiet`
and `retention` have a clock that moves. In `shares` two readers and one link with a limit of one give two that look at
the last use of a link at once, and a link that is revoked, lapses or is cascaded away
between the look and the count; the worker gives an import, a purge and a sweep beside two
downloads. In `access` three challenges give a
login, a confirmation and a repeat, on one device or on two; two requests give a
revocation or another act between any two steps of each. In `operations` two processes
give a server and its successor, two directories a restore over a vault and a second
one over the half-copied first; one command acts on what it read while everything else
moves. `BackupsApart` is a bound on the interleavings of this run: servers and commands
stand still while a disaster backup is being made, as neither reads what the other
writes. The violation runs need no such bound. The theorems of `VaultBackupsProofs` do not assume it.

Fairness (`FairStorageSpec`): each worker that has started goes on
(`WF(Continue(w))`), because it is a thread of a running process; it may still fail
at any step. `LockReleased` needs no more: a holder of the lock waits for nothing.
`CalmSpec` assumes `WF(ClientStep)`: `sync-watch` or the task scheduler starts run after
run, and a run that has started goes on; edits, failures and foreign writes are bounded
but need not happen. Server threads are not assumed to execute late requests.

### What the violations say

1. *`collect_garbage` against writers.* It reads ids with `ref_count = 0`, unlinks
   the blob, and only then deletes the row if the count is still zero. The row is safe
   (`ImplementsCatalog`), the blob is not: an import that references the chunk in
   between publishes a version whose data is gone.
   A relative that no run shows: `collect_orphan_blobs` reads the ids in use before it lists
   the directory, and a blob put and published in between is unlinked.
2. *Resuming an upload.* Even with one worker: `collect_garbage` does not look at open
   sessions, so purging a file that shares a chunk with an open upload makes that
   upload's commit fail; the session still reports the chunk as uploaded.
3. *Retention by path.* The run lists files and purges paths; `purge_file` takes the
   latest deletion at the path, which may be within the retention period.
4. *A torn upload.* The client hashes a file for its key and reads it again to upload
   it; the server compares no hash. If the file changes in between, the session of the
   old content is committed with the new one. The client notices and records nothing,
   but the session stays: when the file returns to its old content while that version is
   current, `create_upload` answers *committed* and the client records the old content as
   stored. It never was, and no later run uploads it. A relative of this that no run
   shows: a change of size between `stat` and hash opens a session whose size does not
   fit its key, and every later upload of that content is a conflict.
5. *Cleaning up after a server that is coming up.* `--cleanup-stale` takes an unreadable
   state file for a stale one, and `write_text` empties the file before it fills it: the
   state of a starting server is removed and `server-stop` no longer finds it. In the same
   way a look at a dead server's state ends in the removal of its successor's.
   `docs/SERVICE_OPERATIONS.md:111` promises otherwise. `StateNamesServer`, which holds,
   says what is left: the file names no wrong process, and a server it does not name has
   lost its state to another's removal.

## Proofs

`VaultCatalogProofs` proves, from `CatalogAssumption` alone (finitely many version
ids, natural bounds, ancestors transitive, null values distinct), that every state of
`Spec` satisfies `CatalogInv`. `TypeOK` is not inductive: a purge keeps counts at or
above zero only because they are exact. `CatalogInv` therefore conjoins the type
invariant, `RowsFilled` (rows in use have their columns), `RefCountsExact`,
`UniqueLivePath`, `HeadsOwned`, `CommittedUploadHolds` and `TreeClosed`. The lemmas
go bottom-up: cardinalities of `UsesIn` when versions are added and removed
(`AddVersionCounts`, `PurgeCounts`), what a change of file rows, of sessions or of a
head preserves (`FileRowsInv`, `SetSessionInv`, `NewHeadInv`, `PublishInv`), one
lemma per action, and `CatalogNextInv` that puts them together.

`VaultStorageProofs` carries this over to workers and blobs, for any number of workers.

* `StorageImplementsCatalog` (`StorageSpec => ImplementsCatalog`): every step of every
  worker is one transaction of `VaultCatalog` or changes no metadata. Its invariant
  `StorageInv` is `CatalogInv`, the types, and `MidMethod`: whoever has uncommitted writes
  holds the lock, and the rows an open `collect_garbage` has deleted so far still have
  count zero. The last part is why the collector's commit is a `DropChunkRows`:
  its list is stale, its lock is not. `StorageSafe` and `StorageTyped` follow.
* `NothingLost` (`QuietSpec => []StoredIfReferenced`): if writers and collectors keep out
  of each other's way, every referenced chunk has its blob. `QuietInv` adds
  `BlobsSafe`: the chunks a writer has passed are stored, and no collector's list holds a
  referenced chunk. Only collectors remove blobs; only writers give a chunk its first
  reference, after storing or verifying it; `RestoreVersion`, which the quiet rule
  does not hold back, references only chunks that are referenced already.
  Without the rule the theorem is false (`storage_gc_race`).

* `HistoryLasts` (`Spec => HistoryKept`): once a version exists its file, number,
  origin and chunks never change, until its file is purged with all of them.
  `CommitsStay` (`Spec => CommitIdempotent`): a retry finds what its first attempt left;
  `PurgeSparesCurrent` is the point where purge and commit meet.

`ShareLinksProofs` adds links and readers to `StorageInv`. `ShareInv` says that a link's
version is present and still holds what was offered, that counts are what was used, that a
reader who has looked at a link and not yet counted holds the write lock and the link is
active with a use left, and that a reader who has found a version works from its whole
manifest; every step of the vault keeps it because versions keep their chunks
(`VersionSteps`), links of purged versions are cascaded away and nobody else has the lock.
`LinksPinned`, `LimitsKept` and `ClosedLinksServeNothing` follow, for any number of links,
readers and downloads. `DownloadsComplete` (`QuietShareSpec => []OnlyPurgeBreaksDownloads`)
adds `QuietInv` of `VaultStorageProofs`: a present version's chunks are referenced, and
under the quiet rule a referenced chunk has its blob file. Without the rule it is false, by
the same behaviours as `storage_gc_race`.

`DeviceAuthProofs` proves `AuthSafe`: `AuthInv` adds to the types that a confirmed
request holds a spent token that nobody else holds and that has done nothing yet
(`Holding`, for `ActsConfirmed`), that live tokens belong to active devices and a key to
one device (`LiveOwned`, `OneKeyEach`, for `RevokedHasNothing`). `SingleUse` counts
tokens against signed, used challenges; its inductive form adds that both sets are finite,
and every exchange adds one to each.

`VaultBackupsProofs` proves `BackupSafe`. `BackupInv` adds to the properties whose lock is
whose (`OneHolder`), that a server which still has its state or is yet to write it runs on
the vault in place, which nobody restores (`StateOfHome`), that an archive in the making
together with what it has still to add covers all of its snapshot that was not released
(`MakerHonest`), who keeps out of whose way (`OneAtATime`), and, for `NothingMissing`, that
what an archive lacks was dropped (`DroppedKnown`) and that whatever a metadata backup or
any directory refers to was dropped or is referred to by the vault in place
(`NothingForgotten`). The last part is why a rollback is safe to the extent it is: it
brings back what is stored or what is known to have been dropped. `StateFileTrue`,
`ArchivesHonest`, `OnlyDroppedMissing` and `VaultSurvives` follow, for any number of
processes, commands, directories and chunks, under the operating rules and nothing else.
`BackupInv` was model-checked on the instance of `operations` before it was proved.

`SyncClientProofs` is about the client as it is and about the client under `CalmSpec`.

* `SyncSafe`, `SyncTyped`: `SyncInv` is `CatalogInv` with the types of the client, of its
  records and of the requests still under way. No rule and no bound is needed for it.
* `SyncedFilesStored` (`CalmSpec => []SyncedIsStored`). That a record is true says nothing
  of the record to come, so `CalmInv` follows a content from the file to the record: what
  the client sends is what it hashed (`ClientTrue`), a request somebody may still execute
  says of some content what the client saw of it (`RequestTrue`), and the session of a
  content is for its path and its size and holds chunks of no other (`SessionsTrue`).
  `UploadedWhole` then gives that a commit publishes the content its key stands for, and
  `Names` that the version keeps it or is purged. The argument breaks exactly where
  `sync_torn` breaks: a file rewritten during its upload falsifies `ClientTrue`. `CalmInv`
  was model-checked on the instance of `sync_calm` before it was proved.

*What surrounds the catalog leaves it a catalog.* `StorageImplementsCatalog`,
`SyncImplementsCatalog`, `SharesImplementCatalog` and `RetentionImplementsCatalog` say of
every composition that each of its steps is one transaction of `VaultCatalog` or leaves
the metadata alone, so the theorems of `VaultCatalogProofs` hold there too. For storage it
takes `MidMethod`, for the client the types of late requests, for retention that listed
paths are paths; share links inherit it from storage. That a batch of `BatchMoves` is
one `MoveFiles` is shown by its run only.

`VaultStoreProofs` proves `VaultIsAStore` (`Spec => ImplementsStore`), one lemma per
operation of `VersionedStore`. `TreeView` chooses the live file at a path; with
`UniqueLivePath` there is no choice (`TreeRead`), and all else is said of `DocumentOf`.
Documents at other paths stay as they are because no step changes a version's content and
a version belongs to one file (`DocumentKept`, `AddedVersion`). The trash is a *set* of pairs, so a restore or a
purge loses a pair unless the trash holds an equal document at the same path twice.
`DocumentAssumption` (the value for *no document* is not a document) is the one
assumption it adds; it concerns the abstract view and not the code. With the above it
gives `StorageIsAStore` and `SyncedVaultIsAStore`.

*The end of a sweep.* `SweepLeavesNothing` (`QuietSpec => SweepComplete`) rests on
`ListsComplete`: while a sweeper unlinks, every blob was found by its queries or
is on its list. Only a writer can add a blob, and under the quiet rule none is at work.
`CollectorsSpare` states under that rule, of both collectors, what `storage_gc_race`
refutes without it of one.

Every safety invariant and action property of the passing runs is proved but the two of
`BatchMoves`, which are model-checked. Only model-checked, too: the liveness properties
`LockReleased` and `EventuallySynced`, which are beyond the prover, and the five
properties of the runs that expect a violation, which are false of the code.
`PurgesOnlyExpired` and `RecordedChunksStored` are not even true under a
rule on schedules alone: one run of the retention or one purge is enough to break them.

## Not modelled

* *Quota.* `set_quota` writes one row that imports and uploads compare with a sum in
  bytes; a call it rejects changes nothing, and every model lets any call not happen.
  That `import_file` takes the sum without a lock, so that concurrent imports may each fit
  and together exceed the quota, is listed as a hazard.
* *HTTP.* JSON, routing, console pages and TLS; the rate limiter, which only refuses.
* *Service.* Preflight, status, logs and diagnostics report and decide nothing.
* *Sync client.* Its log-in and the statistics in `sync_runs`. A commit that fails because
  a collector took the blob of a recorded chunk is one of the failing requests; that its
  repetitions fail too, until the session is overdue, is left out of `EventuallySynced`.
* *A write between the copy and the overwrite of `metadata-restore`.* It may happen in
  `VaultBackups` and is then in no backup; `docs/METADATA_BACKUP.md:43` says that a lock is
  missing, and no property claims otherwise.
* *Spellings of a key.* Which base64 texts decode to the same key.
* *A revoked link, or device, brought back* by older metadata
  (`docs/METADATA_BACKUP.md:43`): `ShareLinks` and `DeviceAuth` have no rollback, and
  `VaultBackups` has only chunks.
* *Artifact registry and sanctions.* Each call writes rows of its own in one transaction
  and reads nothing that another writes but their status.
* *Encryption*, beyond "equal ids, equal plaintext".
* The command line, the release packager, the web interface and the protocol
  demonstration in `psn/` hold no state that another part relies on.
* *What the user confirms is a path.* An act is confirmed for a path, and the file there
  may change before it is performed; composing `DeviceAuth` with `VaultCatalog` would
  say no more than that.

## Plan

Done: every module above, its runs, and a proof of every safety property that the runs
check and the code has, `BatchMoves` excepted. What is left:

1. A run and a theorem for the retention as it was meant: with at most one file in the
   trash at any path and nothing deleted between the listing and the purges, a run purges
   only what has expired.
2. Proofs for `BatchMoves`: what the index sees at each step follows from the batch's checks
   and from `UniqueLivePath`, for batches of any length.
