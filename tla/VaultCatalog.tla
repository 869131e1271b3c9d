---------------------------- MODULE VaultCatalog ----------------------------
(***************************************************************************)
(* The SQLite metadata of a vault: files, versions, version_chunks,        *)
(* chunks, upload_sessions, upload_session_chunks and directories.  Every  *)
(* method of class Vault that writes metadata does so in one transaction   *)
(* under the write lock, so each is one action here.  Encrypted chunk      *)
(* files live outside the transactions; VaultStorage adds them.            *)
(*                                                                         *)
(* Data is abstracted: a content is the sequence of its chunk ids (a chunk *)
(* id is a keyed digest of the plaintext) and one chunk size is used       *)
(* throughout, so equal contents are equal sequences; an upload's expected *)
(* size is its number of chunks, ordinals start at 1, and the write-only   *)
(* events table is left out.                                               *)
(*                                                                         *)
(* A definition whose name ends in _mutant is a plausible mistake in the   *)
(* definition after it; no specification uses it.                          *)
(***************************************************************************)
EXTENDS Integers, FiniteSets, Functions

CONSTANTS FileId, VersionId,  \* random ids, never issued twice
          Chunk,              \* chunk ids
          Key,                \* idempotency keys, one upload session each
          Path, Dir,          \* virtual paths of files and of directories
          Above,              \* the proper ancestors of each path and directory
          MaxChunks,          \* bound: chunks in one content
          MaxClock,           \* bound: the wall clock
          LockWait,           \* how old a timestamp may be once the lock is held
          NoPath, NoVersion, NoFile, NoChunk

ASSUME CatalogAssumption ==
  /\ IsFiniteSet(VersionId)
  /\ MaxChunks \in Nat /\ MaxClock \in Nat /\ LockWait \in Nat
  /\ Above \in [Path \cup Dir -> SUBSET Dir]
  /\ \A x \in Path \cup Dir : \A d \in Above[x] : Above[d] \subseteq Above[x]
  /\ NoVersion \notin VersionId /\ NoFile \notin FileId /\ NoChunk \notin Chunk

VARIABLES files,      \* rows of files; a purged id keeps a tombstone
          versions,   \* rows of versions with their version_chunks
          chunkRows,  \* ids that have a row in chunks
          refCount,   \* chunks.ref_count (0 where there is no row)
          sessions,   \* rows of upload_sessions with their upload_session_chunks
          dirs,       \* rows of directories
          clock       \* wall clock, for deleted_at

catalogVars == <<files, versions, chunkRows, refCount, sessions, dirs, clock>>

-----------------------------------------------------------------------------
(* Rows *)

Content == UNION {[1..n -> Chunk] : n \in 0..MaxChunks}

FileRow == [status : {"free", "live", "trash", "purged"}, path : Path \cup {NoPath},
            current : VersionId \cup {NoVersion}, deletedAt : 0..MaxClock]

VersionRow == [status : {"free", "present", "purged"}, file : FileId \cup {NoFile},
               chunks : Content]

SessionRow == [state : {"none", "open", "committed", "aborted", "expired"},
               path : Path \cup {NoPath}, size : 0..MaxChunks,
               rows : [1..MaxChunks -> Chunk \cup {NoChunk}],
               version : VersionId \cup {NoVersion}, overdue : BOOLEAN]

NoFileRow(status) ==
  [status |-> status, path |-> NoPath, current |-> NoVersion, deletedAt |-> 0]

NoVersionRow(status) == [status |-> status, file |-> NoFile, chunks |-> <<>>]

NoRows == [i \in 1..MaxChunks |-> NoChunk]

NoSession == [state |-> "none", path |-> NoPath, size |-> 0, rows |-> NoRows,
              version |-> NoVersion, overdue |-> FALSE]

-----------------------------------------------------------------------------
(* Queries *)

FilesAt(p, status) == {f \in FileId : files[f].status = status /\ files[f].path = p}

LiveAt(p) == FilesAt(p, "live")

\* ORDER BY deleted_at DESC LIMIT 1: any of the latest when stamps are equal.
LatestTrashAt(p) ==
  {f \in FilesAt(p, "trash") :
     \A g \in FilesAt(p, "trash") : files[g].deletedAt <= files[f].deletedAt}

VersionsOf(f) == {v \in VersionId : versions[v].status = "present" /\ versions[v].file = f}

\* The path's current version already has this size and hash.
HeadIs(p, content) == \E f \in LiveAt(p) : versions[files[f].current].chunks = content

\* The version_chunks rows of the versions V that name chunk c.
UsesIn(V, c) ==
  {u \in V \X (1..MaxChunks) :
     u[2] \in DOMAIN versions[u[1]].chunks /\ versions[u[1]].chunks[u[2]] = c}

PresentVersions == {v \in VersionId : versions[v].status = "present"}

Occurrences(content, c) == {i \in DOMAIN content : content[i] = c}

-----------------------------------------------------------------------------
Init ==
  /\ files = [f \in FileId |-> NoFileRow("free")]
  /\ versions = [v \in VersionId |-> NoVersionRow("free")]
  /\ chunkRows = {}
  /\ refCount = [c \in Chunk |-> 0]
  /\ sessions = [k \in Key |-> NoSession]
  /\ dirs = {}
  /\ clock = 0

Tick ==
  /\ clock < MaxClock
  /\ clock' = clock + 1
  /\ UNCHANGED <<files, versions, chunkRows, refCount, sessions, dirs>>

-----------------------------------------------------------------------------
(* Publishing a version: the part import_file, commit_upload and           *)
(* restore_version share.                                                  *)

\* A chunk that occurs twice in a content is counted once.
AddVersionOnce_mutant(f, v, content) ==
  /\ versions[v].status = "free"
  /\ versions' = [versions EXCEPT ![v] =
                    [status |-> "present", file |-> f, chunks |-> content]]
  /\ refCount' = [c \in Chunk |-> refCount[c] + IF c \in Range(content) THEN 1 ELSE 0]
  /\ chunkRows' = chunkRows \cup Range(content)

\* The live file's newest version is overwritten in place.
AddVersionInPlace_mutant(f, v, content) ==
  /\ versions[v].status = "free" \/ v = files[f].current
  /\ versions' = [versions EXCEPT ![v] =
                    [status |-> "present", file |-> f, chunks |-> content]]
  /\ refCount' = [c \in Chunk |-> refCount[c] + Cardinality(Occurrences(content, c))]
  /\ chunkRows' = chunkRows \cup Range(content)

\* INSERT version and version_chunks; INSERT or increment each chunk row.
AddVersion(f, v, content) ==
  /\ versions[v].status = "free"
  /\ versions' = [versions EXCEPT ![v] =
                    [status |-> "present", file |-> f, chunks |-> content]]
  /\ refCount' = [c \in Chunk |-> refCount[c] + Cardinality(Occurrences(content, c))]
  /\ chunkRows' = chunkRows \cup Range(content)

\* Publish at the path's live file, or at a new file with its directories.
Publish(p, content, v) ==
  \E f \in FileId :
    /\ IF LiveAt(p) # {} THEN f \in LiveAt(p) ELSE files[f].status = "free"
    /\ AddVersion(f, v, content)
    /\ files' = [files EXCEPT ![f] =
                   [status |-> "live", path |-> p, current |-> v, deletedAt |-> 0]]
    /\ dirs' = IF LiveAt(p) = {} THEN dirs \cup Above[p] ELSE dirs

\* The transaction of import_file; unchanged content rolls back instead.
ImportFile(p, content) ==
  /\ ~HeadIs(p, content)
  /\ \E v \in VersionId : Publish(p, content, v)
  /\ UNCHANGED <<sessions, clock>>

-----------------------------------------------------------------------------
(* Files *)

\* deleted_at is read before BEGIN IMMEDIATE, so it may lag behind the clock.
DeleteFile(p) ==
  /\ \E f \in LiveAt(p), t \in 0..MaxClock :
       /\ t <= clock /\ clock <= t + LockWait
       /\ files' = [files EXCEPT ![f].status = "trash", ![f].deletedAt = t]
  /\ UNCHANGED <<versions, chunkRows, refCount, sessions, dirs, clock>>

\* No look for a live file at the path.
RestoreOverLive_mutant(p) ==
  /\ \E f \in LatestTrashAt(p) :
       files' = [files EXCEPT ![f].status = "live", ![f].deletedAt = 0]
  /\ UNCHANGED <<versions, chunkRows, refCount, sessions, dirs, clock>>

RestoreFile(p) ==
  /\ LiveAt(p) = {}
  /\ \E f \in LatestTrashAt(p) :
       files' = [files EXCEPT ![f].status = "live", ![f].deletedAt = 0]
  /\ UNCHANGED <<versions, chunkRows, refCount, sessions, dirs, clock>>

\* The chunks are linked to the new version without counting them.
RestoreUncounted_mutant(p, old) ==
  /\ \E f \in LiveAt(p), v \in VersionId :
       /\ old \in VersionsOf(f)
       /\ versions[v].status = "free"
       /\ versions' = [versions EXCEPT ![v] =
                         [status |-> "present", file |-> f, chunks |-> versions[old].chunks]]
       /\ files' = [files EXCEPT ![f].current = v]
  /\ UNCHANGED <<chunkRows, refCount, sessions, dirs, clock>>

\* The old version's chunks become a new, current version.
RestoreVersion(p, old) ==
  /\ \E f \in LiveAt(p), v \in VersionId :
       /\ old \in VersionsOf(f)
       /\ AddVersion(f, v, versions[old].chunks)
       /\ files' = [files EXCEPT ![f].current = v]
  /\ UNCHANGED <<sessions, dirs, clock>>

\* The destination's directories are not created.
RelocateOnly_mutant(S, to) ==
  /\ files' = [f \in FileId |->
                 IF files[f].status = "live" /\ files[f].path \in S
                 THEN [files[f] EXCEPT !.path = to[files[f].path]]
                 ELSE files[f]]
  /\ UNCHANGED <<versions, chunkRows, refCount, sessions, dirs, clock>>

\* Files are moved by path, those in the trash with them.
RelocateTrash_mutant(S, to) ==
  /\ files' = [f \in FileId |->
                 IF files[f].path \in S THEN [files[f] EXCEPT !.path = to[files[f].path]]
                 ELSE files[f]]
  /\ dirs' = dirs \cup UNION {Above[to[s]] : s \in S}
  /\ UNCHANGED <<versions, chunkRows, refCount, sessions, clock>>

\* Live files at the paths S move to their destinations: what a transaction of
\* move_file or move_files has done when it commits.
Relocate(S, to) ==
  /\ files' = [f \in FileId |->
                 IF files[f].status = "live" /\ files[f].path \in S
                 THEN [files[f] EXCEPT !.path = to[files[f].path]]
                 ELSE files[f]]
  /\ dirs' = dirs \cup UNION {Above[to[s]] : s \in S}
  /\ UNCHANGED <<versions, chunkRows, refCount, sessions, clock>>

MoveFile(p, q) ==
  /\ p # q
  /\ LiveAt(p) # {}
  /\ LiveAt(q) = {}
  /\ Relocate({p}, [s \in {p} |-> q])

\* A batch may swap paths: a destination that is also a source is no conflict.
MoveFiles(S, to) ==
  /\ S # {}
  /\ \A s, t \in S : to[s] = to[t] => s = t
  /\ \A s \in S : LiveAt(s) # {}
  /\ \A s \in S : LiveAt(to[s]) # {} => to[s] \in S
  /\ Relocate(S, to)

CreateDirectory(d) ==
  /\ dirs' = dirs \cup Above[d] \cup {d}
  /\ UNCHANGED <<files, versions, chunkRows, refCount, sessions, clock>>

\* The versions of the purged file stay behind.
PurgeFileOnly_mutant(p) ==
  /\ \E f \in LatestTrashAt(p) : files' = [files EXCEPT ![f] = NoFileRow("purged")]
  /\ UNCHANGED <<versions, chunkRows, refCount, sessions, dirs, clock>>

\* The sessions that committed a purged version stay behind.
PurgeKeepsSessions_mutant(p) ==
  /\ \E f \in LatestTrashAt(p) :
       LET gone == VersionsOf(f) IN
       /\ files' = [files EXCEPT ![f] = NoFileRow("purged")]
       /\ versions' = [v \in VersionId |->
                         IF v \in gone THEN NoVersionRow("purged") ELSE versions[v]]
       /\ refCount' = [c \in Chunk |-> refCount[c] - Cardinality(UsesIn(gone, c))]
  /\ UNCHANGED <<chunkRows, sessions, dirs, clock>>

\* The transaction of purge_file; collect_garbage then runs on its own.
PurgeFile(p) ==
  /\ \E f \in LatestTrashAt(p) :
       LET gone == VersionsOf(f) IN
       /\ files' = [files EXCEPT ![f] = NoFileRow("purged")]
       /\ versions' = [v \in VersionId |->
                         IF v \in gone THEN NoVersionRow("purged") ELSE versions[v]]
       /\ refCount' = [c \in Chunk |-> refCount[c] - Cardinality(UsesIn(gone, c))]
       /\ sessions' = [k \in Key |->
                         IF sessions[k].version \in gone THEN NoSession ELSE sessions[k]]
  /\ UNCHANGED <<chunkRows, dirs, clock>>

\* What one run of collect_garbage deletes from chunks: its list may be stale,
\* and every row is deleted only if its count is still zero.
DropChunkRows(C) ==
  /\ C \subseteq chunkRows
  /\ \A c \in C : refCount[c] = 0
  /\ chunkRows' = chunkRows \ C
  /\ UNCHANGED <<files, versions, refCount, sessions, dirs, clock>>

-----------------------------------------------------------------------------
(* Upload sessions *)

SetSession(k, row) ==
  /\ sessions' = [sessions EXCEPT ![k] = row]
  /\ UNCHANGED <<files, versions, chunkRows, refCount, dirs, clock>>

StillCurrent(k) ==
  \E f \in LiveAt(sessions[k].path) : files[f].current = sessions[k].version

Reopened(row) ==
  [row EXCEPT !.state = "open", !.version = NoVersion, !.overdue = FALSE]

\* A committed session is reopened without asking whether it is still current.
CreateUploadAgain_mutant(k, p, n) ==
  \/ /\ sessions[k].state = "none"
     /\ SetSession(k, [NoSession EXCEPT !.state = "open", !.path = p, !.size = n])
  \/ /\ sessions[k].path = p /\ sessions[k].size = n
     /\ sessions[k].state \in {"committed", "aborted", "expired"}
     /\ SetSession(k, Reopened(sessions[k]))

\* A known key with another path or size is a conflict; an open session and a
\* committed one whose version is still current are returned as they are.
CreateUpload(k, p, n) ==
  \/ /\ sessions[k].state = "none"
     /\ SetSession(k, [NoSession EXCEPT !.state = "open", !.path = p, !.size = n])
  \/ /\ sessions[k].path = p /\ sessions[k].size = n
     /\ \/ /\ sessions[k].state = "committed"
           /\ ~StillCurrent(k)
           /\ SetSession(k, Reopened(sessions[k]))
        \/ /\ sessions[k].state \in {"aborted", "expired"}
           /\ SetSession(k, [Reopened(sessions[k]) EXCEPT !.rows = NoRows])

\* The session's time to live runs out; nothing is written yet.
DeadlinePasses(k) ==
  /\ sessions[k].state = "open" /\ ~sessions[k].overdue
  /\ SetSession(k, [sessions[k] EXCEPT !.overdue = TRUE])

\* upload_chunk and commit_upload mark an overdue session and fail.
ExpireOverdue(k) ==
  /\ sessions[k].state = "open" /\ sessions[k].overdue
  /\ SetSession(k, [sessions[k] EXCEPT !.state = "expired"])

Accepts(k) == sessions[k].state = "open" /\ ~sessions[k].overdue

\* A recorded ordinal is answered without a write (or is a conflict).
UploadChunk(k, i, c) ==
  /\ Accepts(k)
  /\ i <= sessions[k].size
  /\ sessions[k].rows[i] = NoChunk
  /\ SetSession(k, [sessions[k] EXCEPT !.rows[i] = c])

Uploaded(k) == [i \in 1..sessions[k].size |-> sessions[k].rows[i]]

IsComplete(k) == \A i \in 1..sessions[k].size : sessions[k].rows[i] # NoChunk

MarkCommitted(k, v) ==
  sessions' = [sessions EXCEPT ![k].state = "committed", ![k].version = v]

CommitUpload(k) ==
  /\ Accepts(k)
  /\ IsComplete(k)
  /\ LET p == sessions[k].path IN
     \/ /\ HeadIs(p, Uploaded(k))
        /\ \E f \in LiveAt(p) : MarkCommitted(k, files[f].current)
        /\ UNCHANGED <<files, versions, chunkRows, refCount, dirs>>
     \/ /\ ~HeadIs(p, Uploaded(k))
        /\ \E v \in VersionId : Publish(p, Uploaded(k), v) /\ MarkCommitted(k, v)
  /\ UNCHANGED clock

AbortUpload(k) ==
  /\ sessions[k].state = "open"
  /\ SetSession(k, [sessions[k] EXCEPT !.state = "aborted"])

\* cleanup_uploads expires every overdue session at once.  It reads the clock
\* before it waits for the lock: a deadline that passes in between is as good
\* as passing afterwards, since whoever notices a deadline marks the session.
CleanupUploads ==
  /\ \E k \in Key : sessions[k].state = "open" /\ sessions[k].overdue
  /\ sessions' = [k \in Key |->
                    IF sessions[k].state = "open" /\ sessions[k].overdue
                    THEN [sessions[k] EXCEPT !.state = "expired"]
                    ELSE sessions[k]]
  /\ UNCHANGED <<files, versions, chunkRows, refCount, dirs, clock>>

-----------------------------------------------------------------------------
Next ==
  \/ Tick
  \/ CleanupUploads
  \/ \E p \in Path, content \in Content : ImportFile(p, content)
  \/ \E p \in Path : DeleteFile(p) \/ RestoreFile(p) \/ PurgeFile(p)
  \/ \E p \in Path, v \in VersionId : RestoreVersion(p, v)
  \/ \E p, q \in Path : MoveFile(p, q)
  \/ \E S \in SUBSET Path : \E to \in [S -> Path] : MoveFiles(S, to)
  \/ \E d \in Dir : CreateDirectory(d)
  \/ \E C \in SUBSET Chunk : DropChunkRows(C)
  \/ \E k \in Key, p \in Path, n \in 0..MaxChunks : CreateUpload(k, p, n)
  \/ \E k \in Key : DeadlinePasses(k) \/ ExpireOverdue(k) \/ CommitUpload(k) \/ AbortUpload(k)
  \/ \E k \in Key, i \in 1..MaxChunks, c \in Chunk : UploadChunk(k, i, c)

Spec == Init /\ [][Next]_catalogVars

-----------------------------------------------------------------------------
(* Properties *)

\* Every row has the columns the schema declares, and no counter goes below
\* zero (the CHECK on chunks.ref_count never fires).
TypeOK ==
  /\ files \in [FileId -> FileRow]
  /\ versions \in [VersionId -> VersionRow]
  /\ chunkRows \subseteq Chunk
  /\ refCount \in [Chunk -> Nat]
  /\ sessions \in [Key -> SessionRow]
  /\ dirs \subseteq Dir
  /\ clock \in 0..MaxClock

\* A chunk's ref_count is exactly the number of version_chunks rows naming it,
\* whatever mixture of imports, uploads, version restores and purges ran, and
\* a chunk with references has its row: too low and a purge of another file
\* would let collect_garbage take shared data, too high and it is never freed.
RefCountsExact ==
  \A c \in Chunk :
    /\ refCount[c] = Cardinality(UsesIn(PresentVersions, c))
    /\ refCount[c] > 0 => c \in chunkRows

\* After every transaction there is at most one live file per path, though
\* imports, uploads, restores from the trash and moves compete for it and each
\* looks for itself whether it is free.  (Between the statements of a batch move
\* the unique index is asked as well: see BatchMoves.)
UniqueLivePath ==
  \A f, g \in FileId :
    /\ files[f].status = "live" /\ files[g].status = "live"
    /\ files[f].path = files[g].path
    => f = g

\* current_version_id has no foreign key: every file, live or in the trash,
\* still points to a version that exists and is its own, and no version
\* outlives its file.
HeadsOwned ==
  /\ \A f \in FileId :
       files[f].status \in {"live", "trash"} => files[f].current \in VersionsOf(f)
  /\ \A v \in PresentVersions : files[versions[v].file].status \in {"live", "trash"}

\* The version a committed session answers a retry with exists and holds
\* exactly the chunks that were uploaded, also after the session was reopened
\* with its old chunk rows and committed again; committed_version_id has no
\* foreign key either.
CommittedUploadHolds ==
  \A k \in Key :
    sessions[k].state = "committed" =>
      /\ sessions[k].version \in PresentVersions
      /\ versions[sessions[k].version].chunks = Uploaded(k)

\* Directories are closed upwards, and every file that can be seen or restored
\* has all its ancestors: restore_file creates none.
TreeClosed ==
  /\ \A d \in dirs : Above[d] \subseteq dirs
  /\ \A f \in FileId : files[f].status \in {"live", "trash"} => Above[files[f].path] \subseteq dirs

\* A version never changes owner or content and is gone only by purging its
\* file from the trash: no write to a live file loses a version of it.
HistoryKept ==
  [][\A v \in PresentVersions :
       \/ versions'[v] = versions[v]
       \/ /\ versions'[v].status = "purged"
          /\ files[versions[v].file].status = "trash"
          /\ files'[versions[v].file].status = "purged"]_catalogVars

\* While the version a session committed is the current version of a live file
\* at its path, no retry of create, chunk or commit, no expiry sweep and no purge
\* of another file, not even one that was at the same path, touches the session.
CommitIdempotent ==
  [][\A k \in Key :
       sessions[k].state = "committed" /\ StillCurrent(k) =>
         sessions'[k] = sessions[k]]_catalogVars

-----------------------------------------------------------------------------
(* The vault implements a store of versioned documents. *)

Document == [head : Content, past : SUBSET Content]

ASSUME DocumentAssumption == NoFile \notin Document

DocumentOf(f) ==
  [head |-> versions[files[f].current].chunks,
   past |-> {versions[v].chunks : v \in VersionsOf(f)}]

TreeView ==
  [p \in Path |-> IF LiveAt(p) = {} THEN NoFile
                  ELSE DocumentOf(CHOOSE f \in LiveAt(p) : TRUE)]

TrashView ==
  {<<files[f].path, DocumentOf(f)>> : f \in {g \in FileId : files[g].status = "trash"}}

Store == INSTANCE VersionedStore
           WITH Absent <- NoFile, tree <- TreeView, trash <- TrashView

\* Seen as documents at paths, every transaction is one step of VersionedStore
\* or changes nothing a user can see: sessions, reference counts, garbage
\* collection and file ids never leak into the tree.
ImplementsStore == Store!StoreSpec
=============================================================================
