----------------------------- MODULE SyncClient -----------------------------
(***************************************************************************)
(* The directory sync client against the vault: sync_client.py with the    *)
(* upload sessions of VaultCatalog.  A run lists the files, and for each   *)
(* compares size and modification time with its own record, hashes the     *)
(* file, uploads it under a key made from path and hash, compares size and *)
(* time again and records the file as synced.  SyncLock keeps two runs of  *)
(* one directory apart, so there is one client; the user, other devices,   *)
(* failing requests and crashes interleave with it at every step.          *)
(*                                                                         *)
(* remote_path is injective and is the identity here; a hash stands for    *)
(* its content; hash_file and the reading of one chunk are single steps.   *)
(* The directory is flat: it is listed in one step.  Every edit gives the  *)
(* file a modification time it never had before.                           *)
(***************************************************************************)
EXTENDS VaultCatalog

CONSTANTS Absent,       \* no such file
          MaxEdits,     \* bound: changes the user makes to files
          MaxOthers,    \* bound: calls by other users of the vault, expiries
          MaxFailures   \* bound: crashes and requests without an answer

\* The content is left out of the key.
KeyOf_mutant(p, h) == <<p, <<>>>>

\* The idempotency key of a file's content, for one device.
KeyOf(p, h) == <<p, h>>

ASSUME SyncAssumption ==
  /\ Absent \notin Content
  /\ MaxEdits \in Nat /\ MaxOthers \in Nat /\ MaxFailures \in Nat
  /\ \A p \in Path, h \in Content : KeyOf(p, h) \in Key

VARIABLES local,     \* the files of the local root
          synced,    \* rows of synced_files
          client,    \* where the running process is
          late,      \* requests the client gave up and the server may yet execute
          edits, others, failures   \* used up of the bounds

clientVars == <<local, synced, client, late, edits, others, failures>>
syncVars == <<catalogVars, clientVars>>

-----------------------------------------------------------------------------
LocalFile == [content : Content \cup {Absent}, mtime : 0..MaxEdits]

SyncedRow == [status : {"none", "synced", "missing"}, size : 0..MaxChunks,
              mtime : 0..MaxEdits, hash : Content, version : VersionId \cup {NoVersion}]

NoSyncedRow ==
  [status |-> "none", size |-> 0, mtime |-> 0, hash |-> <<>>, version |-> NoVersion]

ClientState ==
  [pc : {"idle", "scan", "hash", "create", "send", "after", "record"},
   full : BOOLEAN, todo : SUBSET Path, seen : SUBSET Path,
   path : Path \cup {NoPath}, size : 0..MaxChunks, mtime : 0..MaxEdits,
   hash : Content, at : 1..MaxChunks + 1, version : VersionId \cup {NoVersion}]

Request == [call : {"create", "chunk", "commit"}, key : Key, path : Path,
            size : 0..MaxChunks, at : 1..MaxChunks + 1, chunk : Chunk \cup {NoChunk}]

Idle == [pc |-> "idle", full |-> FALSE, todo |-> {}, seen |-> {}, path |-> NoPath,
         size |-> 0, mtime |-> 0, hash |-> <<>>, at |-> 1, version |-> NoVersion]

Size(content) == Cardinality(DOMAIN content)

Exists(p) == local[p].content # Absent

\* stat again: the file has the size and the time read before.
Unmoved(p, size, mtime) ==
  Exists(p) /\ Size(local[p].content) = size /\ local[p].mtime = mtime

SyncInit ==
  /\ Init
  /\ local \in [Path -> [content : Content \cup {Absent}, mtime : {0}]]
  /\ synced = [p \in Path |-> NoSyncedRow]
  /\ client = Idle
  /\ late = {}
  /\ edits = 0 /\ others = 0 /\ failures = 0

-----------------------------------------------------------------------------
(* The client *)

Goto(c) ==
  /\ client' = c
  /\ UNCHANGED <<local, late, edits, others, failures>>

\* What is left of a run when it turns to its next file.
BetweenFiles == [Idle EXCEPT !.pc = "scan", !.full = client.full, !.todo = client.todo,
                             !.seen = client.seen]

\* An exception in the loop is counted and the run goes on with the next file.
FileFails ==
  /\ Goto(BetweenFiles)
  /\ UNCHANGED <<catalogVars, synced>>

StartRun(full) ==
  /\ client.pc = "idle"
  /\ LET listed == {p \in Path : Exists(p)} IN
     Goto([Idle EXCEPT !.pc = "scan", !.full = full, !.todo = listed, !.seen = listed])
  /\ UNCHANGED <<catalogVars, synced>>

IsUnchanged(p) ==
  /\ ~client.full
  /\ synced[p].status = "synced"
  /\ Unmoved(p, synced[p].size, synced[p].mtime)

\* A file deleted since it was listed fails, an unchanged one is skipped.
StatFile(p) ==
  /\ client.pc = "scan" /\ p \in client.todo
  /\ LET rest == [BetweenFiles EXCEPT !.todo = client.todo \ {p}] IN
     Goto(IF ~Exists(p) \/ IsUnchanged(p) THEN rest
          ELSE [rest EXCEPT !.pc = "hash", !.path = p,
                            !.size = Size(local[p].content), !.mtime = local[p].mtime])
  /\ UNCHANGED <<catalogVars, synced>>

\* A file that cannot be read is hashed as if it were there.
HashGone_mutant ==
  LET p == client.path
      hash == local[p].content
      same == synced[p].status = "synced" /\ synced[p].hash = hash
  IN
  /\ client.pc = "hash"
  /\ Goto(IF same THEN BetweenFiles ELSE [client EXCEPT !.pc = "create", !.hash = hash])
  /\ synced' = IF same
               THEN [synced EXCEPT ![p].size = client.size, ![p].mtime = client.mtime]
               ELSE synced
  /\ UNCHANGED catalogVars

\* Known content only refreshes the record's size and time.
HashFile ==
  LET p == client.path
      hash == local[p].content
      same == synced[p].status = "synced" /\ synced[p].hash = hash
  IN
  /\ client.pc = "hash"
  /\ Exists(p)
  /\ Goto(IF same THEN BetweenFiles ELSE [client EXCEPT !.pc = "create", !.hash = hash])
  /\ synced' = IF same
               THEN [synced EXCEPT ![p].size = client.size, ![p].mtime = client.mtime]
               ELSE synced
  /\ UNCHANGED catalogVars

TheKey == KeyOf(client.path, client.hash)

KeyConflicts ==
  /\ sessions[TheKey].state # "none"
  /\ sessions[TheKey].path # client.path \/ sessions[TheKey].size # client.size

\* POST /v1/uploads: the version of a committed session is final.
CreateSession ==
  /\ client.pc = "create"
  /\ ~KeyConflicts
  /\ UNCHANGED synced
  /\ IF sessions[TheKey].state = "committed" /\ StillCurrent(TheKey)
     THEN /\ Goto([client EXCEPT !.pc = "record", !.version = sessions[TheKey].version])
          /\ UNCHANGED catalogVars
     ELSE /\ Goto([client EXCEPT !.pc = "send"])
          /\ \/ CreateUpload(TheKey, client.path, client.size)
             \/ sessions[TheKey].state = "open" /\ UNCHANGED catalogVars

AtEnd == client.at > Size(local[client.path].content)

\* The server takes this chunk, or has it already with the same content.
Sendable(chunk) ==
  /\ Accepts(TheKey)
  /\ client.at <= sessions[TheKey].size
  /\ sessions[TheKey].rows[client.at] \in {NoChunk, chunk}

\* PUT of the next chunk as the file is now.  An existing session is returned
\* with no uploaded_chunks, so every chunk is sent again.
SendChunk ==
  /\ client.pc = "send"
  /\ Exists(client.path) /\ ~AtEnd
  /\ LET chunk == local[client.path].content[client.at] IN
     /\ Sendable(chunk)
     /\ \/ UploadChunk(TheKey, client.at, chunk)
        \/ sessions[TheKey].rows[client.at] = chunk /\ UNCHANGED catalogVars
  /\ Goto([client EXCEPT !.at = @ + 1])
  /\ UNCHANGED synced

\* POST commit, after the end of the file was read.  One that fails because a
\* collector unlinked the blob of a recorded chunk is a RequestFails whose request
\* is lost; that it fails again until the session is overdue is left out.
Commit ==
  /\ client.pc = "send"
  /\ Exists(client.path) /\ AtEnd
  /\ CommitUpload(TheKey)
  /\ Goto([client EXCEPT !.pc = "after", !.version = sessions'[TheKey].version])
  /\ UNCHANGED synced

\* The server marks an overdue session as expired when it refuses a call.
ServerRefuses ==
  /\ client.pc = "send" /\ Exists(client.path)
  /\ IF AtEnd THEN ~(Accepts(TheKey) /\ IsComplete(TheKey))
              ELSE ~Sendable(local[client.path].content[client.at])
  /\ Goto(BetweenFiles)
  /\ \/ ExpireOverdue(TheKey)
     \/ ~(sessions[TheKey].state = "open" /\ sessions[TheKey].overdue) /\ UNCHANGED catalogVars
  /\ UNCHANGED synced

\* The checks of a step that end the file's turn and write nothing.
StepFails ==
  /\ \/ client.pc \in {"hash", "send"} /\ ~Exists(client.path)
     \/ client.pc = "create" /\ KeyConflicts
     \/ client.pc = "after" /\ ~Unmoved(client.path, client.size, client.mtime)
  /\ FileFails

StatAfter ==
  /\ client.pc = "after"
  /\ Unmoved(client.path, client.size, client.mtime)
  /\ Goto([client EXCEPT !.pc = "record"])
  /\ UNCHANGED <<catalogVars, synced>>

\* The times are read when the record is written, not before the upload.
RecordLate_mutant ==
  /\ client.pc = "record"
  /\ synced' = [synced EXCEPT ![client.path] =
                  [status |-> "synced", size |-> client.size, mtime |-> local[client.path].mtime,
                   hash |-> client.hash, version |-> client.version]]
  /\ Goto(BetweenFiles)
  /\ UNCHANGED catalogVars

Record ==
  /\ client.pc = "record"
  /\ synced' = [synced EXCEPT ![client.path] =
                  [status |-> "synced", size |-> client.size, mtime |-> client.mtime,
                   hash |-> client.hash, version |-> client.version]]
  /\ Goto(BetweenFiles)
  /\ UNCHANGED catalogVars

\* Files that were not listed are marked missing; nothing is deleted remotely.
EndRun ==
  /\ client.pc = "scan" /\ client.todo = {}
  /\ synced' = [p \in Path |->
                  IF synced[p].status = "synced" /\ p \notin client.seen
                  THEN [synced[p] EXCEPT !.status = "missing"] ELSE synced[p]]
  /\ Goto(Idle)
  /\ UNCHANGED catalogVars

ClientStep ==
  \/ \E full \in BOOLEAN : StartRun(full)
  \/ \E p \in Path : StatFile(p)
  \/ HashFile \/ CreateSession \/ SendChunk \/ Commit \/ StatAfter \/ Record \/ EndRun
  \/ ServerRefuses \/ StepFails

-----------------------------------------------------------------------------
(* The surroundings *)

\* A change, a touch, a creation or a deletion of a local file.
Edit(p) ==
  /\ edits < MaxEdits
  /\ edits' = edits + 1
  /\ \E content \in Content \cup {Absent} :
       local' = [local EXCEPT ![p] =
                   [content |-> content, mtime |-> IF content = Absent THEN 0 ELSE edits']]
  /\ UNCHANGED <<catalogVars, synced, client, late, others, failures>>

\* What the client has just sent.
SentRequest ==
  [call |-> IF client.pc = "create" THEN "create" ELSE IF AtEnd THEN "commit" ELSE "chunk",
   key |-> TheKey, path |-> client.path, size |-> client.size, at |-> client.at,
   chunk |-> IF client.pc = "create" \/ AtEnd THEN NoChunk
             ELSE local[client.path].content[client.at]]

\* A request gets no answer in time and its file fails.  It may have been
\* executed, be executed later, or be lost.
RequestFails ==
  /\ failures < MaxFailures
  /\ client.pc \in {"create", "send"} /\ Exists(client.path)
  /\ failures' = failures + 1
  /\ late' = late \cup {SentRequest}
  /\ client' = BetweenFiles
  /\ UNCHANGED <<catalogVars, local, synced, edits, others>>

\* A given-up request reaches the server, which may do with it what it does
\* for the answered ones, or nothing.
LateRequest(r) ==
  /\ late' = late \ {r}
  /\ \/ r.call = "create" /\ CreateUpload(r.key, r.path, r.size)
     \/ r.call = "chunk" /\ UploadChunk(r.key, r.at, r.chunk)
     \/ r.call = "commit" /\ CommitUpload(r.key)
     \/ r.call # "create" /\ ExpireOverdue(r.key)
     \/ UNCHANGED catalogVars
  /\ UNCHANGED <<local, synced, client, edits, others, failures>>

\* The process dies; the system releases its SyncLock.
Crash ==
  /\ failures < MaxFailures
  /\ client.pc # "idle"
  /\ failures' = failures + 1
  /\ client' = Idle
  /\ UNCHANGED <<catalogVars, local, synced, late, edits, others>>

\* Other devices and the web interface at work on the same vault, and time.
Others ==
  /\ others < MaxOthers
  /\ others' = others + 1
  /\ \/ CleanupUploads
     \/ \E p \in Path, content \in Content : ImportFile(p, content)
     \/ \E p \in Path : DeleteFile(p) \/ RestoreFile(p) \/ PurgeFile(p)
     \/ \E p \in Path, v \in VersionId : RestoreVersion(p, v)
     \/ \E k \in Key : DeadlinePasses(k) \/ AbortUpload(k)
  /\ UNCHANGED <<local, synced, client, late, edits, failures>>

Troubles == RequestFails \/ (\E r \in late : LateRequest(r)) \/ Crash \/ Others

SyncNext == ClientStep \/ (\E p \in Path : Edit(p)) \/ Troubles

SyncSpec == SyncInit /\ [][SyncNext]_syncVars

\* From its first stat to its last the user may delete a file, not change it.
CalmEdit(p) ==
  /\ Edit(p)
  /\ client.path = p /\ client.pc \in {"hash", "create", "send", "after"} =>
       local'[p].content = Absent

CalmNext == ClientStep \/ (\E p \in Path : CalmEdit(p)) \/ Troubles

\* sync-watch or the task scheduler starts run after run, and a run goes on.
CalmSpec == SyncInit /\ [][CalmNext]_syncVars /\ WF_syncVars(ClientStep)

-----------------------------------------------------------------------------
(* Properties *)

\* The columns of synced_files and the client's local variables; the catalog's
\* rows keep their types under the client's calls.
SyncTypeOK ==
  /\ TypeOK
  /\ local \in [Path -> LocalFile]
  /\ synced \in [Path -> SyncedRow]
  /\ client \in ClientState
  /\ late \subseteq Request
  /\ edits \in 0..MaxEdits /\ others \in 0..MaxOthers /\ failures \in 0..MaxFailures

\* What the local database says was uploaded is what the server holds: the
\* version recorded for a path, unless purged since, has the recorded content,
\* whatever was interrupted, retried, superseded, expired or deleted meanwhile.
SyncedIsStored ==
  \A p \in Path :
    synced[p].status # "none" /\ versions[synced[p].version].status = "present" =>
      versions[synced[p].version].chunks = synced[p].hash

UpToDate(p) == synced[p].status = "synced" /\ synced[p].hash = local[p].content

\* A file that changes no more is recorded with its last content in the end,
\* and one that is gone is not recorded as synced, through crashes, lost
\* answers, expired sessions and interference by other devices.
EventuallySynced ==
  \A p \in Path : <>[](IF Exists(p) THEN UpToDate(p) ELSE synced[p].status # "synced")
=============================================================================
