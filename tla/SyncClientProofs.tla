-------------------------- MODULE SyncClientProofs --------------------------
(***************************************************************************)
(* What SyncClient promises for any directory, vault and bounds: all that  *)
(* is proved of the catalog holds with a client at work on it, and the     *)
(* client's records are true if nobody rewrites a file while it is being   *)
(* uploaded.                                                               *)
(***************************************************************************)
EXTENDS SyncClient, VaultStoreProofs

\* The client is at work on one file.
InFile == {"hash", "create", "send", "after", "record"}

SyncRows ==
  /\ local \in [Path -> LocalFile]
  /\ synced \in [Path -> SyncedRow]
  /\ client \in ClientState
  /\ late \subseteq Request
  /\ edits \in 0..MaxEdits /\ others \in 0..MaxOthers /\ failures \in 0..MaxFailures
  /\ client.pc \in InFile => client.path \in Path
  /\ \A r \in late : r.call = "chunk" => r.chunk \in Chunk

\* A request is a call of the catalog only because it names a path and a chunk.
SyncInv == CatalogInv /\ SyncRows

-----------------------------------------------------------------------------
(* Rows *)

LEMMA ContentSize ==
  ASSUME NEW h \in Content
  PROVE  /\ Size(h) \in 0..MaxChunks
         /\ DOMAIN h = 1..Size(h)
         /\ \A i \in 1..Size(h) : h[i] \in Chunk
<1>1. PICK n \in 0..MaxChunks : h \in [1..n -> Chunk]
  BY DEF Content
<1>2. n \in Nat /\ DOMAIN h = 1..n
  BY <1>1
<1>3. Cardinality(1..n) = n
  BY <1>2, FS_Interval
<1>4. Size(h) = n
  BY <1>2, <1>3 DEF Size
<1>5. QED
  BY <1>1, <1>2, <1>4

\* The client's local variables when it turns to the next file and when a run
\* is over.
LEMMA ClientRows ==
  /\ Idle \in ClientState /\ Idle.pc = "idle"
  /\ NoSyncedRow \in SyncedRow
  /\ client \in ClientState => BetweenFiles \in ClientState /\ BetweenFiles.pc = "scan"
<1>1. /\ MaxChunks \in Nat /\ MaxEdits \in Nat
      /\ <<>> \in Content
  BY CatalogAssumption, SyncAssumption, EmptyContent DEF CatalogAssumption, SyncAssumption
<1>2. Idle \in ClientState /\ Idle.pc = "idle"
  BY <1>1 DEF Idle, ClientState
<1>3. NoSyncedRow \in SyncedRow
  BY <1>1 DEF NoSyncedRow, SyncedRow
<1>4. ASSUME client \in ClientState
      PROVE  BetweenFiles \in ClientState /\ BetweenFiles.pc = "scan"
  <2>1. client.full \in BOOLEAN /\ client.todo \in SUBSET Path /\ client.seen \in SUBSET Path
    BY <1>4 DEF ClientState
  <2>2. QED
    BY <1>2, <2>1 DEF BetweenFiles, ClientState
<1>5. QED
  BY <1>2, <1>3, <1>4

\* A file that is there has a content and a size.
LEMMA LocalContent ==
  ASSUME SyncRows, NEW p \in Path
  PROVE  /\ local[p].content \in Content \cup {Absent}
         /\ local[p].mtime \in 0..MaxEdits
         /\ Exists(p) <=> local[p].content \in Content
BY SyncAssumption DEF SyncRows, LocalFile, Exists, SyncAssumption

LEMMA KeyTyped ==
  ASSUME SyncRows, client.pc \in InFile
  PROVE  TheKey \in Key /\ client.hash \in Content /\ client.path \in Path
BY SyncAssumption DEF SyncRows, ClientState, TheKey, SyncAssumption

-----------------------------------------------------------------------------
(* Types: the steps of the client *)

\* Every step of the client sets its variables and records, and nothing else
\* of its own.
SetsClient ==
  /\ client' \in ClientState
  /\ client'.pc \in InFile => client'.path \in Path
  /\ synced' \in [Path -> SyncedRow]
  /\ UNCHANGED <<local, late, edits, others, failures>>

LEMMA BetweenFilesSets ==
  ASSUME SyncRows, Goto(BetweenFiles), synced' \in [Path -> SyncedRow]
  PROVE  SetsClient
BY ClientRows DEF SyncRows, Goto, SetsClient, InFile

LEMMA StartRunSets ==
  ASSUME SyncRows, NEW full \in BOOLEAN, StartRun(full)
  PROVE  SetsClient
<1> DEFINE listed == {p \in Path : Exists(p)}
           row == [Idle EXCEPT !.pc = "scan", !.full = full, !.todo = listed, !.seen = listed]
<1>1. client' = row /\ UNCHANGED <<synced, local, late, edits, others, failures>>
  BY DEF StartRun, Goto
<1>2. row \in ClientState /\ row.pc = "scan"
  BY ClientRows DEF ClientState
<1>3. QED
  BY <1>1, <1>2 DEF SyncRows, SetsClient, InFile

LEMMA StatFileSets ==
  ASSUME SyncRows, NEW p \in Path, StatFile(p)
  PROVE  SetsClient
<1> DEFINE rest == [BetweenFiles EXCEPT !.todo = client.todo \ {p}]
           work == [rest EXCEPT !.pc = "hash", !.path = p,
                                !.size = Size(local[p].content), !.mtime = local[p].mtime]
<1>1. /\ client' = IF ~Exists(p) \/ IsUnchanged(p) THEN rest ELSE work
      /\ UNCHANGED <<synced, local, late, edits, others, failures>>
  BY DEF StatFile, Goto
<1>2. client \in ClientState /\ BetweenFiles \in ClientState /\ BetweenFiles.pc = "scan"
  BY ClientRows DEF SyncRows
<1>3. rest \in ClientState /\ rest.pc = "scan"
  BY <1>2 DEF ClientState
<1>4. Exists(p) => Size(local[p].content) \in 0..MaxChunks /\ local[p].mtime \in 0..MaxEdits
  BY LocalContent, ContentSize
<1>5. Exists(p) => work \in ClientState /\ work.path = p
  BY <1>3, <1>4 DEF ClientState
<1>6. QED
  BY <1>1, <1>3, <1>5 DEF SyncRows, SetsClient, InFile

LEMMA HashFileSets ==
  ASSUME SyncRows, HashFile
  PROVE  SetsClient
<1> DEFINE p == client.path
           hash == local[p].content
           same == synced[p].status = "synced" /\ synced[p].hash = hash
           next == [client EXCEPT !.pc = "create", !.hash = hash]
<1>1. /\ client' = IF same THEN BetweenFiles ELSE next
      /\ synced' = IF same THEN [synced EXCEPT ![p].size = client.size, ![p].mtime = client.mtime]
                   ELSE synced
      /\ UNCHANGED <<local, late, edits, others, failures>>
      /\ p \in Path /\ Exists(p)
  BY DEF HashFile, Goto, SyncRows, InFile
<1>2. client \in ClientState /\ hash \in Content
  BY <1>1, LocalContent DEF SyncRows
<1>3. next \in ClientState /\ next.path = p
  BY <1>2 DEF ClientState
<1>4. synced' \in [Path -> SyncedRow]
  <2>1. client.size \in 0..MaxChunks /\ client.mtime \in 0..MaxEdits
    BY <1>2 DEF ClientState
  <2>2. synced \in [Path -> SyncedRow]
    BY DEF SyncRows
  <2>3. [synced EXCEPT ![p].size = client.size, ![p].mtime = client.mtime] \in [Path -> SyncedRow]
    BY <1>1, <2>1, <2>2 DEF SyncedRow
  <2>4. QED
    BY <1>1, <2>2, <2>3
<1>5. BetweenFiles \in ClientState /\ BetweenFiles.pc = "scan"
  BY <1>2, ClientRows
<1>6. QED
  BY <1>1, <1>3, <1>4, <1>5 DEF SetsClient, InFile

LEMMA CreateSessionSets ==
  ASSUME SyncInv, CreateSession
  PROVE  SetsClient
<1>1. /\ client \in ClientState /\ client.path \in Path /\ TheKey \in Key
  BY KeyTyped DEF SyncInv, SyncRows, CreateSession, InFile
<1>2. sessions[TheKey].version \in VersionId \cup {NoVersion}
  BY <1>1 DEF SyncInv, CatalogInv, TypeOK, SessionRow
<1>3. /\ client' \in {[client EXCEPT !.pc = "record", !.version = sessions[TheKey].version],
                      [client EXCEPT !.pc = "send"]}
      /\ UNCHANGED <<synced, local, late, edits, others, failures>>
  BY DEF CreateSession, Goto
<1>4. client' \in ClientState /\ client'.path = client.path
  BY <1>1, <1>2, <1>3 DEF ClientState
<1>5. QED
  BY <1>1, <1>3, <1>4 DEF SyncInv, SyncRows, SetsClient

\* The next chunk of a file that has one.
LEMMA NextChunk ==
  ASSUME SyncRows, client.pc \in InFile, Exists(client.path), ~AtEnd
  PROVE  LET content == local[client.path].content
         IN  /\ content \in Content
             /\ client.at \in 1..Size(content)
             /\ client.at \in 1..MaxChunks
             /\ content[client.at] \in Chunk
<1>1. /\ local[client.path].content \in Content
      /\ client.at \in 1..MaxChunks + 1
  BY LocalContent DEF SyncRows, ClientState
<1>2. Size(local[client.path].content) \in 0..MaxChunks
  BY <1>1, ContentSize
<1>3. client.at \in 1..Size(local[client.path].content)
  BY <1>1, <1>2, CatalogAssumption DEF AtEnd, CatalogAssumption
<1>4. QED
  BY <1>1, <1>2, <1>3, ContentSize, CatalogAssumption DEF CatalogAssumption

LEMMA SendChunkSets ==
  ASSUME SyncRows, SendChunk
  PROVE  SetsClient
<1>1. client.at \in 1..MaxChunks /\ client \in ClientState /\ client.path \in Path
  BY NextChunk DEF SyncRows, SendChunk, InFile
<1>2. /\ client' = [client EXCEPT !.at = @ + 1]
      /\ UNCHANGED <<synced, local, late, edits, others, failures>>
  BY DEF SendChunk, Goto
<1>3. client.at + 1 \in 1..MaxChunks + 1
  BY <1>1, CatalogAssumption DEF CatalogAssumption
<1>4. client' \in ClientState /\ client'.path = client.path
  BY <1>1, <1>2, <1>3 DEF ClientState
<1>5. QED
  BY <1>1, <1>2, <1>4 DEF SyncRows, SetsClient

LEMMA CommitSets ==
  ASSUME SyncRows, TypeOK', Commit
  PROVE  SetsClient
<1>1. client \in ClientState /\ client.path \in Path /\ TheKey \in Key
  BY KeyTyped DEF SyncRows, Commit, InFile
<1>2. sessions'[TheKey].version \in VersionId \cup {NoVersion}
  BY <1>1 DEF TypeOK, SessionRow
<1>3. /\ client' = [client EXCEPT !.pc = "after", !.version = sessions'[TheKey].version]
      /\ UNCHANGED <<synced, local, late, edits, others, failures>>
  BY DEF Commit, Goto
<1>4. client' \in ClientState /\ client'.path = client.path
  BY <1>1, <1>2, <1>3 DEF ClientState
<1>5. QED
  BY <1>1, <1>3, <1>4 DEF SyncRows, SetsClient

LEMMA RecordSets ==
  ASSUME SyncRows, Record
  PROVE  SetsClient
<1> DEFINE row == [status |-> "synced", size |-> client.size, mtime |-> client.mtime,
                   hash |-> client.hash, version |-> client.version]
<1>1. row \in SyncedRow /\ client.path \in Path
  BY DEF SyncRows, Record, ClientState, SyncedRow, InFile
<1>2. synced' = [synced EXCEPT ![client.path] = row]
  BY DEF Record
<1>3. synced' \in [Path -> SyncedRow]
  BY <1>1, <1>2 DEF SyncRows
<1>4. QED
  BY <1>3, BetweenFilesSets DEF Record

LEMMA EndRunSets ==
  ASSUME SyncRows, EndRun
  PROVE  SetsClient
<1>1. \A row \in SyncedRow : [row EXCEPT !.status = "missing"] \in SyncedRow
  BY DEF SyncedRow
<1>2. synced' \in [Path -> SyncedRow]
  BY <1>1 DEF SyncRows, EndRun
<1>3. client' = Idle /\ UNCHANGED <<local, late, edits, others, failures>>
  BY DEF EndRun, Goto
<1>4. QED
  BY <1>2, <1>3, ClientRows DEF SetsClient, InFile

LEMMA ClientStepSets ==
  ASSUME SyncInv, TypeOK', ClientStep
  PROVE  SetsClient
<1>1. SyncRows /\ synced \in [Path -> SyncedRow]
  BY DEF SyncInv, SyncRows
<1>2. CASE StatAfter
  <2>1. /\ client' = [client EXCEPT !.pc = "record"]
        /\ UNCHANGED <<synced, local, late, edits, others, failures>>
        /\ client \in ClientState /\ client.path \in Path
    BY <1>1, <1>2 DEF StatAfter, Goto, SyncRows, InFile
  <2>2. client' \in ClientState /\ client'.path = client.path
    BY <2>1 DEF ClientState
  <2>3. QED
    BY <1>1, <2>1, <2>2 DEF SetsClient
<1>3. CASE ServerRefuses \/ StepFails
  BY <1>1, <1>3, BetweenFilesSets DEF ServerRefuses, StepFails, FileFails
<1>4. QED
  BY <1>1, <1>2, <1>3, StartRunSets, StatFileSets, HashFileSets, CreateSessionSets,
     SendChunkSets, CommitSets, RecordSets, EndRunSets DEF ClientStep
-----------------------------------------------------------------------------
(* Types: the surroundings *)

\* What surrounds the client sets the rest and leaves its records alone.
SetsRest ==
  /\ local' \in [Path -> LocalFile]
  /\ late' \subseteq Request
  /\ \A r \in late' : r.call = "chunk" => r.chunk \in Chunk
  /\ edits' \in 0..MaxEdits /\ others' \in 0..MaxOthers /\ failures' \in 0..MaxFailures
  /\ client' \in {client, Idle, BetweenFiles}
  /\ UNCHANGED synced

LEMMA EditSets ==
  ASSUME SyncRows, NEW p \in Path, Edit(p)
  PROVE  SetsRest
<1>1. edits' = edits + 1 /\ edits' \in 0..MaxEdits
  BY SyncAssumption DEF SyncRows, Edit, SyncAssumption
<1>2. PICK content \in Content \cup {Absent} :
        local' = [local EXCEPT ![p] =
                    [content |-> content, mtime |-> IF content = Absent THEN 0 ELSE edits']]
  BY DEF Edit
<1>3. [content |-> content, mtime |-> IF content = Absent THEN 0 ELSE edits'] \in LocalFile
  BY <1>1, SyncAssumption DEF LocalFile, SyncAssumption
<1>4. local' \in [Path -> LocalFile]
  BY <1>2, <1>3 DEF SyncRows
<1>5. QED
  BY <1>1, <1>4 DEF SyncRows, Edit, SetsRest

\* What the client gives up is a request of its own path and hash.
LEMMA SentTyped ==
  ASSUME SyncRows, client.pc \in {"create", "send"}, Exists(client.path)
  PROVE  /\ SentRequest \in Request
         /\ SentRequest.call = "chunk" => SentRequest.chunk \in Chunk
<1>1. /\ TheKey \in Key /\ client.path \in Path
      /\ client.size \in 0..MaxChunks /\ client.at \in 1..MaxChunks + 1
  BY KeyTyped DEF SyncRows, ClientState, InFile
<1>2. ~AtEnd => local[client.path].content[client.at] \in Chunk
  BY NextChunk DEF InFile
<1>3. CASE client.pc = "create"
  BY <1>1, <1>3 DEF SentRequest, Request
<1>4. CASE client.pc # "create" /\ AtEnd
  BY <1>1, <1>4 DEF SentRequest, Request
<1>5. CASE client.pc # "create" /\ ~AtEnd
  BY <1>1, <1>2, <1>5 DEF SentRequest, Request
<1>6. QED
  BY <1>3, <1>4, <1>5

LEMMA TroubleSets ==
  ASSUME SyncRows, Troubles
  PROVE  SetsRest
<1> USE DEF SetsRest
<1>1. CASE RequestFails
  <2>1. failures' \in 0..MaxFailures
    BY <1>1, SyncAssumption DEF SyncRows, RequestFails, SyncAssumption
  <2>2. late' = late \cup {SentRequest} /\ client' = BetweenFiles
        /\ UNCHANGED <<local, synced, edits, others>>
    BY <1>1 DEF RequestFails
  <2>3. /\ SentRequest \in Request
        /\ SentRequest.call = "chunk" => SentRequest.chunk \in Chunk
    BY <1>1, SentTyped DEF RequestFails
  <2>4. QED
    BY <2>1, <2>2, <2>3 DEF SyncRows
<1>2. CASE \E r \in late : LateRequest(r)
  BY <1>2 DEF SyncRows, LateRequest
<1>3. CASE Crash
  BY <1>3, SyncAssumption DEF SyncRows, Crash, SyncAssumption
<1>4. CASE Others
  <2>1. others' \in 0..MaxOthers
    BY <1>4, SyncAssumption DEF SyncRows, Others, SyncAssumption
  <2>2. UNCHANGED <<local, synced, client, late, edits, failures>>
    BY <1>4 DEF Others
  <2>3. QED
    BY <2>1, <2>2 DEF SyncRows
<1>5. QED
  BY <1>1, <1>2, <1>3, <1>4 DEF Troubles

LEMMA SyncRowsKept ==
  ASSUME SyncInv, TypeOK', [SyncNext]_syncVars
  PROVE  SyncRows'
<1>1. SyncRows
  BY DEF SyncInv
<1>2. ASSUME SetsClient PROVE SyncRows'
  BY <1>1, <1>2 DEF SyncRows, SetsClient
<1>3. ASSUME SetsRest PROVE SyncRows'
  <2>1. client \in ClientState /\ client' \in {client, Idle, BetweenFiles}
    BY <1>1, <1>3 DEF SyncRows, SetsRest
  <2>2. client' \in ClientState /\ (client'.pc \in InFile => client' = client)
    BY <2>1, ClientRows DEF InFile
  <2>3. QED
    BY <1>1, <1>3, <2>2 DEF SyncRows, SetsRest
<1>4. CASE UNCHANGED syncVars
  BY <1>1, <1>4 DEF SyncRows, syncVars, clientVars
<1>5. QED
  BY <1>1, <1>2, <1>3, <1>4, ClientStepSets, EditSets, TroubleSets DEF SyncNext

-----------------------------------------------------------------------------
(* The calls of the client and of the others are transactions of the catalog. *)

LEMMA ClientCalls ==
  ASSUME SyncInv, ClientStep
  PROVE  [Next]_catalogVars
<1>1. SyncRows
  BY DEF SyncInv
<1>2. CASE CreateSession
  <2>1. TheKey \in Key /\ client.path \in Path /\ client.size \in 0..MaxChunks
    BY <1>1, <1>2, KeyTyped DEF CreateSession, InFile, SyncRows, ClientState
  <2>2. UNCHANGED catalogVars \/ CreateUpload(TheKey, client.path, client.size)
    BY <1>2 DEF CreateSession
  <2>3. QED
    BY <2>1, <2>2 DEF Next
<1>3. CASE SendChunk
  <2>1. TheKey \in Key
    BY <1>1, <1>3, KeyTyped DEF SendChunk, InFile
  <2>2. client.at \in 1..MaxChunks /\ local[client.path].content[client.at] \in Chunk
    BY <1>1, <1>3, NextChunk DEF SendChunk, InFile
  <2>3. \/ UNCHANGED catalogVars
        \/ UploadChunk(TheKey, client.at, local[client.path].content[client.at])
    BY <1>3 DEF SendChunk
  <2>4. QED
    BY <2>1, <2>2, <2>3 DEF Next
<1>4. CASE Commit
  BY <1>1, <1>4, KeyTyped DEF Commit, InFile, Next
<1>5. CASE ServerRefuses
  <2>1. TheKey \in Key
    BY <1>1, <1>5, KeyTyped DEF ServerRefuses, InFile
  <2>2. UNCHANGED catalogVars \/ ExpireOverdue(TheKey)
    BY <1>5 DEF ServerRefuses
  <2>3. QED
    BY <2>1, <2>2 DEF Next
<1>6. QED
  BY <1>2, <1>3, <1>4, <1>5
     DEF ClientStep, StartRun, StatFile, HashFile, StatAfter, Record, EndRun, StepFails, FileFails

LEMMA LateCalls ==
  ASSUME SyncInv, NEW r \in late, LateRequest(r)
  PROVE  [Next]_catalogVars
<1>1. /\ r.key \in Key /\ r.path \in Path /\ r.size \in 0..MaxChunks
      /\ r.at \in 1..MaxChunks + 1
      /\ r.call = "chunk" => r.chunk \in Chunk
  BY DEF SyncInv, SyncRows, Request
<1>2. CASE r.call = "chunk" /\ UploadChunk(r.key, r.at, r.chunk)
  <2>1. sessions[r.key].size \in 0..MaxChunks /\ r.at <= sessions[r.key].size
    BY <1>1, <1>2 DEF SyncInv, CatalogInv, TypeOK, SessionRow, UploadChunk
  <2>2. r.at \in 1..MaxChunks
    BY <1>1, <2>1, CatalogAssumption DEF CatalogAssumption
  <2>3. QED
    BY <1>1, <1>2, <2>2 DEF Next
<1>3. QED
  BY <1>1, <1>2 DEF LateRequest, Next

LEMMA OthersCalls ==
  ASSUME Others
  PROVE  [Next]_catalogVars
BY DEF Others, Next

\* Every step is one transaction of the catalog or leaves it alone.
LEMMA SyncCalls ==
  ASSUME SyncInv, [SyncNext]_syncVars
  PROVE  [Next]_catalogVars
<1>1. CASE UNCHANGED syncVars
  BY <1>1 DEF syncVars
<1>2. CASE \E p \in Path : Edit(p)
  BY <1>2 DEF Edit
<1>3. CASE RequestFails \/ Crash
  BY <1>3 DEF RequestFails, Crash
<1>4. QED
  BY <1>1, <1>2, <1>3, ClientCalls, LateCalls, OthersCalls DEF SyncNext, Troubles

LEMMA SyncNextInv == SyncInv /\ [SyncNext]_syncVars => SyncInv'
<1> SUFFICES ASSUME SyncInv, [SyncNext]_syncVars PROVE SyncInv'
  OBVIOUS
<1>1. CatalogInv'
  BY SyncCalls, CatalogNextInv DEF SyncInv
<1>2. SyncRows'
  BY <1>1, SyncRowsKept DEF CatalogInv
<1>3. QED
  BY <1>1, <1>2 DEF SyncInv

LEMMA SyncInitInv == SyncInit => SyncInv
<1> SUFFICES ASSUME SyncInit PROVE SyncInv
  OBVIOUS
<1>1. CatalogInv
  BY CatalogInitInv DEF SyncInit
<1>2. 0 \in 0..MaxEdits /\ 0 \in 0..MaxOthers /\ 0 \in 0..MaxFailures
  BY SyncAssumption DEF SyncAssumption
<1>3. local \in [Path -> LocalFile]
  BY <1>2 DEF SyncInit, LocalFile
<1>4. synced \in [Path -> SyncedRow]
  BY ClientRows DEF SyncInit
<1>5. QED
  BY <1>1, <1>2, <1>3, <1>4, ClientRows DEF SyncInit, SyncInv, SyncRows, InFile

-----------------------------------------------------------------------------
\* The invariant of the catalog and the types of the client hold in every state.
THEOREM SyncSafe == SyncSpec => []SyncInv
<1>1. QED
  BY SyncInitInv, SyncNextInv, PTL DEF SyncSpec

\* The local database, the client and its requests always have their types,
\* whatever the user, other devices and failing requests do in between.
THEOREM SyncTyped == SyncSpec => []SyncTypeOK
<1>1. SyncInv => SyncTypeOK
  BY DEF SyncInv, SyncRows, SyncTypeOK, CatalogInv
<1>2. QED
  BY <1>1, SyncSafe, PTL

\* With a client at work, the vault is still the catalog that all its theorems
\* are about: a late, repeated or abandoned request is one of its transactions.
THEOREM SyncImplementsCatalog == SyncSpec => Spec
<1>1. SyncInit => Init
  BY DEF SyncInit
<1>2. SyncInv /\ [SyncNext]_syncVars => [Next]_catalogVars
  BY SyncCalls
<1>3. QED
  BY <1>1, <1>2, SyncSafe, PTL DEF SyncSpec, Spec

\* What a client does to the tree, by requests that may be late, torn or
\* abandoned, is a history of single writes, moves and deletes of documents.
THEOREM SyncedVaultIsAStore == SyncSpec => ImplementsStore
<1>1. QED
  BY SyncImplementsCatalog, VaultIsAStore, PTL

-----------------------------------------------------------------------------
(* Nobody rewrites a file while it is being uploaded. *)

\* A record of content h under version v is true, and stays so when v is purged.
Names(v, h) ==
  /\ v \in VersionId
  /\ versions[v].status # "free"
  /\ versions[v].status = "present" => versions[v].chunks = h

\* The session of a content is for its path and size and holds chunks of it only.
SessionTrue(p, h) ==
  LET s == sessions[KeyOf(p, h)] IN
  s.state # "none" =>
    /\ s.path = p /\ s.size = Size(h)
    /\ \A i \in 1..Size(h) : s.rows[i] \in {NoChunk, h[i]}

SessionsTrue == \A p \in Path, h \in Content : SessionTrue(p, h)

\* A request that was given up says of some content what the client saw of it.
RequestTrue(r) ==
  \E h \in Content :
    /\ r.key = KeyOf(r.path, h) /\ r.size = Size(h)
    /\ r.call = "chunk" => r.at \in 1..Size(h) /\ r.chunk = h[r.at]

\* The file the client is sending is the one it has hashed, or gone.
ClientTrue ==
  /\ client.pc = "hash" /\ Exists(client.path) => client.size = Size(local[client.path].content)
  /\ client.pc \in {"create", "send"} =>
       /\ client.size = Size(client.hash)
       /\ local[client.path].content \in {client.hash, Absent}
  /\ client.pc \in {"after", "record"} => Names(client.version, client.hash)

RecordsTrue ==
  \A p \in Path : synced[p].status # "none" => Names(synced[p].version, synced[p].hash)

CalmInv ==
  /\ SyncInv
  /\ SessionsTrue
  /\ \A r \in late : RequestTrue(r)
  /\ ClientTrue
  /\ RecordsTrue

LEMMA KeysApart ==
  ASSUME NEW p, NEW h, NEW q, NEW g, KeyOf(p, h) = KeyOf(q, g)
  PROVE  p = q /\ h = g
BY DEF KeyOf

LEMMA KeyInKeys ==
  ASSUME NEW p \in Path, NEW h \in Content
  PROVE  KeyOf(p, h) \in Key
BY SyncAssumption DEF SyncAssumption

\* Chunks of a content only, and none of them missing, are the content.
LEMMA UploadedWhole ==
  ASSUME NEW h \in Content, NEW row \in SessionRow, row.size = Size(h),
         \A i \in 1..Size(h) : row.rows[i] \in {NoChunk, h[i]},
         NEW content \in Content, content = [i \in 1..row.size |-> row.rows[i]]
  PROVE  content = h
<1>1. DOMAIN content = 1..Size(h)
  OBVIOUS
<1>2. \A i \in 1..Size(h) : content[i] = row.rows[i]
  OBVIOUS
<1>3. \A i \in 1..Size(h) : content[i] \in Chunk
  BY <1>1, ContentShape
<1>4. \A i \in 1..Size(h) : content[i] = h[i]
  BY <1>2, <1>3, CatalogAssumption DEF CatalogAssumption
<1>5. DOMAIN h = 1..Size(h) /\ h = [i \in DOMAIN h |-> h[i]]
  <2>1. PICK n \in 0..MaxChunks : h \in [1..n -> Chunk]
    BY DEF Content
  <2>2. QED
    BY <2>1, ContentSize
<1>6. content = [i \in DOMAIN content |-> content[i]]
  OBVIOUS
<1>7. QED
  BY <1>1, <1>4, <1>5, <1>6

-----------------------------------------------------------------------------
(* What the calls do to the sessions *)

\* The session is gone, or has no more than it had.
KeptSession(k) ==
  \/ sessions'[k].state = "none"
  \/ /\ sessions[k].state # "none"
     /\ sessions'[k].path = sessions[k].path /\ sessions'[k].size = sessions[k].size
     /\ \A i \in 1..MaxChunks : sessions'[k].rows[i] \in {NoChunk, sessions[k].rows[i]}

\* Only creating a session and sending a chunk put something into one.
LEMMA CallsKeep ==
  ASSUME CatalogInv, NEW k \in Key,
         \/ UNCHANGED catalogVars
         \/ CleanupUploads
         \/ \E p \in Path, content \in Content : ImportFile(p, content)
         \/ \E p \in Path : DeleteFile(p) \/ RestoreFile(p) \/ PurgeFile(p)
         \/ \E p \in Path, v \in VersionId : RestoreVersion(p, v)
         \/ \E x \in Key : \/ DeadlinePasses(x) \/ ExpireOverdue(x)
                           \/ CommitUpload(x) \/ AbortUpload(x)
  PROVE  KeptSession(k)
<1>1. sessions \in [Key -> SessionRow] /\ sessions[k] \in SessionRow
  BY DEF CatalogInv, TypeOK
<1>2. ASSUME sessions'[k] = sessions[k] PROVE KeptSession(k)
  BY <1>2 DEF KeptSession
<1>3. CASE CleanupUploads
  <2> DEFINE due == sessions[k].state = "open" /\ sessions[k].overdue
  <2>1. sessions'[k] = IF due THEN [sessions[k] EXCEPT !.state = "expired"] ELSE sessions[k]
    BY <1>3 DEF CleanupUploads
  <2>2. CASE ~due
    BY <1>2, <2>1, <2>2
  <2>3. CASE due
    <3>1. sessions'[k] = [sessions[k] EXCEPT !.state = "expired"]
      BY <2>1, <2>3
    <3>2. QED
      BY <1>1, <2>3, <3>1 DEF KeptSession, SessionRow
  <2>4. QED
    BY <2>2, <2>3
<1>4. CASE \E p \in Path : PurgeFile(p)
  <2>1. sessions'[k] \in {NoSession, sessions[k]}
    BY <1>4 DEF PurgeFile
  <2>2. QED
    BY <1>2, <2>1 DEF KeptSession, NoSession
<1>5. ASSUME NEW x \in Key,
             DeadlinePasses(x) \/ ExpireOverdue(x) \/ CommitUpload(x) \/ AbortUpload(x)
      PROVE  KeptSession(k)
  <2>1. sessions[x].state = "open"
    BY <1>5 DEF DeadlinePasses, ExpireOverdue, CommitUpload, Accepts, AbortUpload
  <2>2. CASE k = x
    <3>1. \/ sessions'[k] = [sessions[k] EXCEPT !.overdue = TRUE]
          \/ sessions'[k] = [sessions[k] EXCEPT !.state = "expired"]
          \/ sessions'[k] = [sessions[k] EXCEPT !.state = "aborted"]
          \/ \E v : sessions'[k] = [sessions[k] EXCEPT !.state = "committed", !.version = v]
      <4>1. CASE CommitUpload(x)
        <5>1. PICK v : MarkCommitted(x, v)
          BY <4>1 DEF CommitUpload
        <5>2. sessions' = [sessions EXCEPT ![x] = [@ EXCEPT !.state = "committed", !.version = v]]
          BY <5>1 DEF MarkCommitted
        <5>3. QED
          BY <1>1, <2>2, <5>2
      <4>2. CASE ~CommitUpload(x)
        BY <1>1, <1>5, <2>2, <4>2 DEF DeadlinePasses, ExpireOverdue, AbortUpload, SetSession
      <4>3. QED
        BY <4>1, <4>2
    <3>2. sessions'[k].path = sessions[k].path /\ sessions'[k].size = sessions[k].size
          /\ sessions'[k].rows = sessions[k].rows
      BY <1>1, <3>1 DEF SessionRow
    <3>3. QED
      BY <2>1, <2>2, <3>2 DEF KeptSession
  <2>3. CASE k # x
    <3>1. sessions'[k] = sessions[k]
      <4>1. CASE CommitUpload(x)
        <5>1. PICK v : MarkCommitted(x, v)
          BY <4>1 DEF CommitUpload
        <5>2. sessions' = [sessions EXCEPT ![x] = [@ EXCEPT !.state = "committed", !.version = v]]
          BY <5>1 DEF MarkCommitted
        <5>3. QED
          BY <1>1, <2>3, <5>2
      <4>2. CASE ~CommitUpload(x)
        BY <1>1, <1>5, <2>3, <4>2 DEF DeadlinePasses, ExpireOverdue, AbortUpload, SetSession
      <4>3. QED
        BY <4>1, <4>2
    <3>2. QED
      BY <1>2, <3>1
  <2>4. QED
    BY <2>2, <2>3
<1>6. QED
  BY <1>2, <1>3, <1>4, <1>5
     DEF ImportFile, DeleteFile, RestoreFile, RestoreVersion, catalogVars

\* A call that puts nothing into a session leaves what is true of it true.
LEMMA KeptTrue ==
  ASSUME NEW p \in Path, NEW h \in Content, SessionTrue(p, h), KeptSession(KeyOf(p, h))
  PROVE  SessionTrue(p, h)'
<1>1. Size(h) \in 0..MaxChunks
  BY ContentSize
<1>2. 1..Size(h) \subseteq 1..MaxChunks
  BY <1>1, CatalogAssumption DEF CatalogAssumption
<1>3. QED
  BY <1>2 DEF SessionTrue, KeptSession

\* A session created for a file's path and size is true of its content.
LEMMA CreateTrue ==
  ASSUME CatalogInv, SessionsTrue, NEW p \in Path, NEW h \in Content,
         CreateUpload(KeyOf(p, h), p, Size(h))
  PROVE  SessionsTrue'
<1> DEFINE k == KeyOf(p, h)
           opened == [NoSession EXCEPT !.state = "open", !.path = p, !.size = Size(h)]
           again == [Reopened(sessions[k]) EXCEPT !.rows = NoRows]
<1>1. /\ k \in Key /\ sessions \in [Key -> SessionRow] /\ sessions[k] \in SessionRow
      /\ Size(h) \in 0..MaxChunks
  BY KeyInKeys, ContentSize DEF CatalogInv, TypeOK
<1>2. 1..Size(h) \subseteq 1..MaxChunks
  BY <1>1, CatalogAssumption DEF CatalogAssumption
<1>3. SessionTrue(p, h)
  BY DEF SessionsTrue
<1>4. PICK row :
        /\ SetSession(k, row)
        /\ \/ row = opened
           \/ sessions[k].path = p /\ sessions[k].size = Size(h)
              /\ sessions[k].state # "none" /\ row \in {Reopened(sessions[k]), again}
  BY DEF CreateUpload
<1>5. /\ row.path = p /\ row.size = Size(h)
      /\ \A i \in 1..Size(h) : row.rows[i] \in {NoChunk, h[i]}
  <2>1. CASE row = opened
    BY <1>2, <2>1 DEF NoSession, NoRows
  <2>2. CASE row = Reopened(sessions[k]) /\ sessions[k].path = p /\ sessions[k].size = Size(h)
             /\ sessions[k].state # "none"
    <3>1. row.path = p /\ row.size = Size(h) /\ row.rows = sessions[k].rows
      BY <1>1, <2>2 DEF Reopened, SessionRow
    <3>2. QED
      BY <1>3, <2>2, <3>1 DEF SessionTrue
  <2>3. CASE row = again /\ sessions[k].path = p /\ sessions[k].size = Size(h)
    <3>1. row.path = p /\ row.size = Size(h) /\ row.rows = NoRows
      BY <1>1, <2>3 DEF Reopened, SessionRow
    <3>2. QED
      BY <1>2, <3>1 DEF NoRows
  <2>4. QED
    BY <1>4, <2>1, <2>2, <2>3
<1>6. sessions' = [sessions EXCEPT ![k] = row]
  BY <1>4 DEF SetSession
<1>7. SUFFICES ASSUME NEW q \in Path, NEW g \in Content PROVE SessionTrue(q, g)'
  BY DEF SessionsTrue
<1>8. CASE KeyOf(q, g) = k
  <2>1. q = p /\ g = h
    BY <1>8, KeysApart
  <2>2. sessions'[k] = row
    BY <1>1, <1>6
  <2>3. QED
    BY <1>5, <2>1, <2>2 DEF SessionTrue
<1>9. CASE KeyOf(q, g) # k
  <2>1. sessions'[KeyOf(q, g)] = sessions[KeyOf(q, g)]
    BY <1>1, <1>6, <1>9, KeyInKeys
  <2>2. QED
    BY <2>1 DEF SessionsTrue, SessionTrue
<1>10. QED
  BY <1>8, <1>9

\* So is one that takes the chunk of that content at its place.
LEMMA UploadTrue ==
  ASSUME CatalogInv, SessionsTrue, NEW p \in Path, NEW h \in Content,
         NEW i \in 1..Size(h), UploadChunk(KeyOf(p, h), i, h[i])
  PROVE  SessionsTrue'
<1> DEFINE k == KeyOf(p, h)
           row == [sessions[k] EXCEPT !.rows[i] = h[i]]
<1>1. /\ k \in Key /\ sessions \in [Key -> SessionRow] /\ sessions[k] \in SessionRow
      /\ Size(h) \in 0..MaxChunks
  BY KeyInKeys, ContentSize DEF CatalogInv, TypeOK
<1>2. 1..Size(h) \subseteq 1..MaxChunks
  BY <1>1, CatalogAssumption DEF CatalogAssumption
<1>3. /\ sessions' = [sessions EXCEPT ![k] = row]
      /\ sessions[k].state # "none"
  BY DEF UploadChunk, SetSession, Accepts
<1>4. SessionTrue(p, h)
  BY DEF SessionsTrue
<1>5. /\ sessions[k].path = p /\ sessions[k].size = Size(h)
      /\ \A j \in 1..Size(h) : sessions[k].rows[j] \in {NoChunk, h[j]}
  BY <1>3, <1>4 DEF SessionTrue
<1>6. row.path = sessions[k].path /\ row.size = sessions[k].size
      /\ row.rows = [sessions[k].rows EXCEPT ![i] = h[i]]
  BY <1>1 DEF SessionRow
<1>7. sessions[k].rows \in [1..MaxChunks -> Chunk \cup {NoChunk}]
  BY <1>1 DEF SessionRow
<1>8. \A j \in 1..Size(h) : row.rows[j] \in {NoChunk, h[j]}
  BY <1>2, <1>5, <1>6, <1>7
<1>9. SUFFICES ASSUME NEW q \in Path, NEW g \in Content PROVE SessionTrue(q, g)'
  BY DEF SessionsTrue
<1>10. CASE KeyOf(q, g) = k
  <2>1. q = p /\ g = h
    BY <1>10, KeysApart
  <2>2. sessions'[k] = row
    BY <1>1, <1>3
  <2>3. QED
    BY <1>5, <1>6, <1>8, <2>1, <2>2 DEF SessionTrue
<1>11. CASE KeyOf(q, g) # k
  <2>1. sessions'[KeyOf(q, g)] = sessions[KeyOf(q, g)]
    BY <1>1, <1>3, <1>11, KeyInKeys
  <2>2. QED
    BY <2>1 DEF SessionsTrue, SessionTrue
<1>12. QED
  BY <1>10, <1>11

-----------------------------------------------------------------------------
(* What is recorded *)

\* A version keeps its content until it is purged.
LEMMA NamesKept ==
  ASSUME CatalogInv, [Next]_catalogVars, NEW v, NEW h, Names(v, h)
  PROVE  Names(v, h)'
<1>1. VersionStep(v)
  BY VersionSteps DEF Names
<1>2. QED
  BY <1>1 DEF Names, VersionStep

\* The answer to a client whose upload is committed already is of its content.
LEMMA CommittedNames ==
  ASSUME CatalogInv, NEW p \in Path, NEW h \in Content, SessionTrue(p, h),
         sessions[KeyOf(p, h)].state = "committed"
  PROVE  Names(sessions[KeyOf(p, h)].version, h)
<1> DEFINE row == sessions[KeyOf(p, h)]
<1>1. row \in SessionRow
  BY KeyInKeys DEF CatalogInv, TypeOK
<1>2. /\ row.version \in VersionId
      /\ versions[row.version].status = "present"
      /\ versions[row.version].chunks = [i \in 1..row.size |-> row.rows[i]]
  BY KeyInKeys DEF CatalogInv, CommittedUploadHolds, PresentVersions, Uploaded
<1>3. versions[row.version].chunks \in Content
  BY <1>2 DEF CatalogInv, TypeOK, VersionRow
<1>4. row.size = Size(h) /\ \A i \in 1..Size(h) : row.rows[i] \in {NoChunk, h[i]}
  BY DEF SessionTrue
<1>5. versions[row.version].chunks = h
  BY <1>1, <1>2, <1>3, <1>4, UploadedWhole
<1>6. QED
  BY <1>2, <1>5 DEF Names

\* So is the answer to the commit itself.
LEMMA CommitNames ==
  ASSUME CatalogInv, CatalogInv', NEW p \in Path, NEW h \in Content, SessionTrue(p, h)',
         CommitUpload(KeyOf(p, h))
  PROVE  Names(sessions[KeyOf(p, h)].version, h)'
<1> DEFINE row == sessions'[KeyOf(p, h)]
<1>1. KeyOf(p, h) \in Key /\ row \in SessionRow
  BY KeyInKeys DEF CatalogInv, TypeOK
<1>2. row.state = "committed"
  <2>1. PICK v : MarkCommitted(KeyOf(p, h), v)
    BY DEF CommitUpload
  <2>2. sessions[KeyOf(p, h)] \in SessionRow /\ sessions \in [Key -> SessionRow]
    BY <1>1 DEF CatalogInv, TypeOK
  <2>3. row = [sessions[KeyOf(p, h)] EXCEPT !.state = "committed", !.version = v]
    <3>1. sessions' = [sessions EXCEPT ![KeyOf(p, h)] =
                         [@ EXCEPT !.state = "committed", !.version = v]]
      BY <2>1 DEF MarkCommitted
    <3>2. QED
      BY <1>1, <2>2, <3>1
  <2>4. QED
    BY <2>2, <2>3 DEF SessionRow
<1>3. /\ row.version \in VersionId
      /\ versions'[row.version].status = "present"
      /\ versions'[row.version].chunks = [i \in 1..row.size |-> row.rows[i]]
  BY <1>1, <1>2 DEF CatalogInv, CommittedUploadHolds, PresentVersions, Uploaded
<1>4. versions'[row.version].chunks \in Content
  BY <1>3 DEF CatalogInv, TypeOK, VersionRow
<1>5. row.size = Size(h) /\ \A i \in 1..Size(h) : row.rows[i] \in {NoChunk, h[i]}
  BY <1>2 DEF SessionTrue
<1>6. versions'[row.version].chunks = h
  BY <1>1, <1>3, <1>4, <1>5, UploadedWhole
<1>7. QED
  BY <1>3, <1>6 DEF Names

-----------------------------------------------------------------------------
(* The truth of the sessions is kept. *)

LEMMA AllKept ==
  ASSUME SessionsTrue, \A k \in Key : KeptSession(k)
  PROVE  SessionsTrue'
BY KeptTrue, KeyInKeys DEF SessionsTrue

LEMMA ClientKeepsSessions ==
  ASSUME CalmInv, ClientStep
  PROVE  SessionsTrue'
<1>1. SyncInv /\ SyncRows /\ CatalogInv /\ SessionsTrue /\ ClientTrue
  BY DEF CalmInv, SyncInv
<1>2. CASE CreateSession
  <2>1. client.path \in Path /\ client.hash \in Content /\ client.size = Size(client.hash)
    BY <1>1, <1>2, KeyTyped DEF CreateSession, ClientTrue, InFile
  <2>2. CASE CreateUpload(TheKey, client.path, client.size)
    BY <1>1, <2>1, <2>2, CreateTrue DEF TheKey
  <2>3. CASE UNCHANGED catalogVars
    BY <1>1, <2>3, CallsKeep, AllKept
  <2>4. QED
    BY <1>2, <2>2, <2>3 DEF CreateSession
<1>3. CASE SendChunk
  <2>1. client.path \in Path /\ client.hash \in Content
    BY <1>1, <1>3, KeyTyped DEF SendChunk, InFile
  <2>2. local[client.path].content = client.hash /\ client.at \in 1..Size(client.hash)
    <3>1. local[client.path].content = client.hash
      BY <1>1, <1>3 DEF SendChunk, ClientTrue, Exists
    <3>2. QED
      BY <1>1, <1>3, <3>1, NextChunk DEF SendChunk, InFile
  <2>3. CASE UploadChunk(TheKey, client.at, local[client.path].content[client.at])
    BY <1>1, <2>1, <2>2, <2>3, UploadTrue DEF TheKey
  <2>4. CASE UNCHANGED catalogVars
    BY <1>1, <2>4, CallsKeep, AllKept
  <2>5. QED
    BY <1>3, <2>3, <2>4 DEF SendChunk
<1>4. CASE Commit
  <2>1. TheKey \in Key /\ CommitUpload(TheKey)
    BY <1>1, <1>4, KeyTyped DEF Commit, InFile
  <2>2. QED
    BY <1>1, <2>1, CallsKeep, AllKept
<1>5. CASE ServerRefuses
  <2>1. TheKey \in Key
    BY <1>1, <1>5, KeyTyped DEF ServerRefuses, InFile
  <2>2. UNCHANGED catalogVars \/ ExpireOverdue(TheKey)
    BY <1>5 DEF ServerRefuses
  <2>3. QED
    BY <1>1, <2>1, <2>2, CallsKeep, AllKept
<1>6. CASE UNCHANGED catalogVars
  BY <1>1, <1>6, CallsKeep, AllKept
<1>7. QED
  BY <1>2, <1>3, <1>4, <1>5, <1>6
     DEF ClientStep, StartRun, StatFile, HashFile, StatAfter, Record, EndRun, StepFails, FileFails

LEMMA TroublesKeepSessions ==
  ASSUME CalmInv, Troubles
  PROVE  SessionsTrue'
<1>1. SyncInv /\ SyncRows /\ CatalogInv /\ SessionsTrue
  BY DEF CalmInv, SyncInv
<1>2. ASSUME NEW r \in late, LateRequest(r) PROVE SessionsTrue'
  <2>1. PICK h \in Content :
          /\ r.key = KeyOf(r.path, h) /\ r.size = Size(h)
          /\ r.call = "chunk" => r.at \in 1..Size(h) /\ r.chunk = h[r.at]
    BY DEF CalmInv, RequestTrue
  <2>2. r.key \in Key /\ r.path \in Path
    BY <1>1 DEF SyncRows, Request
  <2>3. CASE r.call = "create" /\ CreateUpload(r.key, r.path, r.size)
    BY <1>1, <2>1, <2>2, <2>3, CreateTrue
  <2>4. CASE r.call = "chunk" /\ UploadChunk(r.key, r.at, r.chunk)
    BY <1>1, <2>1, <2>2, <2>4, UploadTrue
  <2>5. CASE CommitUpload(r.key) \/ ExpireOverdue(r.key) \/ UNCHANGED catalogVars
    BY <1>1, <2>2, <2>5, CallsKeep, AllKept
  <2>6. QED
    BY <1>2, <2>3, <2>4, <2>5 DEF LateRequest
<1>3. CASE Others
  BY <1>1, <1>3, CallsKeep, AllKept DEF Others
<1>4. CASE RequestFails \/ Crash
  BY <1>1, <1>4, CallsKeep, AllKept DEF RequestFails, Crash
<1>5. QED
  BY <1>2, <1>3, <1>4 DEF Troubles

LEMMA SessionsTrueKept ==
  ASSUME CalmInv, [CalmNext]_syncVars
  PROVE  SessionsTrue'
<1>1. CatalogInv /\ SessionsTrue
  BY DEF CalmInv, SyncInv
<1>2. CASE (\E p \in Path : CalmEdit(p)) \/ UNCHANGED syncVars
  <2>1. UNCHANGED catalogVars
    BY <1>2 DEF CalmEdit, Edit, syncVars
  <2>2. QED
    BY <1>1, <2>1, CallsKeep, AllKept
<1>3. QED
  BY <1>2, ClientKeepsSessions, TroublesKeepSessions DEF CalmNext

-----------------------------------------------------------------------------
(* The truth of the requests, the client and the records is kept. *)

\* A request says what the client has seen of the file.
LEMMA SentTrue ==
  ASSUME SyncRows, ClientTrue, client.pc \in {"create", "send"}, Exists(client.path)
  PROVE  RequestTrue(SentRequest)
<1>1. client.hash \in Content /\ client.size = Size(client.hash)
  BY KeyTyped DEF ClientTrue, InFile
<1>2. local[client.path].content = client.hash
  BY DEF ClientTrue, Exists
<1>3. ~AtEnd => client.at \in 1..Size(client.hash)
  BY <1>2, NextChunk DEF InFile
<1>4. /\ SentRequest.key = KeyOf(SentRequest.path, client.hash)
      /\ SentRequest.size = client.size
  BY DEF SentRequest, TheKey
<1>5. SentRequest.call = "chunk" =>
        /\ ~AtEnd /\ SentRequest.at = client.at
        /\ SentRequest.chunk = local[client.path].content[client.at]
  BY DEF SentRequest
<1>6. QED
  BY <1>1, <1>2, <1>3, <1>4, <1>5 DEF RequestTrue

LEMMA RequestsTrueKept ==
  ASSUME CalmInv, [CalmNext]_syncVars
  PROVE  \A r \in late' : RequestTrue(r)
<1>1. SyncRows /\ ClientTrue /\ \A r \in late : RequestTrue(r)
  BY DEF CalmInv, SyncInv
<1>2. CASE RequestFails
  BY <1>1, <1>2, SentTrue DEF RequestFails
<1>3. CASE late' \subseteq late
  BY <1>1, <1>3
<1>4. CASE ClientStep
  <2>1. late' = late
    BY <1>4 DEF ClientStep, StartRun, StatFile, HashFile, CreateSession, SendChunk, Commit,
             StatAfter, Record, EndRun, ServerRefuses, StepFails, FileFails, Goto
  <2>2. QED
    BY <1>3, <2>1
<1>5. QED
  BY <1>2, <1>3, <1>4 DEF CalmNext, CalmEdit, Edit, Troubles, LateRequest, Crash, Others,
     syncVars, clientVars

LEMMA ClientStepTrue ==
  ASSUME CalmInv, SyncInv', SessionsTrue', ClientStep
  PROVE  ClientTrue'
<1>1. /\ SyncInv /\ SyncRows /\ CatalogInv /\ SessionsTrue /\ ClientTrue
      /\ client \in ClientState /\ UNCHANGED local
  BY DEF CalmInv, SyncInv, SyncRows, ClientStep, StartRun, StatFile, HashFile, CreateSession,
         SendChunk, Commit, StatAfter, Record, EndRun, ServerRefuses, StepFails, FileFails, Goto
<1>2. ASSUME client'.pc \in {"idle", "scan"} PROVE ClientTrue'
  BY <1>2 DEF ClientTrue
<1>3. BetweenFiles.pc = "scan" /\ Idle.pc = "idle"
  BY <1>1, ClientRows
<1>4. ASSUME NEW p \in Path, StatFile(p) PROVE ClientTrue'
  <2> DEFINE rest == [BetweenFiles EXCEPT !.todo = client.todo \ {p}]
             work == [rest EXCEPT !.pc = "hash", !.path = p,
                                  !.size = Size(local[p].content), !.mtime = local[p].mtime]
  <2>1. client' = rest \/ client' = work
    BY <1>4 DEF StatFile, Goto
  <2>2. rest \in ClientState /\ rest.pc = "scan"
    BY <1>1, ClientRows DEF ClientState
  <2>3. work.pc = "hash" /\ work.path = p /\ work.size = Size(local[p].content)
    BY <2>2 DEF ClientState
  <2>4. QED
    BY <1>1, <1>2, <2>1, <2>2, <2>3 DEF ClientTrue, Exists
<1>5. CASE HashFile
  <2> DEFINE hash == local[client.path].content
  <2>1. client.pc = "hash" /\ client.size = Size(hash)
    BY <1>1, <1>5 DEF HashFile, ClientTrue
  <2>2. client' = BetweenFiles \/ client' = [client EXCEPT !.pc = "create", !.hash = hash]
    BY <1>5 DEF HashFile, Goto
  <2>3. CASE client' = [client EXCEPT !.pc = "create", !.hash = hash]
    <3>1. /\ client'.pc = "create" /\ client'.hash = hash
          /\ client'.path = client.path /\ client'.size = client.size
      BY <1>1, <2>3 DEF ClientState
    <3>2. QED
      BY <1>1, <2>1, <3>1 DEF ClientTrue
  <2>4. QED
    BY <1>2, <1>3, <2>2, <2>3
<1>6. CASE CreateSession
  <2>1. client.pc = "create" /\ client.path \in Path /\ client.hash \in Content
    BY <1>1, <1>6, KeyTyped DEF CreateSession, InFile
  <2>2. CASE sessions[TheKey].state = "committed" /\ StillCurrent(TheKey)
    <3>1. Names(sessions[TheKey].version, client.hash)
      BY <1>1, <2>1, <2>2, CommittedNames DEF TheKey, SessionsTrue
    <3>2. /\ client' = [client EXCEPT !.pc = "record", !.version = sessions[TheKey].version]
          /\ UNCHANGED versions
      BY <1>6, <2>2 DEF CreateSession, Goto, catalogVars
    <3>3. /\ client'.pc = "record" /\ client'.hash = client.hash
          /\ client'.version = sessions[TheKey].version
      BY <1>1, <3>2 DEF ClientState
    <3>4. QED
      BY <3>1, <3>2, <3>3 DEF ClientTrue, Names
  <2>3. CASE client' = [client EXCEPT !.pc = "send"]
    <3>1. /\ client'.pc = "send" /\ client'.hash = client.hash
          /\ client'.path = client.path /\ client'.size = client.size
      BY <1>1, <2>3 DEF ClientState
    <3>2. QED
      BY <1>1, <2>1, <3>1 DEF ClientTrue
  <2>4. QED
    BY <1>6, <2>2, <2>3 DEF CreateSession, Goto
<1>7. CASE SendChunk
  <2>1. client.pc = "send" /\ client' = [client EXCEPT !.at = @ + 1]
    BY <1>7 DEF SendChunk, Goto
  <2>2. /\ client'.pc = "send" /\ client'.hash = client.hash
        /\ client'.path = client.path /\ client'.size = client.size
    BY <1>1, <2>1 DEF ClientState
  <2>3. QED
    BY <1>1, <2>1, <2>2 DEF ClientTrue
<1>8. CASE Commit
  <2>1. /\ client' = [client EXCEPT !.pc = "after", !.version = sessions'[TheKey].version]
        /\ client.path \in Path /\ client.hash \in Content /\ CommitUpload(TheKey)
    BY <1>1, <1>8, KeyTyped DEF Commit, Goto, InFile
  <2>2. /\ client'.pc = "after" /\ client'.hash = client.hash
        /\ client'.version = sessions'[TheKey].version
    BY <1>1, <2>1 DEF ClientState
  <2>3. CatalogInv'
    BY DEF SyncInv
  <2>4. QED
    <3> DEFINE p == client.path
               h == client.hash
    <3>1. \A q \in Path, g \in Content :
             q = p /\ g = h => CommitUpload(KeyOf(q, g)) /\ SessionTrue(q, g)'
      BY <2>1 DEF TheKey, SessionsTrue
    <3>2. \A q \in Path, g \in Content :
             q = p /\ g = h => Names(sessions[KeyOf(q, g)].version, g)'
      BY <1>1, <2>3, <3>1, CommitNames
    <3>3. \A q \in Path, g \in Content :
             q = p /\ g = h => KeyOf(q, g) = TheKey /\ client'.version = sessions'[KeyOf(q, g)].version
      BY <2>2 DEF TheKey
    <3>4. QED
      BY <2>1, <2>2, <3>2, <3>3 DEF ClientTrue, Names
<1>9. CASE StatAfter
  <2>1. client.pc = "after" /\ client' = [client EXCEPT !.pc = "record"] /\ UNCHANGED versions
    BY <1>9 DEF StatAfter, Goto, catalogVars
  <2>2. client'.pc = "record" /\ client'.hash = client.hash /\ client'.version = client.version
    BY <1>1, <2>1 DEF ClientState
  <2>3. QED
    BY <1>1, <2>1, <2>2 DEF ClientTrue, Names
<1>10. ASSUME NEW full \in BOOLEAN, StartRun(full) PROVE ClientTrue'
  <2>1. client'.pc = "scan"
    BY <1>10, ClientRows DEF StartRun, Goto, ClientState
  <2>2. QED
    BY <1>2, <2>1
<1>11. CASE Record \/ EndRun \/ ServerRefuses \/ StepFails
  BY <1>2, <1>3, <1>11 DEF Record, EndRun, ServerRefuses, StepFails, FileFails, Goto
<1>12. QED
  BY <1>4, <1>5, <1>6, <1>7, <1>8, <1>9, <1>10, <1>11 DEF ClientStep

\* While the client is at work on a file it can only disappear.
LEMMA CalmEditTrue ==
  ASSUME CalmInv, NEW p \in Path, CalmEdit(p)
  PROVE  ClientTrue'
<1>1. ClientTrue /\ SyncRows /\ UNCHANGED <<client, versions>>
  BY DEF CalmInv, SyncInv, CalmEdit, Edit, catalogVars
<1>2. local' = [local EXCEPT ![p] = local'[p]] /\ local \in [Path -> LocalFile]
  BY <1>1 DEF CalmEdit, Edit, SyncRows
<1>3. \A q \in Path \ {p} : local'[q] = local[q]
  BY <1>2
<1>4. client.pc \in InFile => client.path \in Path
  BY <1>1 DEF SyncRows
<1>5. client.path = p /\ client.pc \in {"hash", "create", "send", "after"} =>
        local'[p].content = Absent
  BY DEF CalmEdit
<1>6. QED
  BY <1>1, <1>3, <1>4, <1>5 DEF ClientTrue, Names, Exists, InFile

LEMMA TroublesTrue ==
  ASSUME CalmInv, [Next]_catalogVars, Troubles
  PROVE  ClientTrue'
<1>1. ClientTrue /\ CatalogInv /\ client \in ClientState
  BY DEF CalmInv, SyncInv, SyncRows
<1>2. client' \in {client, Idle, BetweenFiles} /\ UNCHANGED local
  BY DEF Troubles, RequestFails, LateRequest, Crash, Others
<1>3. CASE client' = client
  BY <1>1, <1>2, <1>3, NamesKept DEF ClientTrue, Exists
<1>4. CASE client' \in {Idle, BetweenFiles}
  BY <1>1, <1>4, ClientRows DEF ClientTrue
<1>5. QED
  BY <1>2, <1>3, <1>4

LEMMA ClientTrueKept ==
  ASSUME CalmInv, SyncInv', SessionsTrue', [Next]_catalogVars, [CalmNext]_syncVars
  PROVE  ClientTrue'
<1>1. CASE UNCHANGED syncVars
  BY <1>1 DEF CalmInv, ClientTrue, Names, Exists, syncVars, catalogVars, clientVars
<1>2. QED
  BY <1>1, ClientStepTrue, CalmEditTrue, TroublesTrue DEF CalmNext

\* A record is written with what the client knows, or only its size and time are.
LEMMA RecordsTrueKept ==
  ASSUME CalmInv, [Next]_catalogVars, [CalmNext]_syncVars
  PROVE  RecordsTrue'
<1>1. /\ SyncRows /\ CatalogInv /\ ClientTrue /\ RecordsTrue
      /\ synced \in [Path -> SyncedRow] /\ client \in ClientState
  BY DEF CalmInv, SyncInv, SyncRows
<1>2. SUFFICES ASSUME NEW p \in Path, synced'[p].status # "none"
               PROVE  Names(synced[p].version, synced[p].hash)'
  BY DEF RecordsTrue
<1>3. ASSUME synced'[p].status # "none" => synced[p].status # "none",
             synced'[p].version = synced[p].version, synced'[p].hash = synced[p].hash
      PROVE  Names(synced[p].version, synced[p].hash)'
  <2>1. Names(synced[p].version, synced[p].hash)
    BY <1>1, <1>2, <1>3 DEF RecordsTrue
  <2>2. \A v, h : Names(v, h) => Names(v, h)'
    BY <1>1, NamesKept
  <2>3. QED
    BY <1>3, <2>1, <2>2 DEF Names
<1>4. CASE HashFile
  <2> DEFINE q == client.path
  <2>1. \/ synced' = synced
        \/ synced' = [synced EXCEPT ![q].size = client.size, ![q].mtime = client.mtime]
    BY <1>4 DEF HashFile
  <2>2. /\ synced'[p].status = synced[p].status
        /\ synced'[p].version = synced[p].version /\ synced'[p].hash = synced[p].hash
    <3>1. synced[p] \in SyncedRow
      BY <1>1
    <3>2. q \in Path
      BY <1>1, <1>4 DEF HashFile, SyncRows, InFile
    <3>3. \/ synced'[p] = synced[p]
          \/ synced'[p] = [synced[p] EXCEPT !.size = client.size, !.mtime = client.mtime]
      BY <1>1, <2>1, <3>2
    <3>4. QED
      BY <3>1, <3>3 DEF SyncedRow
  <2>3. QED
    BY <1>3, <2>2
<1>5. CASE Record
  <2> DEFINE row == [status |-> "synced", size |-> client.size, mtime |-> client.mtime,
                     hash |-> client.hash, version |-> client.version]
  <2>1. synced' = [synced EXCEPT ![client.path] = row] /\ client.pc = "record" /\ UNCHANGED versions
    BY <1>5 DEF Record, catalogVars
  <2>2. CASE p = client.path
    <3>1. synced'[p] = row
      BY <1>1, <2>1, <2>2
    <3>2. synced'[p].version = client.version /\ synced'[p].hash = client.hash
      BY <3>1
    <3>3. QED
      BY <1>1, <2>1, <3>2 DEF ClientTrue, Names
  <2>3. CASE p # client.path
    <3>1. synced'[p] = synced[p]
      BY <1>1, <2>1, <2>3
    <3>2. QED
      BY <1>3, <3>1
  <2>4. QED
    BY <2>2, <2>3
<1>6. CASE EndRun
  <2>1. \/ synced'[p] = synced[p]
        \/ /\ synced[p].status = "synced"
           /\ synced'[p] = [synced[p] EXCEPT !.status = "missing"]
    BY <1>6 DEF EndRun
  <2>2. QED
    BY <1>1, <1>3, <2>1 DEF SyncedRow
<1>7. CASE UNCHANGED synced
  BY <1>3, <1>7
<1>8. QED
  BY <1>4, <1>5, <1>6, <1>7
     DEF CalmNext, ClientStep, StartRun, StatFile, CreateSession, SendChunk, Commit, StatAfter,
         ServerRefuses, StepFails, FileFails, CalmEdit, Edit, Troubles, RequestFails, LateRequest,
         Crash, Others, syncVars, clientVars

LEMMA CalmIsSync == [CalmNext]_syncVars => [SyncNext]_syncVars
BY DEF CalmNext, SyncNext, CalmEdit

LEMMA CalmNextInv == CalmInv /\ [CalmNext]_syncVars => CalmInv'
<1> SUFFICES ASSUME CalmInv, [CalmNext]_syncVars PROVE CalmInv'
  OBVIOUS
<1>1. SyncInv /\ [SyncNext]_syncVars
  BY CalmIsSync DEF CalmInv
<1>2. SyncInv' /\ [Next]_catalogVars
  BY <1>1, SyncNextInv, SyncCalls
<1>3. SessionsTrue'
  BY SessionsTrueKept
<1>4. \A r \in late' : RequestTrue(r)
  BY RequestsTrueKept
<1>5. ClientTrue' /\ RecordsTrue'
  BY <1>2, <1>3, ClientTrueKept, RecordsTrueKept
<1>6. QED
  BY <1>2, <1>3, <1>4, <1>5 DEF CalmInv, RequestTrue

LEMMA CalmInitInv == SyncInit => CalmInv
<1> SUFFICES ASSUME SyncInit PROVE CalmInv
  OBVIOUS
<1>1. SessionsTrue
  BY KeyInKeys DEF SyncInit, Init, NoSession, SessionsTrue, SessionTrue
<1>2. ClientTrue /\ RecordsTrue
  BY DEF SyncInit, Idle, NoSyncedRow, ClientTrue, RecordsTrue
<1>3. QED
  BY <1>1, <1>2, SyncInitInv DEF SyncInit, CalmInv

\* If nobody rewrites a file between the client's first stat of it and its last,
\* what the local database says was uploaded is what the server holds, whatever
\* fails, is retried, comes late, is deleted or expires meanwhile.  MCSyncTorn
\* shows that the condition is needed.
THEOREM SyncedFilesStored == CalmSpec => []SyncedIsStored
<1>1. CalmInv => SyncedIsStored
  BY DEF CalmInv, RecordsTrue, Names, SyncedIsStored
<1>2. QED
  BY <1>1, CalmInitInv, CalmNextInv, PTL DEF CalmSpec

=============================================================================
