------------------------- MODULE VaultCatalogProofs -------------------------
(***************************************************************************)
(* The safety of VaultCatalog, proved for every set of ids, chunks, keys   *)
(* and paths and every bound.                                              *)
(***************************************************************************)
EXTENDS VaultCatalog, FiniteSetTheorems, TLAPS

\* Rows in use have their columns filled: a file that can be seen or restored
\* has a path, a version has a file, a session has a path.
RowsFilled ==
  /\ \A f \in FileId : files[f].status \in {"live", "trash"} => files[f].path \in Path
  /\ \A v \in PresentVersions : versions[v].file \in FileId
  /\ \A k \in Key : sessions[k].state # "none" => sessions[k].path \in Path

\* No property of the catalog is inductive alone: ref_count stays a natural
\* number only because it is exact, and it is exact after a purge only because
\* the purged versions were counted.
CatalogInv ==
  /\ TypeOK
  /\ RowsFilled
  /\ RefCountsExact
  /\ UniqueLivePath
  /\ HeadsOwned
  /\ CommittedUploadHolds
  /\ TreeClosed

-----------------------------------------------------------------------------
(* Contents *)

\* The chunks of a content are listed at ordinals within the bound.
LEMMA ContentShape ==
  ASSUME NEW content \in Content
  PROVE  /\ DOMAIN content \subseteq 1..MaxChunks
         /\ IsFiniteSet(DOMAIN content)
         /\ Range(content) \subseteq Chunk
         /\ \A i \in DOMAIN content : content[i] \in Chunk
<1>1. PICK n \in 0..MaxChunks : content \in [1..n -> Chunk]
  BY DEF Content
<1>2. DOMAIN content = 1..n
  BY <1>1
<1>3. 1..n \subseteq 1..MaxChunks
  BY CatalogAssumption DEF CatalogAssumption
<1>4. IsFiniteSet(1..n)
  BY FS_Interval
<1>5. QED
  BY <1>1, <1>2, <1>3, <1>4 DEF Range

\* An empty file is a content.
LEMMA EmptyContent == <<>> \in Content
<1>1. <<>> \in [1..0 -> Chunk]
  OBVIOUS
<1>2. 0 \in 0..MaxChunks
  BY CatalogAssumption DEF CatalogAssumption
<1>3. QED
  BY <1>1, <1>2 DEF Content

-----------------------------------------------------------------------------
(* Reference counts *)

\* Only finitely many version_chunks rows name a chunk.
LEMMA UsesFinite ==
  ASSUME NEW V \in SUBSET VersionId, NEW c
  PROVE  IsFiniteSet(UsesIn(V, c))
<1>1. IsFiniteSet(V)
  BY FS_Subset, CatalogAssumption DEF CatalogAssumption
<1>2. IsFiniteSet(1..MaxChunks)
  BY FS_Interval, CatalogAssumption DEF CatalogAssumption
<1>3. IsFiniteSet(V \X (1..MaxChunks))
  BY <1>1, <1>2, FS_Product
<1>4. UsesIn(V, c) \in SUBSET (V \X (1..MaxChunks))
  BY DEF UsesIn
<1>5. QED
  BY <1>3, <1>4, FS_Subset

\* A version's uses of a chunk are as many as the chunk's places in it.
LEMMA UsesOfOne ==
  ASSUME NEW v, NEW content \in Content, NEW c
  PROVE  LET U == {v} \X Occurrences(content, c)
         IN  IsFiniteSet(U) /\ Cardinality(U) = Cardinality(Occurrences(content, c))
<1> DEFINE O == Occurrences(content, c)
           U == {v} \X O
<1>1. O \subseteq DOMAIN content
  BY DEF Occurrences
<1>2. IsFiniteSet(O)
  BY <1>1, ContentShape, FS_Subset
<1>3. IsFiniteSet({v}) /\ Cardinality({v}) = 1
  BY FS_Singleton
<1>4. IsFiniteSet(U) /\ Cardinality(U) = Cardinality({v}) * Cardinality(O)
  BY <1>2, <1>3, FS_Product
<1>5. Cardinality(O) \in Nat
  BY <1>2, FS_CardinalityType
<1>6. QED
  BY <1>3, <1>4, <1>5

\* Publishing a version counts each of its chunks as often as it occurs.
LEMMA AddVersionCounts ==
  ASSUME TypeOK, RefCountsExact,
         NEW f \in FileId, NEW v \in VersionId, NEW content \in Content,
         AddVersion(f, v, content)
  PROVE  RefCountsExact' /\ refCount' \in [Chunk -> Nat]
<1>1. /\ v \notin PresentVersions
      /\ PresentVersions' = PresentVersions \cup {v}
      /\ versions'[v].chunks = content
      /\ \A x \in PresentVersions : versions'[x] = versions[x]
  BY DEF AddVersion, PresentVersions, TypeOK, VersionRow
<1>2. SUFFICES ASSUME NEW c \in Chunk
               PROVE  /\ refCount'[c] = Cardinality(UsesIn(PresentVersions, c)')
                      /\ refCount'[c] > 0 => c \in chunkRows'
                      /\ refCount'[c] \in Nat
  BY DEF RefCountsExact, AddVersion
<1> DEFINE Old == UsesIn(PresentVersions, c)
           New == {v} \X Occurrences(content, c)
<1>3. UsesIn(PresentVersions, c)' = Old \cup New
  <2>1. DOMAIN content \subseteq 1..MaxChunks
    BY ContentShape
  <2>2. ASSUME NEW u PROVE u \in UsesIn(PresentVersions, c)' <=> u \in Old \cup New
    <3>1. u \in Old <=> /\ u \in PresentVersions \X (1..MaxChunks)
                        /\ u[2] \in DOMAIN versions[u[1]].chunks
                        /\ versions[u[1]].chunks[u[2]] = c
      BY DEF UsesIn
    <3>2. u \in New <=> /\ u \in {v} \X (1..MaxChunks)
                        /\ u[2] \in DOMAIN content
                        /\ content[u[2]] = c
      BY <2>1 DEF Occurrences
    <3>3. u \in UsesIn(PresentVersions, c)'
            <=> /\ u \in (PresentVersions \cup {v}) \X (1..MaxChunks)
                /\ u[2] \in DOMAIN versions'[u[1]].chunks
                /\ versions'[u[1]].chunks[u[2]] = c
      BY <1>1 DEF UsesIn
    <3>4. QED
      BY <3>1, <3>2, <3>3, <1>1
  <2>3. QED
    BY <2>2
<1>4. Old \cap New = {}
  BY <1>1 DEF UsesIn
<1>5. IsFiniteSet(Old)
  BY UsesFinite DEF PresentVersions
<1>6. IsFiniteSet(New) /\ Cardinality(New) = Cardinality(Occurrences(content, c))
  BY UsesOfOne
<1>7. Cardinality(Old \cup New) = Cardinality(Old) + Cardinality(New)
  <2>1. Cardinality(Old \cup New)
          = Cardinality(Old) + Cardinality(New) - Cardinality(Old \cap New)
    BY <1>5, <1>6, FS_Union
  <2>2. Cardinality(Old \cap New) = 0
    BY <1>4, FS_EmptySet
  <2>3. Cardinality(Old) \in Nat /\ Cardinality(New) \in Nat
    BY <1>5, <1>6, FS_CardinalityType
  <2>4. QED
    BY <2>1, <2>2, <2>3
<1>8. refCount'[c] = refCount[c] + Cardinality(Occurrences(content, c))
  BY DEF AddVersion
<1>9. refCount[c] = Cardinality(Old) /\ (refCount[c] > 0 => c \in chunkRows)
  BY DEF RefCountsExact
<1>10. Cardinality(Old) \in Nat /\ Cardinality(New) \in Nat
  BY <1>5, <1>6, FS_CardinalityType
<1>11. Cardinality(New) > 0 => c \in Range(content)
  <2>1. SUFFICES ASSUME Occurrences(content, c) = {} PROVE Cardinality(New) = 0
    BY <1>10 DEF Occurrences, Range
  <2>2. QED
    BY <2>1, <1>6, FS_EmptySet
<1>12. QED
  BY <1>3, <1>6, <1>7, <1>8, <1>9, <1>10, <1>11 DEF AddVersion

\* Purging subtracts exactly the uses of the purged versions.
LEMMA PurgeCounts ==
  ASSUME TypeOK, RefCountsExact, NEW p \in Path, PurgeFile(p)
  PROVE  RefCountsExact' /\ refCount' \in [Chunk -> Nat]
<1>1. PICK f \in LatestTrashAt(p) :
        /\ versions' = [v \in VersionId |->
              IF v \in VersionsOf(f) THEN NoVersionRow("purged") ELSE versions[v]]
        /\ refCount' = [c \in Chunk |-> refCount[c] - Cardinality(UsesIn(VersionsOf(f), c))]
  BY DEF PurgeFile
<1>2. /\ PresentVersions' = PresentVersions \ VersionsOf(f)
      /\ VersionsOf(f) \subseteq PresentVersions
      /\ \A v \in PresentVersions \ VersionsOf(f) : versions'[v] = versions[v]
  BY <1>1 DEF PresentVersions, VersionsOf, NoVersionRow
<1>3. SUFFICES ASSUME NEW c \in Chunk
               PROVE  /\ refCount'[c] = Cardinality(UsesIn(PresentVersions, c)')
                      /\ refCount'[c] > 0 => c \in chunkRows'
                      /\ refCount'[c] \in Nat
  BY <1>1 DEF RefCountsExact
<1> DEFINE Old == UsesIn(PresentVersions, c)
           Gone == UsesIn(VersionsOf(f), c)
<1>4. Gone \subseteq Old
  BY <1>2 DEF UsesIn
<1>5. UsesIn(PresentVersions, c)' = Old \ Gone
  BY <1>2 DEF UsesIn
<1>6. IsFiniteSet(Old)
  BY UsesFinite DEF PresentVersions
<1>7. Cardinality(Old \ Gone) = Cardinality(Old) - Cardinality(Gone)
  <2>1. Old \cap Gone = Gone
    BY <1>4
  <2>2. QED
    BY <1>6, <2>1, FS_Difference
<1>8. Cardinality(Old \ Gone) \in Nat /\ Cardinality(Old) \in Nat /\ Cardinality(Gone) \in Nat
  BY <1>4, <1>6, FS_Difference, FS_Subset, FS_CardinalityType
<1>9. refCount'[c] = refCount[c] - Cardinality(Gone)
  BY <1>1
<1>10. refCount[c] = Cardinality(Old) /\ (refCount[c] > 0 => c \in chunkRows)
  BY DEF RefCountsExact
<1>11. chunkRows' = chunkRows
  BY DEF PurgeFile
<1>12. QED
  BY <1>5, <1>7, <1>8, <1>9, <1>10, <1>11

\* What changes no version and no count, and drops only rows counted zero.
LEMMA SameCounts ==
  ASSUME RefCountsExact, UNCHANGED <<versions, refCount>>,
         \A c \in chunkRows \ chunkRows' : refCount[c] = 0
  PROVE  RefCountsExact'
BY DEF RefCountsExact, UsesIn, PresentVersions

-----------------------------------------------------------------------------
(* Upload sessions *)

\* Writing one session row that is not committed disturbs nothing else.
LEMMA SetSessionInv ==
  ASSUME CatalogInv, NEW k \in Key, NEW row \in SessionRow, SetSession(k, row),
         row.state # "committed", row.state # "none" => row.path \in Path
  PROVE  CatalogInv'
<1> USE DEF CatalogInv, SetSession
<1>1. TypeOK'
  BY DEF TypeOK
<1>2. RowsFilled'
  BY DEF RowsFilled, PresentVersions, TypeOK
<1>3. RefCountsExact'
  BY SameCounts
<1>4. UniqueLivePath' /\ HeadsOwned' /\ TreeClosed'
  BY DEF UniqueLivePath, HeadsOwned, TreeClosed, VersionsOf, PresentVersions
<1>5. CommittedUploadHolds'
  BY DEF CommittedUploadHolds, PresentVersions, Uploaded, TypeOK
<1>6. QED
  BY <1>1, <1>2, <1>3, <1>4, <1>5

\* Creating or reopening a session writes one open session row.
LEMMA CreateUploadInv ==
  ASSUME CatalogInv, NEW k \in Key, NEW p \in Path, NEW n \in 0..MaxChunks,
         CreateUpload(k, p, n)
  PROVE  CatalogInv'
<1>1. NoSession \in SessionRow /\ NoRows \in [1..MaxChunks -> Chunk \cup {NoChunk}]
  BY CatalogAssumption DEF CatalogAssumption, NoSession, SessionRow, NoRows
<1>2. sessions[k] \in SessionRow
  BY DEF CatalogInv, TypeOK
<1>3. CASE SetSession(k, [NoSession EXCEPT !.state = "open", !.path = p, !.size = n])
  <2>1. [NoSession EXCEPT !.state = "open", !.path = p, !.size = n] \in SessionRow
    BY <1>1 DEF SessionRow
  <2>2. QED
    BY <1>3, <2>1, <1>1, SetSessionInv DEF SessionRow
<1>4. CASE SetSession(k, Reopened(sessions[k])) /\ sessions[k].path = p
  <2>1. Reopened(sessions[k]) \in SessionRow
    BY <1>2 DEF SessionRow, Reopened
  <2>2. Reopened(sessions[k]).state = "open" /\ Reopened(sessions[k]).path = p
    BY <1>2, <1>4 DEF SessionRow, Reopened
  <2>3. QED
    BY <1>4, <2>1, <2>2, SetSessionInv
<1>5. CASE SetSession(k, [Reopened(sessions[k]) EXCEPT !.rows = NoRows]) /\ sessions[k].path = p
  <2> DEFINE row == [Reopened(sessions[k]) EXCEPT !.rows = NoRows]
  <2>1. row \in SessionRow
    BY <1>1, <1>2 DEF SessionRow, Reopened
  <2>2. row.state = "open" /\ row.path = p
    BY <1>2, <1>5 DEF SessionRow, Reopened
  <2>3. QED
    BY <1>5, <2>1, <2>2, SetSessionInv
<1>6. QED
  BY <1>3, <1>4, <1>5 DEF CreateUpload

\* Recording a chunk keeps its session open, at the same path.
LEMMA UploadChunkInv ==
  ASSUME CatalogInv, NEW k \in Key, NEW i \in 1..MaxChunks, NEW c \in Chunk,
         UploadChunk(k, i, c)
  PROVE  CatalogInv'
<1> DEFINE row == [sessions[k] EXCEPT !.rows[i] = c]
<1>1. sessions[k] \in SessionRow /\ sessions[k].state = "open" /\ sessions[k].path \in Path
  BY DEF CatalogInv, TypeOK, RowsFilled, UploadChunk, Accepts
<1>2. row \in SessionRow /\ row.state = "open" /\ row.path = sessions[k].path
  BY <1>1 DEF SessionRow
<1>3. QED
  BY <1>1, <1>2, SetSessionInv DEF UploadChunk

\* The deadline, its detection and an abort change one open session's state.
LEMMA CloseSessionInv ==
  ASSUME CatalogInv, NEW k \in Key,
         DeadlinePasses(k) \/ ExpireOverdue(k) \/ AbortUpload(k)
  PROVE  CatalogInv'
<1>1. sessions[k] \in SessionRow /\ sessions[k].state = "open" /\ sessions[k].path \in Path
  BY DEF CatalogInv, TypeOK, RowsFilled, DeadlinePasses, ExpireOverdue, AbortUpload
<1>2. ASSUME NEW row, SetSession(k, row),
             \/ row = [sessions[k] EXCEPT !.overdue = TRUE]
             \/ row = [sessions[k] EXCEPT !.state = "expired"]
             \/ row = [sessions[k] EXCEPT !.state = "aborted"]
      PROVE  CatalogInv'
  <2>1. row \in SessionRow /\ row.state # "committed" /\ row.path = sessions[k].path
    BY <1>1, <1>2 DEF SessionRow
  <2>2. QED
    BY <1>1, <1>2, <2>1, SetSessionInv
<1>3. QED
  BY <1>2 DEF DeadlinePasses, ExpireOverdue, AbortUpload

\* Expiring the overdue sessions changes nothing but their state.
LEMMA CleanupUploadsInv ==
  ASSUME CatalogInv, CleanupUploads
  PROVE  CatalogInv'
<1> DEFINE Expires(k) == sessions[k].state = "open" /\ sessions[k].overdue
<1> USE DEF CatalogInv
<1>1. sessions' = [k \in Key |-> IF Expires(k) THEN [sessions[k] EXCEPT !.state = "expired"]
                                            ELSE sessions[k]]
  BY Zenon DEF CleanupUploads
<1>2. \A k \in Key : Expires(k) => sessions[k].state = "open"
  BY Zenon DEF Expires
<1> HIDE DEF Expires
<1>3. UNCHANGED <<files, versions, chunkRows, refCount, dirs, clock>>
  BY DEF CleanupUploads
<1>4. ASSUME NEW k \in Key
      PROVE  /\ sessions'[k] \in SessionRow
             /\ sessions'[k].path = sessions[k].path
             /\ sessions[k].state = "none" => sessions'[k].state = "none"
             /\ sessions'[k].state = "none" => sessions[k].state = "none"
             /\ sessions'[k].state = "committed" => sessions'[k] = sessions[k]
  <2>1. sessions[k] \in SessionRow
    BY DEF TypeOK
  <2>2. CASE Expires(k)
    <3>1. sessions'[k] = [sessions[k] EXCEPT !.state = "expired"] /\ sessions[k].state = "open"
      BY <1>1, <1>2, <2>2
    <3>2. QED
      BY <2>1, <3>1 DEF SessionRow
  <2>3. CASE ~Expires(k)
    <3>1. sessions'[k] = sessions[k]
      BY <1>1, <2>3
    <3>2. QED
      BY <2>1, <3>1
  <2>4. QED
    BY <2>2, <2>3
<1>5. TypeOK'
  <2>1. sessions' \in [Key -> SessionRow]
    BY <1>1, <1>4
  <2>2. QED
    BY <1>3, <2>1 DEF TypeOK
<1>6. RowsFilled'
  BY <1>3, <1>4 DEF RowsFilled, PresentVersions
<1>7. RefCountsExact'
  BY <1>3, SameCounts
<1>8. UniqueLivePath' /\ HeadsOwned' /\ TreeClosed'
  BY <1>3 DEF UniqueLivePath, HeadsOwned, TreeClosed, VersionsOf, PresentVersions
<1>9. CommittedUploadHolds'
  BY <1>3, <1>4 DEF CommittedUploadHolds, PresentVersions, Uploaded
<1>10. QED
  BY <1>5, <1>6, <1>7, <1>8, <1>9

-----------------------------------------------------------------------------
(* Files *)

\* A step on the rows of files and directories that keeps every file's head
\* and purges or creates none.
LEMMA FileRowsInv ==
  ASSUME CatalogInv, UNCHANGED <<versions, chunkRows, refCount, sessions, clock>>,
         files' \in [FileId -> FileRow], dirs' \subseteq Dir,
         \A f \in FileId :
           /\ files[f].status \in {"live", "trash"} <=> files'[f].status \in {"live", "trash"}
           /\ files'[f].status \in {"live", "trash"} =>
                files'[f].path \in Path /\ files'[f].current = files[f].current,
         UniqueLivePath', TreeClosed'
  PROVE  CatalogInv'
<1> USE DEF CatalogInv
<1>1. TypeOK'
  BY DEF TypeOK
<1>2. RowsFilled'
  BY DEF RowsFilled, PresentVersions
<1>3. RefCountsExact'
  BY SameCounts
<1>4. HeadsOwned'
  BY DEF HeadsOwned, VersionsOf, PresentVersions, RowsFilled
<1>5. CommittedUploadHolds'
  BY DEF CommittedUploadHolds, PresentVersions, Uploaded
<1>6. QED
  BY <1>1, <1>2, <1>3, <1>4, <1>5

\* A file goes to the trash with its head and its versions.
LEMMA DeleteFileInv ==
  ASSUME CatalogInv, NEW p \in Path, DeleteFile(p)
  PROVE  CatalogInv'
<1>1. PICK f \in LiveAt(p), t \in 0..MaxClock :
        files' = [files EXCEPT ![f].status = "trash", ![f].deletedAt = t]
  BY DEF DeleteFile
<1>2. f \in FileId /\ files[f].status = "live"
  BY DEF LiveAt, FilesAt
<1> USE DEF CatalogInv, DeleteFile
<1>3. files' \in [FileId -> FileRow]
  BY <1>1, <1>2 DEF TypeOK, FileRow
<1>4. UniqueLivePath'
  BY <1>1, <1>2 DEF UniqueLivePath, TypeOK, FileRow
<1>5. TreeClosed'
  BY <1>1, <1>2 DEF TreeClosed, TypeOK, FileRow
<1>6. \A g \in FileId :
        /\ files[g].status \in {"live", "trash"} <=> files'[g].status \in {"live", "trash"}
        /\ files'[g].path = files[g].path /\ files'[g].current = files[g].current
  BY <1>1, <1>2 DEF TypeOK, FileRow
<1>7. QED
  BY <1>3, <1>4, <1>5, <1>6, FileRowsInv DEF RowsFilled, TypeOK

\* A file comes back only to a path with no live file; its directories are there.
LEMMA RestoreFileInv ==
  ASSUME CatalogInv, NEW p \in Path, RestoreFile(p)
  PROVE  CatalogInv'
<1>1. PICK f \in LatestTrashAt(p) :
        files' = [files EXCEPT ![f].status = "live", ![f].deletedAt = 0]
  BY DEF RestoreFile
<1>2. f \in FileId /\ files[f].status = "trash" /\ files[f].path = p
  BY DEF LatestTrashAt, FilesAt
<1> USE DEF CatalogInv, RestoreFile
<1>3. files' \in [FileId -> FileRow]
  BY <1>1, <1>2, CatalogAssumption DEF TypeOK, FileRow, CatalogAssumption
<1>4. UniqueLivePath'
  <2>1. \A g \in FileId : ~(files[g].status = "live" /\ files[g].path = p)
    BY DEF LiveAt, FilesAt
  <2>2. QED
    BY <1>1, <1>2, <2>1 DEF UniqueLivePath, TypeOK, FileRow
<1>5. TreeClosed'
  BY <1>1, <1>2 DEF TreeClosed, TypeOK, FileRow
<1>6. \A g \in FileId :
        /\ files[g].status \in {"live", "trash"} <=> files'[g].status \in {"live", "trash"}
        /\ files'[g].path = files[g].path /\ files'[g].current = files[g].current
  BY <1>1, <1>2 DEF TypeOK, FileRow
<1>7. QED
  BY <1>3, <1>4, <1>5, <1>6, FileRowsInv DEF RowsFilled, TypeOK

\* Ancestors are directories, and their ancestors are ancestors.
LEMMA AboveClosed ==
  ASSUME NEW x \in Path \cup Dir
  PROVE  Above[x] \subseteq Dir /\ \A d \in Above[x] : Above[d] \subseteq Above[x]
BY CatalogAssumption DEF CatalogAssumption

\* Moving live files one to one onto free or vacated paths keeps one per path.
LEMMA RelocateInv ==
  ASSUME CatalogInv, NEW S \in SUBSET Path, NEW to \in [S -> Path], Relocate(S, to),
         \A s, t \in S : to[s] = to[t] => s = t,
         \A s \in S : LiveAt(to[s]) # {} => to[s] \in S
  PROVE  CatalogInv'
<1> DEFINE Moves(f) == files[f].status = "live" /\ files[f].path \in S
<1> USE DEF CatalogInv
<1>1. \A f \in FileId :
        /\ Moves(f) => files'[f] = [files[f] EXCEPT !.path = to[files[f].path]]
        /\ ~Moves(f) => files'[f] = files[f]
  BY DEF Relocate
<1>2. files' \in [FileId -> FileRow]
  BY DEF Relocate, TypeOK, FileRow
<1>3. \A f \in FileId :
        /\ files'[f].status = files[f].status /\ files'[f].current = files[f].current
        /\ files'[f].path = IF Moves(f) THEN to[files[f].path] ELSE files[f].path
  BY <1>1 DEF TypeOK, FileRow
<1>4. dirs' \subseteq Dir
  BY AboveClosed DEF Relocate, TypeOK
<1>5. UniqueLivePath'
  <2>1. SUFFICES ASSUME NEW f \in FileId, NEW g \in FileId,
                        files[f].status = "live", files[g].status = "live",
                        files'[f].path = files'[g].path
                 PROVE  f = g
    BY <1>3 DEF UniqueLivePath
  <2>2. CASE Moves(f) /\ Moves(g)
    BY <1>3, <2>1, <2>2 DEF UniqueLivePath
  <2>3. CASE Moves(f) /\ ~Moves(g)
    <3>1. files[g].path = to[files[f].path]
      BY <1>3, <2>1, <2>3
    <3>2. g \in LiveAt(to[files[f].path])
      BY <2>1, <3>1 DEF LiveAt, FilesAt
    <3>3. QED
      BY <2>1, <2>3, <3>1, <3>2
  <2>4. CASE ~Moves(f) /\ Moves(g)
    <3>1. files[f].path = to[files[g].path]
      BY <1>3, <2>1, <2>4
    <3>2. f \in LiveAt(to[files[g].path])
      BY <2>1, <3>1 DEF LiveAt, FilesAt
    <3>3. QED
      BY <2>1, <2>4, <3>1, <3>2
  <2>5. CASE ~Moves(f) /\ ~Moves(g)
    BY <1>3, <2>1, <2>5 DEF UniqueLivePath
  <2>6. QED
    BY <2>2, <2>3, <2>4, <2>5
<1>6. TreeClosed'
  <2>1. \A s \in S : Above[to[s]] \subseteq dirs'
    BY DEF Relocate
  <2>2. \A d \in dirs' : Above[d] \subseteq dirs'
    BY AboveClosed DEF Relocate, TreeClosed
  <2>3. \A f \in FileId : files'[f].status \in {"live", "trash"}
                            => Above[files'[f].path] \subseteq dirs'
    BY <1>3, <2>1 DEF Relocate, TreeClosed
  <2>4. QED
    BY <2>2, <2>3 DEF TreeClosed, Relocate
<1>7. QED
  BY <1>2, <1>3, <1>4, <1>5, <1>6, FileRowsInv DEF Relocate, RowsFilled, TypeOK

\* A single move is a relocation onto a free path.
LEMMA MoveFileInv ==
  ASSUME CatalogInv, NEW p \in Path, NEW q \in Path, MoveFile(p, q)
  PROVE  CatalogInv'
<1> DEFINE to == [s \in {p} |-> q]
<1>1. {p} \in SUBSET Path /\ to \in [{p} -> Path] /\ Relocate({p}, to)
  BY DEF MoveFile
<1>2. \A s \in {p} : to[s] = q /\ LiveAt(q) = {}
  BY DEF MoveFile
<1>3. QED
  BY <1>1, <1>2, RelocateInv

\* A batch move is a relocation onto free or vacated paths.
LEMMA MoveFilesInv ==
  ASSUME CatalogInv, NEW S \in SUBSET Path, NEW to \in [S -> Path], MoveFiles(S, to)
  PROVE  CatalogInv'
BY RelocateInv DEF MoveFiles

\* The clock concerns no row.
LEMMA TickInv ==
  ASSUME CatalogInv, Tick
  PROVE  CatalogInv'
<1> USE DEF CatalogInv, Tick
<1>1. TypeOK' /\ RowsFilled' /\ UniqueLivePath'
  BY CatalogAssumption
     DEF CatalogAssumption, TypeOK, RowsFilled, UniqueLivePath, PresentVersions
<1>2. RefCountsExact'
  BY SameCounts
<1>3. HeadsOwned' /\ TreeClosed' /\ CommittedUploadHolds'
  BY DEF HeadsOwned, TreeClosed, CommittedUploadHolds, VersionsOf, PresentVersions, Uploaded
<1>4. QED
  BY <1>1, <1>2, <1>3

\* A directory is created with its ancestors.
LEMMA CreateDirectoryInv ==
  ASSUME CatalogInv, NEW d \in Dir, CreateDirectory(d)
  PROVE  CatalogInv'
<1> USE DEF CatalogInv, CreateDirectory
<1>1. TypeOK' /\ RowsFilled' /\ UniqueLivePath'
  BY AboveClosed DEF TypeOK, RowsFilled, UniqueLivePath, PresentVersions
<1>2. RefCountsExact'
  BY SameCounts
<1>3. HeadsOwned' /\ CommittedUploadHolds'
  BY DEF HeadsOwned, CommittedUploadHolds, VersionsOf, PresentVersions, Uploaded
<1>4. TreeClosed'
  BY AboveClosed DEF TreeClosed
<1>5. QED
  BY <1>1, <1>2, <1>3, <1>4

\* Collecting rows with no references loses no count.
LEMMA DropChunkRowsInv ==
  ASSUME CatalogInv, NEW C \in SUBSET Chunk, DropChunkRows(C)
  PROVE  CatalogInv'
<1> USE DEF CatalogInv, DropChunkRows
<1>1. TypeOK' /\ RowsFilled' /\ UniqueLivePath'
  BY DEF TypeOK, RowsFilled, UniqueLivePath, PresentVersions
<1>2. RefCountsExact'
  BY SameCounts
<1>3. HeadsOwned' /\ TreeClosed' /\ CommittedUploadHolds'
  BY DEF HeadsOwned, TreeClosed, CommittedUploadHolds, VersionsOf, PresentVersions, Uploaded
<1>4. QED
  BY <1>1, <1>2, <1>3

-----------------------------------------------------------------------------
(* Versions *)

\* What adding a version to the rows of versions, chunks and references keeps.
LEMMA AddVersionRows ==
  ASSUME CatalogInv, NEW f \in FileId, NEW v \in VersionId, NEW content \in Content,
         AddVersion(f, v, content)
  PROVE  /\ versions' \in [VersionId -> VersionRow]
         /\ chunkRows' \subseteq Chunk
         /\ RefCountsExact' /\ refCount' \in [Chunk -> Nat]
         /\ PresentVersions' = PresentVersions \cup {v}
         /\ v \notin PresentVersions
         /\ \A x \in VersionId \ {v} : versions'[x] = versions[x]
         /\ versions'[v] = [status |-> "present", file |-> f, chunks |-> content]
<1> USE DEF CatalogInv
<1>1. RefCountsExact' /\ refCount' \in [Chunk -> Nat]
  BY AddVersionCounts
<1>2. chunkRows' \subseteq Chunk
  BY ContentShape DEF AddVersion, TypeOK
<1>3. versions' \in [VersionId -> VersionRow]
  BY DEF AddVersion, TypeOK, VersionRow
<1>4. versions'[v] = [status |-> "present", file |-> f, chunks |-> content]
  BY DEF AddVersion, TypeOK
<1>5. \A x \in VersionId \ {v} : versions'[x] = versions[x]
  BY DEF AddVersion, TypeOK
<1>6. v \notin PresentVersions /\ PresentVersions' = PresentVersions \cup {v}
  BY <1>4, <1>5 DEF AddVersion, PresentVersions
<1>7. QED
  BY <1>1, <1>2, <1>3, <1>4, <1>5, <1>6

\* A new version becomes the head of a live file, whatever the step does to
\* the sessions.
LEMMA NewHeadInv ==
  ASSUME CatalogInv, NEW p \in Path, NEW content \in Content, NEW v \in VersionId,
         NEW f \in FileId, AddVersion(f, v, content), UNCHANGED clock,
         files' \in [FileId -> FileRow],
         files'[f].status = "live", files'[f].path = p, files'[f].current = v,
         \A g \in FileId \ {f} :
           files'[g] = files[g] /\ ~(files[g].status = "live" /\ files[g].path = p),
         dirs' \subseteq Dir, dirs \subseteq dirs', Above[p] \subseteq dirs',
         \A d \in dirs' : Above[d] \subseteq dirs',
         sessions' \in [Key -> SessionRow],
         \A k \in Key : sessions'[k].state # "none" => sessions'[k].path \in Path,
         CommittedUploadHolds'
  PROVE  CatalogInv'
<1> USE DEF CatalogInv
<1>1. /\ versions' \in [VersionId -> VersionRow]
      /\ chunkRows' \subseteq Chunk
      /\ RefCountsExact' /\ refCount' \in [Chunk -> Nat]
      /\ PresentVersions' = PresentVersions \cup {v}
      /\ v \notin PresentVersions
      /\ \A x \in VersionId \ {v} : versions'[x] = versions[x]
      /\ versions'[v] = [status |-> "present", file |-> f, chunks |-> content]
  BY AddVersionRows
<1>2. TypeOK'
  BY <1>1 DEF TypeOK
<1>3. RowsFilled'
  BY <1>1 DEF RowsFilled, PresentVersions
<1>4. UniqueLivePath'
  BY DEF UniqueLivePath
<1>5. HeadsOwned'
  <2>1. ASSUME NEW g \in FileId, files'[g].status \in {"live", "trash"}
        PROVE  files'[g].current \in VersionsOf(g)'
    <3>1. CASE g = f
      BY <1>1, <3>1 DEF VersionsOf
    <3>2. CASE g # f
      <4>1. files'[g] = files[g] /\ files[g].current \in VersionsOf(g)
        BY <2>1, <3>2 DEF HeadsOwned
      <4>2. files[g].current \in PresentVersions \ {v}
        BY <1>1, <4>1 DEF VersionsOf, PresentVersions
      <4>3. QED
        BY <1>1, <4>1, <4>2 DEF VersionsOf
    <3>3. QED
      BY <3>1, <3>2
  <2>2. ASSUME NEW x \in PresentVersions'
        PROVE  files'[versions'[x].file].status \in {"live", "trash"}
    <3>1. CASE x = v
      BY <1>1, <3>1
    <3>2. CASE x # v
      <4>1. x \in PresentVersions /\ versions'[x] = versions[x] /\ versions[x].file \in FileId
        BY <1>1, <2>2, <3>2 DEF RowsFilled, PresentVersions
      <4>2. files[versions[x].file].status \in {"live", "trash"}
        BY <4>1 DEF HeadsOwned
      <4>3. QED
        BY <4>1, <4>2
    <3>3. QED
      BY <3>1, <3>2
  <2>3. QED
    BY <2>1, <2>2 DEF HeadsOwned
<1>6. TreeClosed'
  BY DEF TreeClosed
<1>7. QED
  BY <1>1, <1>2, <1>3, <1>4, <1>5, <1>6

\* Publishing at a path reuses its live file or takes a new one.
LEMMA PublishInv ==
  ASSUME CatalogInv, NEW p \in Path, NEW content \in Content, NEW v \in VersionId,
         Publish(p, content, v), UNCHANGED clock,
         sessions' \in [Key -> SessionRow],
         \A k \in Key : sessions'[k].state # "none" => sessions'[k].path \in Path,
         CommittedUploadHolds'
  PROVE  CatalogInv'
<1> USE DEF CatalogInv
<1>1. PICK f \in FileId :
        /\ IF LiveAt(p) # {} THEN f \in LiveAt(p) ELSE files[f].status = "free"
        /\ AddVersion(f, v, content)
        /\ files' = [files EXCEPT ![f] =
                       [status |-> "live", path |-> p, current |-> v, deletedAt |-> 0]]
        /\ dirs' = IF LiveAt(p) = {} THEN dirs \cup Above[p] ELSE dirs
  BY DEF Publish
<1>2. /\ files'[f].status = "live" /\ files'[f].path = p /\ files'[f].current = v
      /\ \A g \in FileId \ {f} : files'[g] = files[g]
  BY <1>1 DEF TypeOK
<1>3. files' \in [FileId -> FileRow]
  BY <1>1, CatalogAssumption DEF TypeOK, FileRow, CatalogAssumption
<1>4. \A g \in FileId \ {f} : ~(files[g].status = "live" /\ files[g].path = p)
  BY <1>1 DEF LiveAt, FilesAt, UniqueLivePath
<1>5. dirs' \subseteq Dir /\ dirs \subseteq dirs' /\ Above[p] \subseteq dirs'
  BY <1>1, AboveClosed DEF TypeOK, TreeClosed, LiveAt, FilesAt
<1>6. \A d \in dirs' : Above[d] \subseteq dirs'
  BY <1>1, AboveClosed DEF TreeClosed
<1>7. QED
  BY <1>1, <1>2, <1>3, <1>4, <1>5, <1>6, NewHeadInv

\* An import publishes and leaves the sessions alone.
LEMMA ImportFileInv ==
  ASSUME CatalogInv, NEW p \in Path, NEW content \in Content, ImportFile(p, content)
  PROVE  CatalogInv'
<1>1. PICK v \in VersionId : Publish(p, content, v)
  BY DEF ImportFile
<1>2. sessions' \in [Key -> SessionRow]
      /\ \A k \in Key : sessions'[k].state # "none" => sessions'[k].path \in Path
  BY DEF ImportFile, CatalogInv, TypeOK, RowsFilled
<1>3. \A x \in PresentVersions : x \in PresentVersions' /\ versions'[x] = versions[x]
  BY <1>1, AddVersionRows DEF Publish, PresentVersions
<1>4. CommittedUploadHolds'
  BY <1>3 DEF ImportFile, CatalogInv, CommittedUploadHolds, Uploaded
<1>5. QED
  BY <1>1, <1>2, <1>4, PublishInv DEF ImportFile

\* Committed sessions keep their versions when versions are only added.
LEMMA CommittedKept ==
  ASSUME CatalogInv, NEW f \in FileId, NEW v \in VersionId, NEW content \in Content,
         AddVersion(f, v, content), UNCHANGED sessions
  PROVE  CommittedUploadHolds'
<1>1. \A x \in PresentVersions : x \in PresentVersions' /\ versions'[x] = versions[x]
  BY AddVersionRows DEF PresentVersions
<1>2. QED
  BY <1>1 DEF CatalogInv, CommittedUploadHolds, Uploaded

\* Making an old version the head adds a version and touches no directory.
LEMMA RestoreVersionInv ==
  ASSUME CatalogInv, NEW p \in Path, NEW old \in VersionId, RestoreVersion(p, old)
  PROVE  CatalogInv'
<1> USE DEF CatalogInv, RestoreVersion
<1>1. PICK f \in LiveAt(p), v \in VersionId :
        /\ AddVersion(f, v, versions[old].chunks)
        /\ files' = [files EXCEPT ![f].current = v]
  OBVIOUS
<1>2. f \in FileId /\ files[f].status = "live" /\ files[f].path = p
  BY DEF LiveAt, FilesAt
<1>3. versions[old].chunks \in Content
  BY DEF TypeOK, VersionRow
<1>4. files' \in [FileId -> FileRow]
  <2>1. [files[f] EXCEPT !.current = v] \in FileRow
    BY <1>2 DEF TypeOK, FileRow
  <2>2. files' = [files EXCEPT ![f] = [files[f] EXCEPT !.current = v]]
    BY <1>1
  <2>3. QED
    BY <2>1, <2>2 DEF TypeOK
<1>5. /\ files'[f].status = "live" /\ files'[f].path = p /\ files'[f].current = v
      /\ \A g \in FileId \ {f} : files'[g] = files[g]
  BY <1>1, <1>2 DEF TypeOK, FileRow
<1>6. \A g \in FileId \ {f} : ~(files[g].status = "live" /\ files[g].path = p)
  BY <1>2 DEF UniqueLivePath
<1>7. /\ dirs' \subseteq Dir /\ dirs \subseteq dirs' /\ Above[p] \subseteq dirs'
      /\ \A d \in dirs' : Above[d] \subseteq dirs'
  BY <1>2 DEF TypeOK, TreeClosed
<1>8. /\ sessions' \in [Key -> SessionRow]
      /\ \A k \in Key : sessions'[k].state # "none" => sessions'[k].path \in Path
  BY DEF TypeOK, RowsFilled
<1>9. CommittedUploadHolds'
  BY <1>1, <1>2, <1>3, CommittedKept
<1>10. QED
  BY <1>1, <1>2, <1>3, <1>4, <1>5, <1>6, <1>7, <1>8, <1>9, NewHeadInv

\* What a complete session has uploaded is a content.
LEMMA UploadedContent ==
  ASSUME CatalogInv, NEW k \in Key, IsComplete(k)
  PROVE  Uploaded(k) \in Content
<1>1. sessions[k] \in SessionRow
  BY DEF CatalogInv, TypeOK
<1>2. sessions[k].size \in 0..MaxChunks /\ sessions[k].rows \in [1..MaxChunks -> Chunk \cup {NoChunk}]
  BY <1>1 DEF SessionRow
<1>3. \A i \in 1..sessions[k].size : sessions[k].rows[i] \in Chunk
  BY <1>2, CatalogAssumption DEF IsComplete, CatalogAssumption
<1>4. Uploaded(k) \in [1..sessions[k].size -> Chunk]
  BY <1>3 DEF Uploaded
<1>5. QED
  BY <1>2, <1>4 DEF Content

\* A commit answers with a version holding what was uploaded, whether it found
\* it as the head already or published it.
LEMMA CommitUploadInv ==
  ASSUME CatalogInv, NEW k \in Key, CommitUpload(k)
  PROVE  CatalogInv'
<1> DEFINE p == sessions[k].path
<1> USE DEF CatalogInv
<1>1. /\ sessions[k] \in SessionRow /\ p \in Path
      /\ sessions[k].state = "open" /\ IsComplete(k)
  BY DEF CommitUpload, Accepts, TypeOK, RowsFilled
<1>2. Uploaded(k) \in Content
  BY <1>1, UploadedContent
<1>3. ASSUME NEW v \in VersionId, MarkCommitted(k, v)
      PROVE  /\ sessions' \in [Key -> SessionRow]
             /\ sessions'[k].state = "committed" /\ sessions'[k].version = v
             /\ Uploaded(k)' = Uploaded(k) /\ sessions'[k].path = p
             /\ \A j \in Key \ {k} : sessions'[j] = sessions[j]
  <2>1. sessions' = [sessions EXCEPT ![k] = [@ EXCEPT !.state = "committed", !.version = v]]
    BY <1>3 DEF MarkCommitted
  <2>2. [sessions[k] EXCEPT !.state = "committed", !.version = v] \in SessionRow
    BY <1>1 DEF SessionRow
  <2>3. sessions' \in [Key -> SessionRow]
    BY <2>1, <2>2 DEF TypeOK
  <2>4. sessions'[k] = [sessions[k] EXCEPT !.state = "committed", !.version = v]
    BY <2>1 DEF TypeOK
  <2>5. /\ sessions'[k].state = "committed" /\ sessions'[k].version = v
        /\ sessions'[k].path = p /\ sessions'[k].size = sessions[k].size
        /\ sessions'[k].rows = sessions[k].rows
    BY <1>1, <2>4 DEF SessionRow
  <2>6. \A j \in Key \ {k} : sessions'[j] = sessions[j]
    BY <2>1 DEF TypeOK
  <2>7. Uploaded(k)' = Uploaded(k)
    BY <2>5 DEF Uploaded
  <2>8. QED
    BY <2>3, <2>5, <2>6, <2>7
<1>4. ASSUME NEW f \in LiveAt(p), HeadIs(p, Uploaded(k)), MarkCommitted(k, files[f].current),
             UNCHANGED <<files, versions, chunkRows, refCount, dirs, clock>>
      PROVE  CatalogInv'
  <2>1. f \in FileId /\ files[f].current \in VersionsOf(f)
    BY DEF LiveAt, FilesAt, HeadsOwned
  <2>2. files[f].current \in PresentVersions
    BY <2>1 DEF VersionsOf, PresentVersions
  <2>3. versions[files[f].current].chunks = Uploaded(k)
    BY <1>4 DEF HeadIs, LiveAt, FilesAt, UniqueLivePath
  <2>4. /\ sessions' \in [Key -> SessionRow]
        /\ sessions'[k].state = "committed" /\ sessions'[k].version = files[f].current
        /\ Uploaded(k)' = Uploaded(k) /\ sessions'[k].path = p
        /\ \A j \in Key \ {k} : sessions'[j] = sessions[j]
    BY <1>3, <1>4, <2>2 DEF PresentVersions
  <2>5. TypeOK'
    BY <1>4, <2>4 DEF TypeOK
  <2>6. RowsFilled'
    BY <1>1, <1>4, <2>4 DEF RowsFilled, PresentVersions
  <2>7. RefCountsExact'
    BY <1>4, SameCounts
  <2>8. UniqueLivePath' /\ HeadsOwned' /\ TreeClosed'
    BY <1>4 DEF UniqueLivePath, HeadsOwned, TreeClosed, VersionsOf, PresentVersions
  <2>9. CommittedUploadHolds'
    <3>1. PresentVersions' = PresentVersions /\ versions' = versions
      BY <1>4 DEF PresentVersions
    <3>2. \A j \in Key \ {k} : Uploaded(j)' = Uploaded(j)
      BY <2>4 DEF Uploaded
    <3>3. QED
      BY <2>2, <2>3, <2>4, <3>1, <3>2 DEF CommittedUploadHolds
  <2>10. QED
    BY <2>5, <2>6, <2>7, <2>8, <2>9
<1>5. ASSUME NEW v \in VersionId, Publish(p, Uploaded(k), v), MarkCommitted(k, v), UNCHANGED clock
      PROVE  CatalogInv'
  <2>1. PICK f \in FileId : AddVersion(f, v, Uploaded(k))
    BY <1>5 DEF Publish
  <2>2. /\ PresentVersions' = PresentVersions \cup {v}
        /\ \A x \in PresentVersions : versions'[x] = versions[x]
        /\ versions'[v].chunks = Uploaded(k)
    <3>1. /\ PresentVersions' = PresentVersions \cup {v} /\ v \notin PresentVersions
          /\ \A x \in VersionId \ {v} : versions'[x] = versions[x]
          /\ versions'[v] = [status |-> "present", file |-> f, chunks |-> Uploaded(k)]
      BY <1>2, <2>1, AddVersionRows
    <3>2. PresentVersions \subseteq VersionId
      BY DEF PresentVersions
    <3>3. QED
      BY <3>1, <3>2
  <2>3. /\ sessions' \in [Key -> SessionRow]
        /\ sessions'[k].state = "committed" /\ sessions'[k].version = v
        /\ Uploaded(k)' = Uploaded(k) /\ sessions'[k].path = p
        /\ \A j \in Key \ {k} : sessions'[j] = sessions[j]
    BY <1>3, <1>5
  <2>4. CommittedUploadHolds'
    <3>1. \A j \in Key \ {k} : Uploaded(j)' = Uploaded(j)
      BY <2>3 DEF Uploaded
    <3>2. QED
      BY <2>2, <2>3, <3>1 DEF CommittedUploadHolds
  <2>5. \A j \in Key : sessions'[j].state # "none" => sessions'[j].path \in Path
    BY <1>1, <2>3 DEF RowsFilled
  <2>6. QED
    BY <1>1, <1>2, <1>5, <2>3, <2>4, <2>5, PublishInv
<1>6. QED
  BY <1>4, <1>5 DEF CommitUpload

\* A purge takes a file out of the trash with all its versions and every
\* session that committed one of them.
LEMMA PurgeFileInv ==
  ASSUME CatalogInv, NEW p \in Path, PurgeFile(p)
  PROVE  CatalogInv'
<1> USE DEF CatalogInv
<1>1. PICK f \in LatestTrashAt(p) :
        /\ files' = [files EXCEPT ![f] = NoFileRow("purged")]
        /\ versions' = [v \in VersionId |->
              IF v \in VersionsOf(f) THEN NoVersionRow("purged") ELSE versions[v]]
        /\ sessions' = [k \in Key |->
              IF sessions[k].version \in VersionsOf(f) THEN NoSession ELSE sessions[k]]
  BY DEF PurgeFile
<1>2. f \in FileId /\ files[f].status = "trash"
  BY DEF LatestTrashAt, FilesAt
<1>3. UNCHANGED <<chunkRows, dirs, clock>>
  BY DEF PurgeFile
<1>4. /\ files'[f] = NoFileRow("purged")
      /\ \A g \in FileId \ {f} : files'[g] = files[g]
  BY <1>1, <1>2 DEF TypeOK
<1>5. /\ PresentVersions' = PresentVersions \ VersionsOf(f)
      /\ \A v \in PresentVersions \ VersionsOf(f) : versions'[v] = versions[v]
  BY <1>1 DEF PresentVersions, VersionsOf, NoVersionRow
<1>6. /\ NoSession \in SessionRow /\ NoSession.state = "none"
      /\ NoFileRow("purged") \in FileRow /\ NoVersionRow("purged") \in VersionRow
  BY EmptyContent, CatalogAssumption
     DEF CatalogAssumption, NoSession, SessionRow, NoRows, NoFileRow, FileRow, NoVersionRow, VersionRow
<1>7. \A k \in Key : sessions'[k].state # "none" =>
        sessions'[k] = sessions[k] /\ sessions[k].version \notin VersionsOf(f)
  BY <1>1, <1>6
<1>8. TypeOK'
  <2>1. files' \in [FileId -> FileRow] /\ versions' \in [VersionId -> VersionRow]
    BY <1>1, <1>6 DEF TypeOK
  <2>2. sessions' \in [Key -> SessionRow]
    BY <1>1, <1>6 DEF TypeOK
  <2>3. refCount' \in [Chunk -> Nat]
    BY PurgeCounts
  <2>4. QED
    BY <1>3, <2>1, <2>2, <2>3 DEF TypeOK
<1>9. RowsFilled'
  BY <1>4, <1>5, <1>7 DEF RowsFilled, NoFileRow
<1>10. RefCountsExact'
  BY PurgeCounts
<1>11. UniqueLivePath'
  BY <1>4 DEF UniqueLivePath, NoFileRow
<1>12. HeadsOwned'
  <2>1. ASSUME NEW g \in FileId, files'[g].status \in {"live", "trash"}
        PROVE  files'[g].current \in VersionsOf(g)'
    <3>1. g # f /\ files'[g] = files[g]
      BY <1>4, <2>1 DEF NoFileRow
    <3>2. files[g].current \in VersionsOf(g)
      BY <2>1, <3>1 DEF HeadsOwned
    <3>3. files[g].current \in PresentVersions \ VersionsOf(f)
      BY <3>1, <3>2 DEF VersionsOf, PresentVersions
    <3>4. QED
      BY <1>5, <3>1, <3>2, <3>3 DEF VersionsOf, PresentVersions
  <2>2. ASSUME NEW v \in PresentVersions'
        PROVE  files'[versions'[v].file].status \in {"live", "trash"}
    <3>1. v \in PresentVersions /\ v \notin VersionsOf(f) /\ versions'[v] = versions[v]
      BY <1>5, <2>2
    <3>2. versions[v].file \in FileId \ {f}
      BY <3>1 DEF RowsFilled, PresentVersions, VersionsOf
    <3>3. files[versions[v].file].status \in {"live", "trash"}
      BY <3>1 DEF HeadsOwned
    <3>4. QED
      BY <1>4, <3>1, <3>2, <3>3
  <2>3. QED
    BY <2>1, <2>2 DEF HeadsOwned
<1>13. CommittedUploadHolds'
  <2>1. ASSUME NEW k \in Key, sessions'[k].state = "committed"
        PROVE  /\ sessions'[k].version \in PresentVersions'
               /\ versions'[sessions'[k].version].chunks = Uploaded(k)'
    <3>1. sessions'[k] = sessions[k] /\ sessions[k].version \notin VersionsOf(f)
      BY <1>7, <2>1
    <3>2. /\ sessions[k].version \in PresentVersions
          /\ versions[sessions[k].version].chunks = Uploaded(k)
      BY <2>1, <3>1 DEF CommittedUploadHolds
    <3>3. Uploaded(k)' = Uploaded(k)
      BY <3>1 DEF Uploaded
    <3>4. QED
      BY <1>5, <3>1, <3>2, <3>3
  <2>2. QED
    BY <2>1 DEF CommittedUploadHolds
<1>14. TreeClosed'
  BY <1>3, <1>4 DEF TreeClosed, NoFileRow
<1>15. QED
  BY <1>8, <1>9, <1>10, <1>11, <1>12, <1>13, <1>14

-----------------------------------------------------------------------------
(* The specification *)

\* A new vault satisfies the invariant.
LEMMA CatalogInitInv == Init => CatalogInv
<1> SUFFICES ASSUME Init PROVE CatalogInv
  OBVIOUS
<1> USE DEF Init
<1>1. /\ NoSession \in SessionRow /\ NoSession.state = "none"
      /\ NoFileRow("free") \in FileRow /\ NoFileRow("free").status = "free"
      /\ NoVersionRow("free") \in VersionRow /\ NoVersionRow("free").status = "free"
  BY EmptyContent, CatalogAssumption
     DEF CatalogAssumption, NoSession, SessionRow, NoRows, NoFileRow, FileRow, NoVersionRow, VersionRow
<1>2. PresentVersions = {}
  BY <1>1 DEF PresentVersions
<1>3. TypeOK
  BY <1>1, CatalogAssumption DEF CatalogAssumption, TypeOK
<1>4. RowsFilled /\ UniqueLivePath /\ HeadsOwned /\ CommittedUploadHolds /\ TreeClosed
  BY <1>1, <1>2 DEF RowsFilled, UniqueLivePath, HeadsOwned, CommittedUploadHolds, TreeClosed
<1>5. RefCountsExact
  <2>1. \A c \in Chunk : UsesIn(PresentVersions, c) = {}
    BY <1>2 DEF UsesIn
  <2>2. QED
    BY <2>1, FS_EmptySet DEF RefCountsExact
<1>6. QED
  BY <1>3, <1>4, <1>5 DEF CatalogInv

\* Every transaction preserves the invariant, and so does a step that changes
\* nothing.
LEMMA CatalogNextInv == CatalogInv /\ [Next]_catalogVars => CatalogInv'
<1> SUFFICES ASSUME CatalogInv, [Next]_catalogVars PROVE CatalogInv'
  OBVIOUS
<1>1. CASE Tick
  BY <1>1, TickInv
<1>2. CASE CleanupUploads
  BY <1>2, CleanupUploadsInv
<1>3. CASE \E p \in Path, content \in Content : ImportFile(p, content)
  BY <1>3, ImportFileInv
<1>4. CASE \E p \in Path : DeleteFile(p) \/ RestoreFile(p) \/ PurgeFile(p)
  BY <1>4, DeleteFileInv, RestoreFileInv, PurgeFileInv
<1>5. CASE \E p \in Path, v \in VersionId : RestoreVersion(p, v)
  BY <1>5, RestoreVersionInv
<1>6. CASE \E p, q \in Path : MoveFile(p, q)
  BY <1>6, MoveFileInv
<1>7. CASE \E S \in SUBSET Path : \E to \in [S -> Path] : MoveFiles(S, to)
  BY <1>7, MoveFilesInv
<1>8. CASE \E d \in Dir : CreateDirectory(d)
  BY <1>8, CreateDirectoryInv
<1>9. CASE \E C \in SUBSET Chunk : DropChunkRows(C)
  BY <1>9, DropChunkRowsInv
<1>10. CASE \E k \in Key, p \in Path, n \in 0..MaxChunks : CreateUpload(k, p, n)
  BY <1>10, CreateUploadInv
<1>11. CASE \E k \in Key : DeadlinePasses(k) \/ ExpireOverdue(k) \/ CommitUpload(k) \/ AbortUpload(k)
  BY <1>11, CloseSessionInv, CommitUploadInv
<1>12. CASE \E k \in Key, i \in 1..MaxChunks, c \in Chunk : UploadChunk(k, i, c)
  BY <1>12, UploadChunkInv
<1>13. CASE UNCHANGED catalogVars
  <2> USE <1>13 DEF catalogVars, CatalogInv
  <2>1. RefCountsExact'
    BY SameCounts
  <2>2. TypeOK' /\ RowsFilled' /\ UniqueLivePath'
    BY DEF TypeOK, RowsFilled, UniqueLivePath, PresentVersions
  <2>3. HeadsOwned' /\ TreeClosed' /\ CommittedUploadHolds'
    BY DEF HeadsOwned, TreeClosed, CommittedUploadHolds, VersionsOf, PresentVersions, Uploaded
  <2>4. QED
    BY <2>1, <2>2, <2>3
<1>14. QED
  BY <1>1, <1>2, <1>3, <1>4, <1>5, <1>6, <1>7, <1>8, <1>9, <1>10, <1>11, <1>12, <1>13 DEF Next

-----------------------------------------------------------------------------
(* The life of a version *)

\* A version is published once and gone only by purging its file from the trash.
VersionStep(v) ==
  \/ versions'[v] = versions[v]
  \/ versions[v].status = "free" /\ versions'[v].status = "present"
  \/ /\ versions[v].status = "present" /\ versions'[v].status = "purged"
     /\ files[versions[v].file].status = "trash"
     /\ files'[versions[v].file].status = "purged"

\* Publishing a version leaves all others alone.
LEMMA AddVersionStep ==
  ASSUME CatalogInv, NEW f \in FileId, NEW v \in VersionId, NEW content,
         AddVersion(f, v, content), NEW x \in VersionId
  PROVE  VersionStep(x)
<1>1. versions \in [VersionId -> VersionRow]
  BY DEF CatalogInv, TypeOK
<1>2. CASE x = v
  <2>1. versions'[v].status = "present"
    BY <1>1 DEF AddVersion
  <2>2. QED
    BY <1>2, <2>1 DEF AddVersion, VersionStep
<1>3. CASE x # v
  BY <1>1, <1>3 DEF AddVersion, VersionStep
<1>4. QED
  BY <1>2, <1>3

\* A purge takes the versions of one file that is in the trash.
LEMMA PurgeFileStep ==
  ASSUME CatalogInv, NEW p \in Path, PurgeFile(p), NEW x \in VersionId
  PROVE  VersionStep(x)
<1>1. files \in [FileId -> FileRow]
  BY DEF CatalogInv, TypeOK
<1>2. PICK f \in LatestTrashAt(p) :
        /\ files' = [files EXCEPT ![f] = NoFileRow("purged")]
        /\ versions' = [v \in VersionId |->
                          IF v \in VersionsOf(f) THEN NoVersionRow("purged") ELSE versions[v]]
  BY DEF PurgeFile
<1>3. f \in FileId /\ files[f].status = "trash"
  BY DEF LatestTrashAt, FilesAt
<1>4. files'[f].status = "purged"
  BY <1>1, <1>2, <1>3 DEF NoFileRow
<1>5. CASE x \in VersionsOf(f)
  <2>1. versions[x].status = "present" /\ versions[x].file = f
    BY <1>5 DEF VersionsOf
  <2>2. versions'[x] = NoVersionRow("purged")
    BY <1>2, <1>5
  <2>3. QED
    BY <1>3, <1>4, <2>1, <2>2 DEF VersionStep, NoVersionRow
<1>6. CASE x \notin VersionsOf(f)
  BY <1>2, <1>6 DEF VersionStep
<1>7. QED
  BY <1>5, <1>6

\* No other transaction touches a version.
LEMMA VersionSteps ==
  ASSUME CatalogInv, [Next]_catalogVars, NEW x \in VersionId
  PROVE  VersionStep(x)
<1>1. CASE UNCHANGED versions
  BY <1>1 DEF VersionStep
<1>2. CASE \E p \in Path, content \in Content, v \in VersionId : Publish(p, content, v)
  BY <1>2, AddVersionStep DEF Publish
<1>3. CASE \E p \in Path, v \in VersionId : RestoreVersion(p, v)
  <2>1. PICK p \in Path, old \in VersionId : RestoreVersion(p, old)
    BY <1>3
  <2>2. PICK f \in LiveAt(p), v \in VersionId : AddVersion(f, v, versions[old].chunks)
    BY <2>1 DEF RestoreVersion
  <2>3. f \in FileId
    BY DEF LiveAt, FilesAt
  <2>4. QED
    BY <2>2, <2>3, AddVersionStep
<1>4. CASE \E p \in Path : PurgeFile(p)
  BY <1>4, PurgeFileStep
<1>5. \A k \in Key : CommitUpload(k) =>
        \/ UNCHANGED versions
        \/ \E p \in Path, content \in Content, v \in VersionId : Publish(p, content, v)
  <2> SUFFICES ASSUME NEW k \in Key, CommitUpload(k), ~UNCHANGED versions
               PROVE  \E p \in Path, content \in Content, v \in VersionId : Publish(p, content, v)
    OBVIOUS
  <2>1. sessions[k].path \in Path
    BY DEF CatalogInv, RowsFilled, CommitUpload, Accepts
  <2>2. \E v \in VersionId : Publish(sessions[k].path, Uploaded(k), v)
    BY DEF CommitUpload
  <2>3. Uploaded(k) \in Content
    BY UploadedContent DEF CommitUpload
  <2>4. QED
    BY <2>1, <2>2, <2>3
<1>6. (\E p \in Path, content \in Content : ImportFile(p, content)) =>
        \E p \in Path, content \in Content, v \in VersionId : Publish(p, content, v)
  BY DEF ImportFile
<1>7. CASE \E k \in Key : CommitUpload(k)
  BY <1>1, <1>2, <1>5, <1>7
<1>8. CASE \E p \in Path, content \in Content : ImportFile(p, content)
  BY <1>2, <1>6, <1>8
<1>9. ASSUME ~UNCHANGED versions
      PROVE  \/ \E p \in Path, content \in Content : ImportFile(p, content)
             \/ \E p \in Path, v \in VersionId : RestoreVersion(p, v)
             \/ \E p \in Path : PurgeFile(p)
             \/ \E k \in Key : CommitUpload(k)
  BY <1>9
     DEF Next, catalogVars, Tick, CleanupUploads, DeleteFile, RestoreFile, MoveFile, MoveFiles,
         Relocate, CreateDirectory, DropChunkRows, CreateUpload, DeadlinePasses, ExpireOverdue,
         AbortUpload, UploadChunk, SetSession
<1>10. QED
  BY <1>1, <1>3, <1>4, <1>7, <1>8, <1>9

-----------------------------------------------------------------------------
(* Theorems *)

\* The inductive invariant holds of every state of the catalog.
THEOREM CatalogSafe == Spec => []CatalogInv
<1>1. QED
  BY CatalogInitInv, CatalogNextInv, PTL DEF Spec

\* Rows always have the columns the schema declares, no ref_count goes below
\* zero.
THEOREM CatalogTyped == Spec => []TypeOK
<1>1. CatalogInv => TypeOK
  BY DEF CatalogInv
<1>2. QED
  BY <1>1, CatalogSafe, PTL

\* ref_count always equals the number of version_chunks rows of the chunk,
\* for any number of files, versions, chunks and upload sessions.
THEOREM CatalogCounts == Spec => []RefCountsExact
<1>1. CatalogInv => RefCountsExact
  BY DEF CatalogInv
<1>2. QED
  BY <1>1, CatalogSafe, PTL

\* No path has two live files after any transaction, for any batch of moves.
THEOREM CatalogUniquePaths == Spec => []UniqueLivePath
<1>1. CatalogInv => UniqueLivePath
  BY DEF CatalogInv
<1>2. QED
  BY <1>1, CatalogSafe, PTL

\* current_version_id never dangles and no version outlives its file.
THEOREM CatalogHeads == Spec => []HeadsOwned
<1>1. CatalogInv => HeadsOwned
  BY DEF CatalogInv
<1>2. QED
  BY <1>1, CatalogSafe, PTL

\* committed_version_id never dangles: a retried commit is always answered
\* with a version that holds what the session uploaded.
THEOREM CatalogCommits == Spec => []CommittedUploadHolds
<1>1. CatalogInv => CommittedUploadHolds
  BY DEF CatalogInv
<1>2. QED
  BY <1>1, CatalogSafe, PTL

\* Every file that can be seen or restored has all its directories.
THEOREM CatalogTree == Spec => []TreeClosed
<1>1. CatalogInv => TreeClosed
  BY DEF CatalogInv
<1>2. QED
  BY <1>1, CatalogSafe, PTL

\* A version never changes owner or content and is gone only by purging its
\* file from the trash, whatever imports, uploads, restores and moves do.
THEOREM HistoryLasts == Spec => HistoryKept
<1> DEFINE Kept == \A v \in PresentVersions :
                     \/ versions'[v] = versions[v]
                     \/ /\ versions'[v].status = "purged"
                        /\ files[versions[v].file].status = "trash"
                        /\ files'[versions[v].file].status = "purged"
<1>1. CatalogInv /\ [Next]_catalogVars => [Kept]_catalogVars
  <2> SUFFICES ASSUME CatalogInv, [Next]_catalogVars, NEW v \in PresentVersions
               PROVE  \/ versions'[v] = versions[v]
                      \/ /\ versions'[v].status = "purged"
                         /\ files[versions[v].file].status = "trash"
                         /\ files'[versions[v].file].status = "purged"
    OBVIOUS
  <2>1. v \in VersionId /\ versions[v].status = "present"
    BY DEF PresentVersions
  <2>2. VersionStep(v)
    BY <2>1, VersionSteps
  <2>3. QED
    BY <2>1, <2>2 DEF VersionStep
<1>2. QED
  BY <1>1, CatalogSafe, PTL DEF Spec, HistoryKept

-----------------------------------------------------------------------------
(* Retries *)

\* A purge drops no session whose version a live file shows.
LEMMA PurgeSparesCurrent ==
  ASSUME CatalogInv, NEW p \in Path, PurgeFile(p), NEW k \in Key, StillCurrent(k)
  PROVE  sessions'[k] = sessions[k]
<1>1. PICK f \in LatestTrashAt(p) :
        sessions' = [x \in Key |->
                       IF sessions[x].version \in VersionsOf(f) THEN NoSession ELSE sessions[x]]
  BY DEF PurgeFile
<1>2. files[f].status = "trash"
  BY DEF LatestTrashAt, FilesAt
<1>3. PICK g \in FileId : files[g].status = "live" /\ files[g].current = sessions[k].version
  BY DEF StillCurrent, LiveAt, FilesAt
<1>4. sessions[k].version \in VersionsOf(g)
  BY <1>3 DEF CatalogInv, HeadsOwned
<1>5. sessions[k].version \notin VersionsOf(f)
  BY <1>2, <1>3, <1>4 DEF VersionsOf
<1>6. QED
  BY <1>1, <1>5

\* Retries, sweeps and purges leave a session alone whose commit still counts.
THEOREM CommitsStay == Spec => CommitIdempotent
<1> DEFINE Stays == \A k \in Key :
                      sessions[k].state = "committed" /\ StillCurrent(k) =>
                        sessions'[k] = sessions[k]
<1>1. CatalogInv /\ [Next]_catalogVars => [Stays]_catalogVars
  <2> SUFFICES ASSUME CatalogInv, Next, NEW k \in Key,
                      sessions[k].state = "committed", StillCurrent(k)
               PROVE  sessions'[k] = sessions[k]
    OBVIOUS
  <2>1. sessions \in [Key -> SessionRow]
    BY DEF CatalogInv, TypeOK
  <2>2. CASE UNCHANGED sessions
    BY <2>2
  <2>3. CASE CleanupUploads
    BY <2>3 DEF CleanupUploads
  <2>4. CASE \E p \in Path : PurgeFile(p)
    BY <2>4, PurgeSparesCurrent
  <2>5. ASSUME NEW x \in Key, NEW row, SetSession(x, row), x # k
        PROVE  sessions'[k] = sessions[k]
    BY <2>5 DEF SetSession
  <2>6. CASE \E x \in Key, p \in Path, n \in 0..MaxChunks : CreateUpload(x, p, n)
    BY <2>5, <2>6 DEF CreateUpload
  <2>7. CASE \E x \in Key : DeadlinePasses(x) \/ ExpireOverdue(x) \/ AbortUpload(x)
    BY <2>5, <2>7 DEF DeadlinePasses, ExpireOverdue, AbortUpload
  <2>8. CASE \E x \in Key, i \in 1..MaxChunks, c \in Chunk : UploadChunk(x, i, c)
    BY <2>5, <2>8 DEF UploadChunk, Accepts
  <2>9. CASE \E x \in Key : CommitUpload(x)
    <3>1. PICK x \in Key : CommitUpload(x)
      BY <2>9
    <3>2. x # k
      BY <3>1 DEF CommitUpload, Accepts
    <3>3. \E v : MarkCommitted(x, v)
      BY <3>1 DEF CommitUpload
    <3>4. QED
      BY <2>1, <3>2, <3>3 DEF MarkCommitted
  <2>10. QED
    BY <2>2, <2>3, <2>4, <2>6, <2>7, <2>8, <2>9
       DEF Next, Tick, ImportFile, DeleteFile, RestoreFile, RestoreVersion, MoveFile, MoveFiles,
           Relocate, CreateDirectory, DropChunkRows
<1>2. QED
  BY <1>1, CatalogSafe, PTL DEF Spec, CommitIdempotent
=============================================================================
