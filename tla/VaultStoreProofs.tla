-------------------------- MODULE VaultStoreProofs --------------------------
(***************************************************************************)
(* The catalog implements VersionedStore: seen as documents at paths, each *)
(* transaction is one step a user asked for or changes nothing.  Proved    *)
(* for every set of ids, chunks, keys and paths and every bound.           *)
(***************************************************************************)
EXTENDS VaultCatalogProofs

-----------------------------------------------------------------------------
(* Reading the views *)

\* A path shows its one live file.
TreeRead ==
  \A p \in Path :
    /\ LiveAt(p) = {} => TreeView[p] = NoFile
    /\ \A f \in LiveAt(p) : TreeView[p] = DocumentOf(f)

LEMMA TreeReadNow == UniqueLivePath => TreeRead
<1> SUFFICES ASSUME UniqueLivePath, NEW p \in Path
             PROVE  /\ LiveAt(p) = {} => TreeView[p] = NoFile
                    /\ \A f \in LiveAt(p) : TreeView[p] = DocumentOf(f)
  BY DEF TreeRead
<1>1. TreeView[p] = IF LiveAt(p) = {} THEN NoFile
                    ELSE DocumentOf(CHOOSE f \in LiveAt(p) : TRUE)
  BY DEF TreeView
<1>2. ASSUME NEW f \in LiveAt(p) PROVE (CHOOSE g \in LiveAt(p) : TRUE) = f
  <2>1. \A g \in LiveAt(p) : g = f
    BY DEF UniqueLivePath, LiveAt, FilesAt
  <2>2. QED
    BY <2>1
<1>3. QED
  BY <1>1, <1>2

LEMMA TreeReadNext == UniqueLivePath' => TreeRead'
BY TreeReadNow, PTL

LEMMA TreeFunction ==
  /\ TreeView = [p \in Path |-> TreeView[p]]
  /\ TreeView' = [p \in Path |-> TreeView'[p]]
BY DEF TreeView

\* A file that can be seen or restored is a document with its head in its past.
LEMMA DocumentTyped ==
  ASSUME CatalogInv, NEW f \in FileId, files[f].status \in {"live", "trash"}
  PROVE  /\ DocumentOf(f) \in Document
         /\ DocumentOf(f) # NoFile
<1>1. files[f].current \in VersionsOf(f)
  BY DEF CatalogInv, HeadsOwned
<1>2. \A v \in VersionsOf(f) : versions[v].chunks \in Content
  BY DEF CatalogInv, TypeOK, VersionRow, VersionsOf
<1>3. DocumentOf(f) \in Document
  BY <1>1, <1>2 DEF DocumentOf, Document
<1>4. QED
  BY <1>3, DocumentAssumption

SameDocument(f) == DocumentOf(f)' = DocumentOf(f)

\* A document changes only with its file's head and versions.
LEMMA DocumentKept ==
  ASSUME NEW f, files'[f].current = files[f].current, files[f].current \in VersionsOf(f),
         VersionsOf(f)' = VersionsOf(f), \A v \in VersionsOf(f) : versions'[v] = versions[v]
  PROVE  SameDocument(f)
<1>1. {versions'[v].chunks : v \in VersionsOf(f)'} = {versions[v].chunks : v \in VersionsOf(f)}
  OBVIOUS
<1>2. versions'[files'[f].current].chunks = versions[files[f].current].chunks
  OBVIOUS
<1>3. QED
  BY <1>1, <1>2 DEF SameDocument, DocumentOf

LEMMA TreeStays ==
  ASSUME UniqueLivePath, UniqueLivePath', NEW p \in Path, LiveAt(p)' = LiveAt(p),
         \A f \in LiveAt(p) : SameDocument(f)
  PROVE  TreeView'[p] = TreeView[p]
<1>1. /\ LiveAt(p) = {} => TreeView[p] = NoFile
      /\ \A f \in LiveAt(p) : TreeView[p] = DocumentOf(f)
  BY TreeReadNow DEF TreeRead
<1>2. /\ LiveAt(p)' = {} => TreeView'[p] = NoFile
      /\ \A f \in LiveAt(p)' : TreeView'[p] = DocumentOf(f)'
  BY TreeReadNext DEF TreeRead
<1>3. QED
  BY <1>1, <1>2 DEF SameDocument

InTrash == {f \in FileId : files[f].status = "trash"}

LEMMA TrashStays ==
  ASSUME InTrash' = InTrash,
         \A f \in InTrash : files'[f].path = files[f].path /\ SameDocument(f)
  PROVE  TrashView' = TrashView
<1>1. TrashView = {<<files[f].path, DocumentOf(f)>> : f \in InTrash}
  BY DEF TrashView, InTrash
<1>2. TrashView' = {<<files'[f].path, DocumentOf(f)'>> : f \in InTrash'}
  BY DEF TrashView, InTrash
<1>3. QED
  BY <1>1, <1>2 DEF SameDocument

-----------------------------------------------------------------------------
(* Writing *)

\* A new version is one more content of its file and nothing to the others.
LEMMA AddedVersion ==
  ASSUME CatalogInv, NEW f \in FileId, NEW v \in VersionId, NEW content \in Content,
         AddVersion(f, v, content)
  PROVE  /\ files'[f].current = v =>
              DocumentOf(f)' = [head |-> content,
                                past |-> {versions[x].chunks : x \in VersionsOf(f)} \cup {content}]
         /\ \A g \in FileId \ {f} :
              files[g].status \in {"live", "trash"} /\ files'[g].current = files[g].current =>
                SameDocument(g)
<1>1. /\ v \notin PresentVersions
      /\ \A x \in VersionId \ {v} : versions'[x] = versions[x]
      /\ versions'[v] = [status |-> "present", file |-> f, chunks |-> content]
  BY AddVersionRows
<1>2. /\ VersionsOf(f)' = VersionsOf(f) \cup {v}
      /\ \A g \in FileId : v \notin VersionsOf(g)
      /\ \A g \in FileId \ {f} : VersionsOf(g)' = VersionsOf(g)
  BY <1>1 DEF VersionsOf, PresentVersions
<1>3. \A g \in FileId : \A x \in VersionsOf(g) : versions'[x] = versions[x]
  BY <1>1, <1>2 DEF VersionsOf
<1>4. ASSUME files'[f].current = v
      PROVE  DocumentOf(f)' = [head |-> content,
                               past |-> {versions[x].chunks : x \in VersionsOf(f)} \cup {content}]
  <2>1. {versions'[x].chunks : x \in VersionsOf(f)'}
          = {versions[x].chunks : x \in VersionsOf(f)} \cup {content}
    BY <1>1, <1>2, <1>3
  <2>2. QED
    BY <1>1, <1>4, <2>1 DEF DocumentOf
<1>5. ASSUME NEW g \in FileId \ {f}, files[g].status \in {"live", "trash"},
             files'[g].current = files[g].current
      PROVE  SameDocument(g)
  BY <1>2, <1>3, <1>5, DocumentKept DEF CatalogInv, HeadsOwned
<1>6. QED
  BY <1>4, <1>5

\* import_file and commit_upload write a document.
LEMMA PublishWrites ==
  ASSUME CatalogInv, CatalogInv', NEW p \in Path, NEW content \in Content, NEW v \in VersionId,
         ~HeadIs(p, content), Publish(p, content, v)
  PROVE  Store!Write(p, content)
<1>1. PICK f \in FileId :
        /\ IF LiveAt(p) # {} THEN f \in LiveAt(p) ELSE files[f].status = "free"
        /\ AddVersion(f, v, content)
        /\ files' = [files EXCEPT ![f] =
                       [status |-> "live", path |-> p, current |-> v, deletedAt |-> 0]]
  BY DEF Publish
<1>2. /\ files'[f].status = "live" /\ files'[f].path = p /\ files'[f].current = v
      /\ \A g \in FileId \ {f} : files'[g] = files[g]
      /\ files[f].status \in {"live", "free"}
      /\ UniqueLivePath /\ UniqueLivePath'
  BY <1>1 DEF CatalogInv, TypeOK, LiveAt, FilesAt
<1>3. /\ DocumentOf(f)' = [head |-> content,
                           past |-> {versions[x].chunks : x \in VersionsOf(f)} \cup {content}]
      /\ \A g \in FileId \ {f} :
           files[g].status \in {"live", "trash"} => SameDocument(g)
  BY <1>1, <1>2, AddedVersion
<1>4. f \in LiveAt(p)' /\ TreeView'[p] = DocumentOf(f)'
  <2>1. f \in LiveAt(p)'
    BY <1>2 DEF LiveAt, FilesAt
  <2>2. QED
    BY <1>2, <2>1, TreeReadNext DEF TreeRead
<1>5. ASSUME NEW q \in Path, q # p PROVE TreeView'[q] = TreeView[q]
  <2>1. LiveAt(q)' = LiveAt(q) /\ f \notin LiveAt(q)
    BY <1>1, <1>2, <1>5 DEF LiveAt, FilesAt
  <2>2. \A g \in LiveAt(q) : SameDocument(g)
    BY <1>3, <2>1 DEF LiveAt, FilesAt
  <2>3. QED
    BY <1>2, <2>1, <2>2, TreeStays
<1>6. TrashView' = TrashView
  <2>1. InTrash' = InTrash /\ f \notin InTrash
    BY <1>2 DEF InTrash
  <2>2. \A g \in InTrash : files'[g].path = files[g].path /\ SameDocument(g)
    BY <1>2, <1>3, <2>1 DEF InTrash
  <2>3. QED
    BY <2>1, <2>2, TrashStays
<1> DEFINE past == IF TreeView[p] = NoFile THEN {content} ELSE TreeView[p].past \cup {content}
<1>7. /\ TreeView[p] # NoFile => TreeView[p].head # content
      /\ DocumentOf(f)' = [head |-> content, past |-> past]
  <2>1. CASE LiveAt(p) # {}
    <3>1. f \in LiveAt(p) /\ files[f].status = "live"
      BY <1>1, <2>1 DEF LiveAt, FilesAt
    <3>2. TreeView[p] = DocumentOf(f) /\ DocumentOf(f) # NoFile
      BY <1>2, <3>1, TreeReadNow, DocumentTyped DEF TreeRead
    <3>3. DocumentOf(f).past = {versions[x].chunks : x \in VersionsOf(f)}
          /\ DocumentOf(f).head = versions[files[f].current].chunks
      BY DEF DocumentOf
    <3>4. versions[files[f].current].chunks # content
      BY <3>1 DEF HeadIs
    <3>5. QED
      BY <1>3, <3>2, <3>3, <3>4
  <2>2. CASE LiveAt(p) = {}
    <3>1. TreeView[p] = NoFile /\ files[f].status = "free"
      BY <1>1, <1>2, <2>2, TreeReadNow DEF TreeRead
    <3>2. VersionsOf(f) = {}
      BY <3>1 DEF CatalogInv, HeadsOwned, VersionsOf, PresentVersions
    <3>3. {versions[x].chunks : x \in VersionsOf(f)} = {}
      BY <3>2
    <3>4. QED
      BY <1>3, <3>1, <3>3
  <2>3. QED
    BY <2>1, <2>2
<1>8. TreeView' = [TreeView EXCEPT ![p] = [head |-> content, past |-> past]]
  BY <1>4, <1>5, <1>7, TreeFunction
<1>9. QED
  BY <1>6, <1>7, <1>8 DEF Store!Write

\* restore_version makes an old content the head.
LEMMA RestoreVersionRollsBack ==
  ASSUME CatalogInv, CatalogInv', NEW p \in Path, NEW old \in VersionId, RestoreVersion(p, old)
  PROVE  \E content \in Content : Store!Rollback(p, content)
<1> DEFINE content == versions[old].chunks
<1>1. PICK f \in LiveAt(p), v \in VersionId :
        /\ old \in VersionsOf(f)
        /\ AddVersion(f, v, content)
        /\ files' = [files EXCEPT ![f].current = v]
  BY DEF RestoreVersion
<1>2. f \in FileId /\ files[f].status = "live" /\ files[f].path = p /\ content \in Content
  BY DEF LiveAt, FilesAt, CatalogInv, TypeOK, VersionRow
<1>3. /\ files'[f].status = "live" /\ files'[f].path = p /\ files'[f].current = v
      /\ \A g \in FileId \ {f} : files'[g] = files[g]
      /\ UniqueLivePath /\ UniqueLivePath'
  BY <1>1, <1>2 DEF CatalogInv, TypeOK, FileRow
<1>4. /\ DocumentOf(f)' = [head |-> content,
                           past |-> {versions[x].chunks : x \in VersionsOf(f)} \cup {content}]
      /\ \A g \in FileId \ {f} :
           files[g].status \in {"live", "trash"} => SameDocument(g)
  BY <1>1, <1>2, <1>3, AddedVersion
<1>5. {versions[x].chunks : x \in VersionsOf(f)} \cup {content}
        = {versions[x].chunks : x \in VersionsOf(f)}
  BY <1>1
<1>6. /\ TreeView[p] = DocumentOf(f) /\ TreeView[p] # NoFile
      /\ TreeView[p].past = {versions[x].chunks : x \in VersionsOf(f)}
  BY <1>1, <1>2, <1>3, TreeReadNow, DocumentTyped DEF TreeRead, DocumentOf
<1>7. TreeView'[p] = DocumentOf(f)'
  <2>1. f \in LiveAt(p)'
    BY <1>2, <1>3 DEF LiveAt, FilesAt
  <2>2. QED
    BY <1>3, <2>1, TreeReadNext DEF TreeRead
<1>8. ASSUME NEW q \in Path, q # p PROVE TreeView'[q] = TreeView[q]
  <2>1. LiveAt(q)' = LiveAt(q) /\ f \notin LiveAt(q)
    BY <1>2, <1>3, <1>8 DEF LiveAt, FilesAt
  <2>2. \A g \in LiveAt(q) : SameDocument(g)
    BY <1>4, <2>1 DEF LiveAt, FilesAt
  <2>3. QED
    BY <1>3, <2>1, <2>2, TreeStays
<1>9. TrashView' = TrashView
  <2>1. InTrash' = InTrash /\ f \notin InTrash
    BY <1>2, <1>3 DEF InTrash
  <2>2. \A g \in InTrash : files'[g].path = files[g].path /\ SameDocument(g)
    BY <1>3, <1>4, <2>1 DEF InTrash
  <2>3. QED
    BY <2>1, <2>2, TrashStays
<1>10. DocumentOf(f)' = [TreeView[p] EXCEPT !.head = content]
  <2>1. TreeView[p] = [head |-> TreeView[p].head, past |-> TreeView[p].past]
    BY <1>6 DEF DocumentOf
  <2>2. [TreeView[p] EXCEPT !.head = content] = [head |-> content, past |-> TreeView[p].past]
    BY <2>1
  <2>3. QED
    BY <1>4, <1>5, <1>6, <2>2
<1>11. TreeView' = [TreeView EXCEPT ![p].head = content]
  BY <1>7, <1>8, <1>10, TreeFunction
<1>12. content \in TreeView[p].past
  BY <1>1, <1>6
<1>13. QED
  BY <1>2, <1>6, <1>9, <1>11, <1>12 DEF Store!Rollback

-----------------------------------------------------------------------------
(* Moving, deleting and restoring *)

LEMMA SameVersions ==
  ASSUME versions' = versions, NEW f, files'[f].current = files[f].current
  PROVE  SameDocument(f)
BY DEF SameDocument, DocumentOf, VersionsOf

\* Files that move live keep their documents; a destination is free or vacated.
LEMMA RelocateRenames ==
  ASSUME CatalogInv, CatalogInv', NEW S \in SUBSET Path, NEW to \in [S -> Path],
         \A s, t \in S : to[s] = to[t] => s = t,
         \A s \in S : LiveAt(s) # {},
         \A s \in S : LiveAt(to[s]) # {} => to[s] \in S,
         Relocate(S, to)
  PROVE  Store!Rename(S, to)
<1>1. /\ versions' = versions
      /\ \A f \in FileId :
           files'[f] = IF files[f].status = "live" /\ files[f].path \in S
                       THEN [files[f] EXCEPT !.path = to[files[f].path]]
                       ELSE files[f]
      /\ UniqueLivePath /\ UniqueLivePath'
  BY DEF Relocate, CatalogInv
<1>2. \A f \in FileId :
        /\ files'[f].current = files[f].current /\ files'[f].status = files[f].status
        /\ files'[f].path = IF files[f].status = "live" /\ files[f].path \in S
                            THEN to[files[f].path] ELSE files[f].path
  BY <1>1 DEF CatalogInv, TypeOK, FileRow
<1>3. \A f \in FileId : SameDocument(f)
  BY <1>1, <1>2, SameVersions
<1>4. TrashView' = TrashView
  BY <1>2, <1>3, TrashStays DEF InTrash
<1>5. \A p \in Path : LiveAt(p) # {} <=> TreeView[p] # NoFile
  BY <1>1, TreeReadNow, DocumentTyped DEF TreeRead, LiveAt, FilesAt
<1> DEFINE Shown(p) == IF \E s \in S : to[s] = p
                       THEN TreeView[CHOOSE s \in S : to[s] = p]
                       ELSE IF p \in S THEN NoFile ELSE TreeView[p]
<1>6. ASSUME NEW p \in Path PROVE TreeView'[p] = Shown(p)
  <2>1. ASSUME NEW s \in S, to[s] = p PROVE TreeView'[p] = Shown(p)
    <3>1. (CHOOSE t \in S : to[t] = p) = s
      BY <2>1
    <3>2. PICK f \in LiveAt(s) : TRUE
      OBVIOUS
    <3>3. TreeView[s] = DocumentOf(f) /\ f \in FileId
      BY <1>1, <3>2, TreeReadNow DEF TreeRead, LiveAt, FilesAt
    <3>4. f \in LiveAt(p)'
      BY <1>2, <2>1, <3>2 DEF LiveAt, FilesAt
    <3>5. TreeView'[p] = DocumentOf(f)'
      BY <1>1, <3>4, TreeReadNext DEF TreeRead
    <3>6. QED
      BY <1>3, <2>1, <3>1, <3>3, <3>5 DEF SameDocument
  <2>2. CASE p \in S /\ ~\E s \in S : to[s] = p
    <3>1. LiveAt(p)' = {}
      BY <1>2, <2>2 DEF LiveAt, FilesAt
    <3>2. QED
      BY <1>1, <2>2, <3>1, TreeReadNext DEF TreeRead
  <2>3. CASE p \notin S /\ ~\E s \in S : to[s] = p
    <3>1. LiveAt(p)' = LiveAt(p) /\ \A f \in LiveAt(p) : f \in FileId
      BY <1>2, <2>3 DEF LiveAt, FilesAt
    <3>2. QED
      BY <1>1, <1>3, <2>3, <3>1, TreeStays
  <2>4. QED
    BY <2>1, <2>2, <2>3
<1>7. TreeView' = [p \in Path |-> Shown(p)]
  BY <1>6, TreeFunction
<1>8. \A s \in S : s \in Path /\ to[s] \in Path
  OBVIOUS
<1>9. /\ \A s \in S : TreeView[s] # NoFile
      /\ \A s \in S : TreeView[to[s]] = NoFile \/ to[s] \in S
  BY <1>5, <1>8
<1>10. QED
  BY <1>4, <1>7, <1>9 DEF Store!Rename

LEMMA MovesRename ==
  ASSUME CatalogInv, CatalogInv',
         \/ \E p, q \in Path : MoveFile(p, q)
         \/ \E S \in SUBSET Path : \E to \in [S -> Path] : MoveFiles(S, to)
  PROVE  \E S \in SUBSET Path : \E to \in [S -> Path] : Store!Rename(S, to)
<1>1. ASSUME NEW p \in Path, NEW q \in Path, MoveFile(p, q)
      PROVE  \E S \in SUBSET Path : \E to \in [S -> Path] : Store!Rename(S, to)
  <2> DEFINE to == [s \in {p} |-> q]
  <2>1. /\ to \in [{p} -> Path] /\ {p} \in SUBSET Path
        /\ \A s, t \in {p} : to[s] = to[t] => s = t
        /\ \A s \in {p} : LiveAt(s) # {}
        /\ \A s \in {p} : LiveAt(to[s]) # {} => to[s] \in {p}
        /\ Relocate({p}, to)
    BY <1>1 DEF MoveFile
  <2> HIDE DEF to
  <2>2. QED
    BY <2>1, RelocateRenames
<1>2. ASSUME NEW S \in SUBSET Path, NEW to \in [S -> Path], MoveFiles(S, to)
      PROVE  Store!Rename(S, to)
  BY <1>2, RelocateRenames DEF MoveFiles
<1>3. QED
  BY <1>1, <1>2

\* The file at a path is put into the trash with all it ever was.
LEMMA DeleteDeletes ==
  ASSUME CatalogInv, CatalogInv', NEW p \in Path, DeleteFile(p)
  PROVE  Store!Delete(p)
<1>1. PICK f \in LiveAt(p), t \in 0..MaxClock :
        files' = [files EXCEPT ![f].status = "trash", ![f].deletedAt = t]
  BY DEF DeleteFile
<1>2. /\ f \in FileId /\ files[f].status = "live" /\ files[f].path = p
      /\ versions' = versions /\ UniqueLivePath /\ UniqueLivePath'
  BY DEF LiveAt, FilesAt, DeleteFile, CatalogInv
<1>3. /\ files'[f].status = "trash" /\ files'[f].path = p
      /\ \A g \in FileId : files'[g].current = files[g].current
      /\ \A g \in FileId \ {f} : files'[g] = files[g]
  BY <1>1, <1>2 DEF CatalogInv, TypeOK, FileRow
<1>4. \A g \in FileId : SameDocument(g)
  BY <1>2, <1>3, SameVersions
<1>5. TreeView[p] = DocumentOf(f) /\ TreeView[p] # NoFile
  BY <1>1, <1>2, TreeReadNow, DocumentTyped DEF TreeRead
<1>6. TreeView'[p] = NoFile
  <2>1. LiveAt(p)' = {}
    BY <1>2, <1>3 DEF LiveAt, FilesAt, UniqueLivePath
  <2>2. QED
    BY <1>2, <2>1, TreeReadNext DEF TreeRead
<1>7. ASSUME NEW q \in Path, q # p PROVE TreeView'[q] = TreeView[q]
  <2>1. LiveAt(q)' = LiveAt(q) /\ \A g \in LiveAt(q) : g \in FileId
    BY <1>2, <1>3, <1>7 DEF LiveAt, FilesAt
  <2>2. QED
    BY <1>2, <1>4, <2>1, TreeStays
<1>8. TreeView' = [TreeView EXCEPT ![p] = NoFile]
  BY <1>6, <1>7, TreeFunction
<1>9. TrashView' = TrashView \cup {<<p, TreeView[p]>>}
  <2>1. InTrash' = InTrash \cup {f} /\ f \notin InTrash
    BY <1>2, <1>3 DEF InTrash
  <2>2. /\ TrashView = {<<files[g].path, DocumentOf(g)>> : g \in InTrash}
        /\ TrashView' = {<<files'[g].path, DocumentOf(g)'>> : g \in InTrash'}
    BY DEF TrashView, InTrash
  <2>3. \A g \in InTrash : files'[g].path = files[g].path /\ DocumentOf(g)' = DocumentOf(g)
    BY <1>3, <1>4, <2>1 DEF InTrash, SameDocument
  <2>4. DocumentOf(f)' = TreeView[p]
    BY <1>2, <1>4, <1>5 DEF SameDocument
  <2>5. QED
    BY <1>3, <2>1, <2>2, <2>3, <2>4
<1>10. QED
  BY <1>5, <1>8, <1>9 DEF Store!Delete

\* A file that leaves the trash takes its document along, unless the trash has
\* an equal one from the same path.
LEMMA TrashLoses ==
  ASSUME NEW f \in InTrash, InTrash' = InTrash \ {f},
         \A g \in InTrash \ {f} : files'[g].path = files[g].path /\ SameDocument(g)
  PROVE  /\ DocumentOf(f) \in Store!Trashed(files[f].path)
         /\ TrashView' \in {TrashView, TrashView \ {<<files[f].path, DocumentOf(f)>>}}
<1> DEFINE entry(g) == <<files[g].path, DocumentOf(g)>>
<1>1. TrashView = {entry(g) : g \in InTrash}
  BY DEF TrashView, InTrash
<1>2. TrashView' = {<<files'[g].path, DocumentOf(g)'>> : g \in InTrash'}
  BY DEF TrashView, InTrash
<1>3. TrashView' = {entry(g) : g \in InTrash \ {f}}
  BY <1>2 DEF SameDocument
<1>4. DocumentOf(f) \in Store!Trashed(files[f].path)
  <2>1. entry(f) \in TrashView /\ entry(f)[1] = files[f].path /\ entry(f)[2] = DocumentOf(f)
    BY <1>1
  <2> HIDE DEF entry
  <2>2. QED
    BY <2>1 DEF Store!Trashed
<1>5. CASE \E g \in InTrash \ {f} : entry(g) = entry(f)
  <2>1. TrashView' = TrashView
    BY <1>1, <1>3, <1>5
  <2>2. QED
    BY <1>4, <2>1
<1>6. CASE ~\E g \in InTrash \ {f} : entry(g) = entry(f)
  <2> HIDE DEF entry
  <2>1. TrashView' = TrashView \ {entry(f)}
    BY <1>1, <1>3, <1>6
  <2>2. QED
    BY <1>4, <2>1 DEF entry
<1>7. QED
  BY <1>5, <1>6

\* The file that was deleted last is at its path again as it was.
LEMMA RestoreRestores ==
  ASSUME CatalogInv, CatalogInv', NEW p \in Path, RestoreFile(p)
  PROVE  Store!Restore(p)
<1>1. PICK f \in LatestTrashAt(p) :
        files' = [files EXCEPT ![f].status = "live", ![f].deletedAt = 0]
  BY DEF RestoreFile
<1>2. /\ f \in FileId /\ files[f].status = "trash" /\ files[f].path = p
      /\ versions' = versions /\ UniqueLivePath /\ UniqueLivePath' /\ LiveAt(p) = {}
  BY DEF LatestTrashAt, FilesAt, RestoreFile, CatalogInv
<1>3. /\ files'[f].status = "live" /\ files'[f].path = p
      /\ \A g \in FileId : files'[g].current = files[g].current
      /\ \A g \in FileId \ {f} : files'[g] = files[g]
  BY <1>1, <1>2 DEF CatalogInv, TypeOK, FileRow
<1>4. \A g \in FileId : SameDocument(g)
  BY <1>2, <1>3, SameVersions
<1>5. TreeView[p] = NoFile
  BY <1>2, TreeReadNow DEF TreeRead
<1>6. TreeView'[p] = DocumentOf(f)
  <2>1. f \in LiveAt(p)'
    BY <1>2, <1>3 DEF LiveAt, FilesAt
  <2>2. QED
    BY <1>2, <1>4, <2>1, TreeReadNext DEF TreeRead, SameDocument
<1>7. ASSUME NEW q \in Path, q # p PROVE TreeView'[q] = TreeView[q]
  <2>1. LiveAt(q)' = LiveAt(q) /\ \A g \in LiveAt(q) : g \in FileId
    BY <1>2, <1>3, <1>7 DEF LiveAt, FilesAt
  <2>2. QED
    BY <1>2, <1>4, <2>1, TreeStays
<1>8. TreeView' = [TreeView EXCEPT ![p] = DocumentOf(f)]
  BY <1>6, <1>7, TreeFunction
<1>9. f \in InTrash /\ InTrash' = InTrash \ {f}
      /\ \A g \in InTrash \ {f} : files'[g].path = files[g].path /\ SameDocument(g)
  BY <1>2, <1>3, <1>4 DEF InTrash
<1>10. /\ DocumentOf(f) \in Store!Trashed(p)
       /\ TrashView' \in {TrashView, TrashView \ {<<p, DocumentOf(f)>>}}
  BY <1>2, <1>9, TrashLoses
<1>11. QED
  BY <1>5, <1>8, <1>10 DEF Store!Restore

\* A purge takes one document out of the trash; when the trash has an equal one
\* from the same path, nobody can tell.
LEMMA PurgePurges ==
  ASSUME CatalogInv, CatalogInv', NEW p \in Path, PurgeFile(p)
  PROVE  Store!Purge(p) \/ UNCHANGED <<TreeView, TrashView>>
<1>1. PICK f \in LatestTrashAt(p) :
        /\ files' = [files EXCEPT ![f] = NoFileRow("purged")]
        /\ versions' = [v \in VersionId |->
              IF v \in VersionsOf(f) THEN NoVersionRow("purged") ELSE versions[v]]
  BY DEF PurgeFile
<1>2. /\ f \in FileId /\ files[f].status = "trash" /\ files[f].path = p
      /\ UniqueLivePath /\ UniqueLivePath'
  BY DEF LatestTrashAt, FilesAt, CatalogInv
<1>3. files'[f].status = "purged" /\ \A g \in FileId \ {f} : files'[g] = files[g]
  BY <1>1, <1>2 DEF CatalogInv, TypeOK, NoFileRow
<1>4. ASSUME NEW g \in FileId \ {f}, files[g].status \in {"live", "trash"}
      PROVE  SameDocument(g)
  <2>1. \A v \in VersionsOf(g) : v \in VersionId \ VersionsOf(f)
    BY DEF VersionsOf
  <2>2. \A v \in VersionsOf(g) : versions'[v] = versions[v]
    BY <1>1, <2>1
  <2>3. VersionsOf(g)' = VersionsOf(g)
    BY <1>1, <2>2 DEF VersionsOf, NoVersionRow
  <2>4. QED
    BY <1>3, <1>4, <2>2, <2>3, DocumentKept DEF CatalogInv, HeadsOwned
<1>5. \A q \in Path : TreeView'[q] = TreeView[q]
  <2>1. \A q \in Path : LiveAt(q)' = LiveAt(q) /\ f \notin LiveAt(q)
    BY <1>2, <1>3 DEF LiveAt, FilesAt
  <2>2. \A q \in Path : \A g \in LiveAt(q) : SameDocument(g)
    BY <1>4, <2>1 DEF LiveAt, FilesAt
  <2>3. QED
    BY <1>2, <2>1, <2>2, TreeStays
<1>6. TreeView' = TreeView
  BY <1>5, TreeFunction
<1>7. /\ DocumentOf(f) \in Store!Trashed(p)
      /\ TrashView' \in {TrashView, TrashView \ {<<p, DocumentOf(f)>>}}
  <2>1. f \in InTrash /\ InTrash' = InTrash \ {f}
    BY <1>2, <1>3 DEF InTrash
  <2>2. \A g \in InTrash \ {f} : files'[g].path = files[g].path /\ SameDocument(g)
    BY <1>3, <1>4 DEF InTrash
  <2>3. QED
    BY <1>2, <2>1, <2>2, TrashLoses
<1>8. QED
  BY <1>6, <1>7 DEF Store!Purge

-----------------------------------------------------------------------------
(* The refinement *)

\* Every transaction is one step of the store, or the user sees no change.
LEMMA StoreSteps == CatalogInv /\ CatalogInv' /\ [Next]_catalogVars => [Store!StoreNext]_(Store!storeVars)
<1> SUFFICES ASSUME CatalogInv, CatalogInv', [Next]_catalogVars
             PROVE  Store!StoreNext \/ UNCHANGED <<TreeView, TrashView>>
  BY DEF Store!storeVars
<1>1. ASSUME files' = files, versions' = versions PROVE UNCHANGED <<TreeView, TrashView>>
  <2>1. \A f : SameDocument(f)
    BY <1>1, SameVersions
  <2>2. \A p \in Path : TreeView'[p] = TreeView[p]
    BY <1>1, <2>1, TreeStays DEF CatalogInv, LiveAt, FilesAt
  <2>3. TreeView' = TreeView
    BY <2>2, TreeFunction
  <2>4. TrashView' = TrashView
    BY <1>1, <2>1, TrashStays DEF InTrash
  <2>5. QED
    BY <2>3, <2>4
<1>2. ASSUME NEW p \in Path, NEW content \in Content, ImportFile(p, content)
      PROVE  Store!StoreNext
  <2>1. Store!Write(p, content)
    BY <1>2, PublishWrites DEF ImportFile
  <2>2. QED
    BY <2>1 DEF Store!StoreNext
<1>3. ASSUME NEW k \in Key, CommitUpload(k)
      PROVE  Store!StoreNext \/ (files' = files /\ versions' = versions)
  <2>1. sessions[k].path \in Path /\ Uploaded(k) \in Content
    BY <1>3, UploadedContent DEF CommitUpload, Accepts, CatalogInv, RowsFilled
  <2>2. \/ files' = files /\ versions' = versions
        \/ /\ ~HeadIs(sessions[k].path, Uploaded(k))
           /\ \E v \in VersionId : Publish(sessions[k].path, Uploaded(k), v)
    BY <1>3 DEF CommitUpload
  <2>3. \/ files' = files /\ versions' = versions
        \/ Store!Write(sessions[k].path, Uploaded(k))
    BY <2>1, <2>2, PublishWrites
  <2>4. QED
    BY <2>1, <2>3 DEF Store!StoreNext
<1>4. ASSUME NEW p \in Path, NEW v \in VersionId, RestoreVersion(p, v) PROVE Store!StoreNext
  BY <1>4, RestoreVersionRollsBack DEF Store!StoreNext
<1>5. ASSUME NEW p \in Path, DeleteFile(p) \/ RestoreFile(p) PROVE Store!StoreNext
  BY <1>5, DeleteDeletes, RestoreRestores DEF Store!StoreNext
<1>6. ASSUME NEW p \in Path, PurgeFile(p)
      PROVE  Store!StoreNext \/ UNCHANGED <<TreeView, TrashView>>
  BY <1>6, PurgePurges DEF Store!StoreNext
<1>7. CASE \/ \E p, q \in Path : MoveFile(p, q)
           \/ \E S \in SUBSET Path : \E to \in [S -> Path] : MoveFiles(S, to)
  BY <1>7, MovesRename DEF Store!StoreNext
<1>8. ASSUME Tick \/ CleanupUploads \/ (\E d \in Dir : CreateDirectory(d))
             \/ (\E C \in SUBSET Chunk : DropChunkRows(C))
             \/ (\E k \in Key, p \in Path, n \in 0..MaxChunks : CreateUpload(k, p, n))
             \/ (\E k \in Key : DeadlinePasses(k) \/ ExpireOverdue(k) \/ AbortUpload(k))
             \/ (\E k \in Key, i \in 1..MaxChunks, c \in Chunk : UploadChunk(k, i, c))
             \/ UNCHANGED catalogVars
      PROVE  files' = files /\ versions' = versions
  BY <1>8 DEF Tick, CleanupUploads, CreateDirectory, DropChunkRows, CreateUpload, DeadlinePasses,
     ExpireOverdue, AbortUpload, UploadChunk, SetSession, catalogVars
<1>9. QED
  BY <1>1, <1>2, <1>3, <1>4, <1>5, <1>6, <1>7, <1>8 DEF Next

\* An empty vault is an empty store.
LEMMA StoreInits == Init => Store!StoreInit
<1> SUFFICES ASSUME Init PROVE Store!StoreInit
  OBVIOUS
<1>1. \A f \in FileId : files[f].status = "free"
  BY DEF Init, NoFileRow
<1>2. \A p \in Path : LiveAt(p) = {}
  BY <1>1 DEF LiveAt, FilesAt
<1>3. TreeView = [p \in Path |-> NoFile]
  BY <1>2 DEF TreeView
<1>4. TrashView = {}
  BY <1>1 DEF TrashView
<1>5. QED
  BY <1>3, <1>4 DEF Store!StoreInit

\* Seen as documents at paths, every transaction of the vault is one step of
\* the abstract store or invisible: an upload, a retry, an expiry or garbage
\* collection never shows in the tree, and no write, move, delete, restore or
\* purge does more than its name says.
THEOREM VaultIsAStore == Spec => ImplementsStore
<1>1. QED
  BY StoreInits, StoreSteps, CatalogSafe, PTL DEF Spec, ImplementsStore, Store!StoreSpec
=============================================================================
