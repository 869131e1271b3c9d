-------------------------- MODULE ShareLinksProofs --------------------------
(***************************************************************************)
(* The safety of share links and downloads, proved for every set of links, *)
(* readers, files, versions and chunks and every bound.                    *)
(***************************************************************************)
EXTENDS ShareLinks, VaultStorageProofs

\* A link that exists names a version that does, with the content that was
\* shared; its count and limit are those its owner knows.
LinkGood(l) ==
  /\ offers[l].used <= offers[l].limit
  /\ Exists(l) =>
       /\ links[l].version \in PresentVersions
       /\ versions[links[l].version].chunks = offers[l].content
       /\ links[l].count = offers[l].used
       /\ links[l].limit = offers[l].limit

\* A reader has sent the beginning of its manifest, which is what its version
\* holds as long as it is there, and what was shared if it came by a link.
ReaderGood(r) ==
  /\ readers[r].pc # "idle" =>
       readers[r].version \in VersionId /\ versions[readers[r].version].status # "free"
  /\ readers[r].pc = "streaming" =>
       /\ readers[r].version \in PresentVersions =>
            readers[r].manifest = versions[readers[r].version].chunks
       /\ readers[r].link # NoLink =>
            /\ links[readers[r].link].state # "none"
            /\ readers[r].manifest = offers[readers[r].link].content
  /\ Len(readers[r].sent) <= Len(readers[r].manifest)
  /\ \A i \in DOMAIN readers[r].sent : readers[r].sent[i] = readers[r].manifest[i]

\* Between the look at a link and the count, the reader holds the write lock and
\* the link is still what it looked at.
CountingGood(r) ==
  readers[r].pc = "counting" =>
    /\ lock = r
    /\ readers[r].link \in Link
    /\ links[readers[r].link].state = "active"
    /\ links[readers[r].link].count < links[readers[r].link].limit
    /\ links[readers[r].link].version = readers[r].version

\* LinkPinned is not inductive: a reader's manifest stays what was shared only
\* because a link's offer is made once, and a version that is gone never comes
\* back under its id.  LimitKept is not either: it rests on the lock.
ShareInv ==
  /\ StorageInv
  /\ links \in [Link -> LinkRow]
  /\ readers \in [Reader -> ReaderRow]
  /\ offers \in [Link -> OfferRow]
  /\ \A l \in Link : LinkGood(l)
  /\ \A r \in Reader : worker[r] = Idle /\ ReaderGood(r) /\ CountingGood(r)

-----------------------------------------------------------------------------
(* Contents as sequences *)

\* A content is a sequence of chunks within the bound.
LEMMA ContentSeq ==
  ASSUME NEW content
  PROVE  content \in Content <=> content \in Seq(Chunk) /\ Len(content) <= MaxChunks
<1>1. ASSUME content \in Content
      PROVE  content \in Seq(Chunk) /\ Len(content) <= MaxChunks
  <2>1. PICK n \in 0..MaxChunks : content \in [1..n -> Chunk]
    BY <1>1 DEF Content
  <2>2. n \in Nat /\ n <= MaxChunks
    BY CatalogAssumption DEF CatalogAssumption
  <2>3. QED
    BY <2>1, <2>2
<1>2. ASSUME content \in Seq(Chunk), Len(content) <= MaxChunks
      PROVE  content \in Content
  <2>1. content \in [1..Len(content) -> Chunk] /\ Len(content) \in 0..MaxChunks
    BY <1>2, CatalogAssumption DEF CatalogAssumption
  <2>2. QED
    BY <2>1 DEF Content
<1>3. QED
  BY <1>1, <1>2

-----------------------------------------------------------------------------
(* What a step leaves as it is *)

\* A reader that does nothing stays right as long as versions keep their
\* content until they are gone and what was shared with links is not replaced.
LEMMA ReaderLeft ==
  ASSUME ShareInv, NEW r \in Reader, readers'[r] = readers[r],
         \A v \in VersionId :
           versions[v].status # "free" =>
             /\ versions'[v].status # "free"
             /\ versions'[v].status = "present" => versions'[v] = versions[v],
         \A l \in Link :
           links[l].state # "none" =>
             links'[l].state # "none" /\ offers'[l].content = offers[l].content
  PROVE  ReaderGood(r)'
<1>1. ReaderGood(r) /\ readers[r] \in ReaderRow
  BY DEF ShareInv
<1>2. readers[r].link \in Link \cup {NoLink}
  BY <1>1 DEF ReaderRow
<1>3. readers[r].pc # "idle" =>
        readers[r].version \in VersionId /\ versions'[readers[r].version].status # "free"
  BY <1>1 DEF ReaderGood
<1>4. readers[r].pc = "streaming" /\ readers[r].version \in PresentVersions' =>
        readers[r].manifest = versions'[readers[r].version].chunks
  <2> SUFFICES ASSUME readers[r].pc = "streaming", readers[r].version \in PresentVersions'
               PROVE  readers[r].manifest = versions'[readers[r].version].chunks
    OBVIOUS
  <2>1. /\ readers[r].version \in VersionId
        /\ versions[readers[r].version].status # "free"
        /\ versions'[readers[r].version].status = "present"
    BY <1>1 DEF ReaderGood, PresentVersions
  <2>2. versions'[readers[r].version] = versions[readers[r].version]
    BY <2>1
  <2>3. readers[r].version \in PresentVersions
    BY <2>1, <2>2 DEF PresentVersions
  <2>4. QED
    BY <1>1, <2>2, <2>3 DEF ReaderGood
<1>5. readers[r].pc = "streaming" /\ readers[r].link # NoLink =>
        /\ links'[readers[r].link].state # "none"
        /\ readers[r].manifest = offers'[readers[r].link].content
  BY <1>1, <1>2 DEF ReaderGood
<1>6. /\ Len(readers[r].sent) <= Len(readers[r].manifest)
      /\ \A i \in DOMAIN readers[r].sent : readers[r].sent[i] = readers[r].manifest[i]
  BY <1>1 DEF ReaderGood
<1>7. QED
  BY <1>3, <1>4, <1>5, <1>6 DEF ReaderGood

\* A reader takes and returns the lock without disturbing any worker.
LEMMA LockLeft ==
  ASSUME ShareInv, UNCHANGED <<catalogVars, blobs, worker>>,
         lock' = lock \/ \E r \in Reader : lock \in {NoWorker, r} /\ lock' \in {NoWorker, r}
  PROVE  /\ StorageInv'
         /\ versions' = versions
         /\ PresentVersions' = PresentVersions
         /\ \A r \in Reader : worker'[r] = Idle
<1> USE DEF ShareInv
<1>1. CatalogInv'
  BY CatalogNextInv DEF StorageInv
<1>2. versions' = versions /\ refCount' = refCount
  BY DEF catalogVars
<1>3. StorageRows'
  BY ShareAssumption DEF StorageInv, StorageRows, ShareAssumption
<1>4. ASSUME NEW w \in Worker
      PROVE  MidMethod(w)'
  <2>1. MidMethod(w) /\ worker'[w] = worker[w]
    BY DEF StorageInv
  <2>2. CASE w \in Reader
    BY <2>1, <2>2, IdleRow DEF MidMethod
  <2>3. CASE w \notin Reader
    <3>1. lock = w => lock' = w
      BY <2>3, StorageAssumption DEF StorageAssumption
    <3>2. QED
      BY <1>2, <2>1, <3>1 DEF MidMethod
  <2>4. QED
    BY <2>2, <2>3
<1>5. QED
  BY <1>1, <1>2, <1>3, <1>4 DEF StorageInv, PresentVersions

\* While a reader holds the lock the vault keeps all versions, and the lock.
LEMMA LockHeld ==
  ASSUME ShareInv, VaultStep, NEW r \in Reader, lock = r
  PROVE  lock' = r /\ versions' = versions
<1>1. r \in Worker /\ r # NoWorker
  BY ShareAssumption, StorageAssumption DEF ShareAssumption, StorageAssumption
<1>2. StorageInv /\ StorageNext /\ worker[r] = Idle /\ worker'[r] = worker[r]
  BY DEF ShareInv, VaultStep
<1>3. CASE Transaction \/ Passing
  BY <1>1, <1>3 DEF Transaction, Unlocked, Passing, Tick, DeadlinePasses, SetSession
<1>4. ASSUME NEW w \in Worker, w # r, Start(w) \/ Continue(w) \/ Fail(w)
      PROVE  lock' = r /\ versions' = versions
  <2>1. MidMethod(w) /\ ~Unlocked /\ lock # w
    BY <1>1, <1>2, <1>4 DEF StorageInv, Unlocked
  <2>2. CASE Start(w)
    BY <2>1, <2>2 DEF Start, StartImport, BeginChunk, BeginCommit, Abort, Purge, Cleanup, StartGc, catalogVars
  <2>3. CASE Continue(w)
    <3>1. worker[w].pc \notin {"record", "verify"}
      BY <2>1 DEF MidMethod
    <3>2. QED
      BY <1>1, <2>1, <2>3, <3>1
         DEF Continue, PutNext, PublishImport, RecordChunk, VerifyNext, FinishCommit, SelectReferenced,
             SelectOpenChunks, ListOrphans, UnlinkOrphan, SelectZero, UnlinkZero, DeleteZeroRow, catalogVars
  <2>4. CASE Fail(w)
    BY <2>1, <2>4 DEF Fail, catalogVars
  <2>5. QED
    BY <1>4, <2>2, <2>3, <2>4
<1>5. ASSUME Start(r) \/ Continue(r) \/ Fail(r)
      PROVE  FALSE
  <2>1. ~Unlocked /\ worker[r].pc = "idle"
    BY <1>1, <1>2, IdleRow DEF Unlocked
  <2>2. \E row : Become(r, row) /\ row.pc # "idle"
    <3>1. (\E p \in Path, content \in Content : StartImport(r, p, content)) \/ StartGc(r)
      BY <1>5, <2>1
         DEF Start, BeginChunk, BeginCommit, Abort, Purge, Cleanup, Fail,
             Continue, PutNext, PublishImport, RecordChunk, VerifyNext, FinishCommit, SelectReferenced,
             SelectOpenChunks, ListOrphans, UnlinkOrphan, SelectZero, UnlinkZero, DeleteZeroRow
    <3>2. \A p, content : [Idle EXCEPT !.pc = "put", !.path = p, !.content = content].pc = "put"
      BY DEF Idle
    <3>3. [Idle EXCEPT !.pc = "scan"].pc = "scan"
      BY DEF Idle
    <3>4. QED
      BY <3>1, <3>2, <3>3 DEF StartImport, StartGc
  <2>3. QED
    BY <1>1, <1>2, <2>1, <2>2 DEF Become, StorageInv, StorageRows
<1>6. QED
  BY <1>1, <1>2, <1>3, <1>4, <1>5 DEF StorageNext

\* A link that a step leaves alone stays right if its version does.
LEMMA LinkLeft ==
  ASSUME ShareInv, NEW l \in Link, links'[l] = links[l], offers'[l] = offers[l],
         Exists(l) => /\ links[l].version \in PresentVersions'
                      /\ versions'[links[l].version] = versions[links[l].version]
  PROVE  LinkGood(l)'
<1>1. LinkGood(l)
  BY DEF ShareInv
<1>2. Exists(l)' <=> Exists(l)
  BY DEF Exists
<1>3. QED
  BY <1>1, <1>2 DEF LinkGood

-----------------------------------------------------------------------------
(* Links *)

\* A transaction of the vault takes the links to purged versions with it.
LEMMA VaultStepInv ==
  ASSUME ShareInv, VaultStep
  PROVE  ShareInv'
<1> USE DEF ShareInv
<1>1. StorageInv' /\ [Next]_catalogVars
  BY StorageNextInv DEF VaultStep
<1>2. readers' = readers /\ offers' = offers
  BY DEF VaultStep
<1>3. \A v \in VersionId : VersionStep(v)
  BY <1>1, VersionSteps DEF StorageInv
<1>4. ASSUME NEW v \in VersionId, versions[v].status # "free"
      PROVE  /\ versions'[v].status # "free"
             /\ versions'[v].status = "present" => versions'[v] = versions[v]
  BY <1>3, <1>4 DEF VersionStep
<1>5. ASSUME NEW l \in Link
      PROVE  links'[l] = IF Exists(l) /\ versions'[links[l].version].status # "present"
                         THEN NoLinkRow("gone") ELSE links[l]
  BY DEF VaultStep, Cascade
<1>6. NoLinkRow("gone") \in LinkRow /\ NoLinkRow("gone").state = "gone"
  BY ShareAssumption DEF NoLinkRow, LinkRow, ShareAssumption
<1>7. links' \in [Link -> LinkRow]
  <2>1. links' = [l \in Link |->
                    IF Exists(l) /\ versions'[links[l].version].status # "present"
                    THEN NoLinkRow("gone") ELSE links[l]]
    BY DEF VaultStep, Cascade
  <2>2. QED
    BY <1>6, <2>1
<1>8. ASSUME NEW l \in Link
      PROVE  LinkGood(l)'
  <2>1. CASE Exists(l) /\ versions'[links[l].version].status # "present"
    <3>1. ~Exists(l)'
      BY <1>5, <1>6, <2>1 DEF Exists
    <3>2. QED
      BY <1>2, <3>1 DEF LinkGood
  <2>2. CASE ~Exists(l)
    <3>1. links'[l] = links[l]
      BY <1>5, <2>2
    <3>2. QED
      BY <1>2, <2>2, <3>1, LinkLeft
  <2>3. CASE Exists(l) /\ versions'[links[l].version].status = "present"
    <3>1. links'[l] = links[l]
      BY <1>5, <2>3
    <3>2. links[l].version \in VersionId /\ versions[links[l].version].status = "present"
      BY <2>3 DEF LinkGood, PresentVersions
    <3>3. versions'[links[l].version] = versions[links[l].version]
      BY <1>4, <2>3, <3>2
    <3>4. links[l].version \in PresentVersions'
      BY <2>3, <3>2 DEF PresentVersions
    <3>5. QED
      BY <1>2, <3>1, <3>3, <3>4, LinkLeft
  <2>4. QED
    BY <2>1, <2>2, <2>3
<1>9. ASSUME NEW l \in Link, links[l].state # "none"
      PROVE  links'[l].state # "none"
  BY <1>5, <1>6, <1>9
<1>10. ASSUME NEW r \in Reader
       PROVE  worker'[r] = Idle /\ ReaderGood(r)' /\ CountingGood(r)'
  <2>1. worker'[r] = Idle
    BY DEF VaultStep
  <2>2. ReaderGood(r)'
    BY <1>2, <1>4, <1>9, ReaderLeft
  <2>3. CASE readers[r].pc = "counting"
    <3> DEFINE l == readers[r].link
    <3>1. lock = r /\ l \in Link /\ Exists(l) /\ CountingGood(r)
      BY <2>3 DEF CountingGood, Exists
    <3>2. lock' = r /\ versions' = versions
      BY <3>1, LockHeld
    <3>3. versions[links[l].version].status = "present"
      BY <3>1 DEF LinkGood, PresentVersions
    <3>4. links'[l] = links[l]
      BY <1>5, <3>1, <3>2, <3>3
    <3>5. QED
      BY <1>2, <2>1, <2>2, <2>3, <3>1, <3>2, <3>4 DEF CountingGood
  <2>4. QED
    BY <1>2, <2>1, <2>2, <2>3 DEF CountingGood
<1>11. QED
  BY <1>1, <1>2, <1>7, <1>8, <1>10

\* A step that takes the write lock for itself meets no counting reader.
LEMMA NobodyCounts ==
  ASSUME ShareInv, Unlocked, NEW r \in Reader
  PROVE  readers[r].pc # "counting"
BY ShareAssumption, StorageAssumption
   DEF ShareInv, CountingGood, Unlocked, ShareAssumption, StorageAssumption

\* A step of a link that changes one row of share_links.
LEMMA SetLinkInv ==
  ASSUME ShareInv, NEW l \in Link, NEW row \in LinkRow, NEW offer \in OfferRow,
         SetLink(l, row), offers' = [offers EXCEPT ![l] = offer],
         row.state # "none",
         links[l].state # "none" => offer.content = offers[l].content,
         \A r \in Reader : readers[r].pc = "counting" => readers[r].link # l,
         LinkGood(l)'
  PROVE  ShareInv'
<1> USE DEF ShareInv
<1>1. /\ StorageInv' /\ versions' = versions
      /\ PresentVersions' = PresentVersions
      /\ readers' = readers /\ lock' = lock
      /\ \A r \in Reader : worker'[r] = Idle
  BY LockLeft DEF SetLink, storageVars
<1>2. links' \in [Link -> LinkRow] /\ offers' \in [Link -> OfferRow]
  BY DEF SetLink
<1>3. links'[l] = row /\ offers'[l] = offer
  BY DEF SetLink
<1>4. \A x \in Link : x # l => links'[x] = links[x] /\ offers'[x] = offers[x]
  BY DEF SetLink
<1>5. ASSUME NEW x \in Link
      PROVE  LinkGood(x)'
  <2>1. CASE x = l
    BY <2>1
  <2>2. CASE x # l
    <3>1. links'[x] = links[x] /\ offers'[x] = offers[x]
      BY <1>4, <2>2
    <3>2. Exists(x) => links[x].version \in PresentVersions'
      BY <1>1 DEF LinkGood
    <3>3. QED
      BY <1>1, <3>1, <3>2, LinkLeft
  <2>3. QED
    BY <2>1, <2>2
<1>6. \A x \in Link :
        links[x].state # "none" =>
          links'[x].state # "none" /\ offers'[x].content = offers[x].content
  BY <1>3, <1>4
<1>7. ASSUME NEW r \in Reader
      PROVE  ReaderGood(r)' /\ CountingGood(r)'
  <2>1. ReaderGood(r)'
    BY <1>1, <1>6, ReaderLeft
  <2>2. readers[r].pc = "counting" => links'[readers[r].link] = links[readers[r].link]
    BY <1>4 DEF CountingGood
  <2>3. QED
    BY <1>1, <2>1, <2>2 DEF CountingGood
<1>8. QED
  BY <1>1, <1>2, <1>5, <1>7

\* A link is made to the version its path shows.
LEMMA CreateShareLinkInv ==
  ASSUME ShareInv, NEW l \in Link, NEW p \in Path, NEW n \in 1..MaxDownloads,
         CreateShareLink(l, p, n)
  PROVE  ShareInv'
<1> USE DEF ShareInv
<1>1. PICK f \in LiveAt(p) :
        /\ SetLink(l, [state |-> "active", version |-> files[f].current, limit |-> n, count |-> 0])
        /\ Offer(l, versions[files[f].current].chunks, n)
  BY DEF CreateShareLink
<1> DEFINE v == files[f].current
           row == [state |-> "active", version |-> v, limit |-> n, count |-> 0]
           offer == [content |-> versions[v].chunks, limit |-> n, used |-> 0]
<1>2. v \in PresentVersions /\ v \in VersionId /\ versions[v] \in VersionRow
  BY <1>1 DEF StorageInv, CatalogInv, TypeOK, HeadsOwned, LiveAt, FilesAt, VersionsOf, PresentVersions
<1>3. n \in 0..MaxDownloads /\ n \in Nat
  BY ShareAssumption DEF ShareAssumption
<1>4. versions[v].chunks \in Content
  BY <1>2 DEF VersionRow
<1>5. row \in LinkRow /\ row.state = "active"
  BY <1>2, <1>3 DEF LinkRow
<1>6. offer \in OfferRow
  BY <1>3, <1>4 DEF OfferRow
<1>7. SetLink(l, row) /\ offers' = [offers EXCEPT ![l] = offer]
  BY <1>1 DEF Offer
<1>8. links'[l] = row /\ offers'[l] = offer
  BY <1>7 DEF SetLink
<1>9. versions' = versions /\ PresentVersions' = PresentVersions
  BY <1>7, LockLeft DEF SetLink, storageVars
<1>10. LinkGood(l)'
  <2>1. /\ links'[l].version = v /\ links'[l].count = 0 /\ links'[l].limit = n
        /\ offers'[l].content = versions[v].chunks /\ offers'[l].used = 0 /\ offers'[l].limit = n
    BY <1>8
  <2>2. QED
    BY <1>2, <1>3, <1>9, <2>1 DEF LinkGood
<1>11. links[l].state = "none"
  BY DEF CreateShareLink
<1>12. \A r \in Reader : readers[r].pc # "counting"
  BY NobodyCounts DEF CreateShareLink
<1>13. QED
  BY <1>5, <1>6, <1>7, <1>10, <1>11, <1>12, SetLinkInv

\* Closing a link changes nothing but that.
LEMMA CloseLinkInv ==
  ASSUME ShareInv, NEW l \in Link, RevokeShareLink(l) \/ LinkLapses(l)
  PROVE  ShareInv'
<1> USE DEF ShareInv
<1> DEFINE row == [links[l] EXCEPT !.state = "closed"]
<1>1. links[l].state = "active" /\ SetLink(l, row) /\ offers' = offers
  BY DEF RevokeShareLink, LinkLapses
<1>2. links[l] \in LinkRow /\ offers[l] \in OfferRow
  OBVIOUS
<1>3. /\ row \in LinkRow /\ row.state = "closed"
      /\ row.version = links[l].version /\ row.count = links[l].count
      /\ row.limit = links[l].limit
  BY <1>2 DEF LinkRow
<1>4. offers' = [offers EXCEPT ![l] = offers[l]]
  BY <1>1
<1>5. links'[l] = row /\ offers'[l] = offers[l]
  BY <1>1 DEF SetLink
<1>6. versions' = versions /\ PresentVersions' = PresentVersions
  BY <1>1, LockLeft DEF SetLink, storageVars
<1>7. LinkGood(l)'
  <2>1. LinkGood(l) /\ Exists(l)
    BY <1>1 DEF Exists
  <2>2. QED
    BY <1>3, <1>5, <1>6, <2>1 DEF LinkGood
<1>8. \A r \in Reader : readers[r].pc = "counting" => readers[r].link # l
  BY NobodyCounts DEF RevokeShareLink, LinkLapses
<1>9. QED
  BY <1>1, <1>2, <1>3, <1>4, <1>7, <1>8, SetLinkInv

-----------------------------------------------------------------------------
(* Readers *)

\* A reader that goes on alone.
LEMMA SetReaderInv ==
  ASSUME ShareInv, NEW r \in Reader, NEW row \in ReaderRow,
         readers' = [readers EXCEPT ![r] = row],
         UNCHANGED <<catalogVars, blobs, worker, links, offers>>,
         lock' = lock \/ (lock \in {NoWorker, r} /\ lock' \in {NoWorker, r}),
         ReaderGood(r)', CountingGood(r)'
  PROVE  ShareInv'
<1> USE DEF ShareInv
<1>1. /\ StorageInv' /\ versions' = versions
      /\ PresentVersions' = PresentVersions
      /\ links' = links /\ offers' = offers
      /\ \A x \in Reader : worker'[x] = Idle
  BY LockLeft
<1>2. readers' \in [Reader -> ReaderRow]
  OBVIOUS
<1>3. ASSUME NEW l \in Link
      PROVE  LinkGood(l)'
  <2>1. Exists(l) => links[l].version \in PresentVersions'
    BY <1>1 DEF LinkGood
  <2>2. QED
    BY <1>1, <2>1, LinkLeft
<1>4. ASSUME NEW x \in Reader
      PROVE  ReaderGood(x)' /\ CountingGood(x)'
  <2>1. CASE x = r
    BY <2>1
  <2>2. CASE x # r
    <3>1. readers'[x] = readers[x]
      BY <2>2
    <3>2. ReaderGood(x)'
      BY <1>1, <3>1, ReaderLeft
    <3>3. lock = x => lock' = x
      BY <2>2, ShareAssumption, StorageAssumption DEF ShareAssumption, StorageAssumption
    <3>4. QED
      BY <1>1, <3>1, <3>2, <3>3 DEF CountingGood
  <2>3. QED
    BY <2>1, <2>2
<1>5. QED
  BY <1>1, <1>2, <1>3, <1>4

\* A reader at rest has nothing to be wrong about.
LEMMA IdleReaderRow ==
  /\ IdleReader \in ReaderRow
  /\ IdleReader.pc = "idle" /\ IdleReader.link = NoLink
  /\ IdleReader.sent = <<>> /\ IdleReader.manifest = <<>>
  BY EmptyContent DEF IdleReader, ReaderRow

\* A version that was found may be gone before its chunks are listed, but it
\* was there once.
LEMMA FindVersionInv ==
  ASSUME ShareInv, NEW r \in Reader, NEW p \in Path, FindVersion(r, p)
  PROVE  ShareInv'
<1> USE DEF ShareInv
<1>1. PICK v \in VersionId :
        /\ versions[v].status = "present"
        /\ readers' = [readers EXCEPT ![r] = [IdleReader EXCEPT !.pc = "found", !.version = v]]
  BY DEF FindVersion, VersionsOf, SetReader
<1> DEFINE row == [IdleReader EXCEPT !.pc = "found", !.version = v]
<1>2. /\ row \in ReaderRow
      /\ row.pc = "found" /\ row.version = v /\ row.link = NoLink
      /\ row.sent = <<>> /\ row.manifest = <<>>
  BY IdleReaderRow DEF ReaderRow, IdleReader
<1>3. readers'[r] = row
  BY <1>1
<1>4. versions' = versions
  BY DEF FindVersion, storageVars, catalogVars
<1>5. ReaderGood(r)' /\ CountingGood(r)'
  BY <1>1, <1>2, <1>3, <1>4 DEF ReaderGood, CountingGood
<1>6. UNCHANGED <<catalogVars, blobs, worker, links, offers>> /\ lock' = lock
  BY DEF FindVersion, storageVars
<1>7. QED
  BY <1>1, <1>2, <1>5, <1>6, SetReaderInv

\* What Stream makes of a reader.
LEMMA StreamRow ==
  ASSUME ShareInv, NEW r \in Reader, NEW l \in Link \cup {NoLink}, NEW v \in VersionId,
         Stream(r, l, v)
  PROVE  LET row == [pc |-> "streaming", link |-> l, version |-> v,
                     manifest |-> versions[v].chunks, sent |-> <<>>]
         IN  /\ row \in ReaderRow
             /\ readers' = [readers EXCEPT ![r] = row]
             /\ readers'[r] = row
<1>1. versions[v] \in VersionRow
  BY DEF ShareInv, StorageInv, CatalogInv, TypeOK
<1>2. versions[v].chunks \in Content
  BY <1>1 DEF VersionRow
<1>3. QED
  BY <1>2, EmptyContent DEF Stream, SetReader, ReaderRow, ShareInv

\* The chunks of a version that is gone are no chunks.
LEMMA ListChunksInv ==
  ASSUME ShareInv, NEW r \in Reader, ListChunks(r)
  PROVE  ShareInv'
<1> USE DEF ShareInv
<1> DEFINE v == readers[r].version
           row == [pc |-> "streaming", link |-> NoLink, version |-> v,
                   manifest |-> versions[v].chunks, sent |-> <<>>]
<1>1. v \in VersionId /\ versions[v].status # "free"
  BY DEF ListChunks, ReaderGood
<1>2. row \in ReaderRow /\ readers' = [readers EXCEPT ![r] = row] /\ readers'[r] = row
  BY <1>1, StreamRow DEF ListChunks
<1>3. versions' = versions
  BY DEF ListChunks, storageVars, catalogVars
<1>4. Len(<<>>) <= Len(versions[v].chunks)
  <2>1. versions[v] \in VersionRow
    BY <1>1 DEF StorageInv, CatalogInv, TypeOK
  <2>2. versions[v].chunks \in Seq(Chunk)
    BY <2>1, ContentSeq DEF VersionRow
  <2>3. QED
    BY <2>2
<1>5. ReaderGood(r)' /\ CountingGood(r)'
  BY <1>1, <1>2, <1>3, <1>4 DEF ReaderGood, CountingGood
<1>6. UNCHANGED <<catalogVars, blobs, worker, links, offers>> /\ lock' = lock
  BY DEF ListChunks, storageVars
<1>7. QED
  BY <1>2, <1>5, <1>6, SetReaderInv

\* What was sent grows by the next chunk of the manifest.
LEMMA StreamNextInv ==
  ASSUME ShareInv, NEW r \in Reader, StreamNext(r)
  PROVE  ShareInv'
<1> USE DEF ShareInv
<1> DEFINE old == readers[r]
           n == Len(old.sent) + 1
           sent == Append(old.sent, old.manifest[n])
           row == [old EXCEPT !.sent = sent]
<1>1. /\ old.pc = "streaming" /\ n <= Len(old.manifest)
      /\ readers' = [readers EXCEPT ![r].sent = sent]
      /\ UNCHANGED <<catalogVars, blobs, worker, links, offers>> /\ lock' = lock
  BY DEF StreamNext, SetReader, storageVars
<1>2. old \in ReaderRow /\ ReaderGood(r)
  OBVIOUS
<1>3. old.manifest \in Content /\ old.sent \in Content
  BY <1>2 DEF ReaderRow
<1>4. /\ old.manifest \in Seq(Chunk) /\ Len(old.manifest) <= MaxChunks
      /\ old.sent \in Seq(Chunk)
  BY <1>3, ContentSeq
<1>5. MaxChunks \in Nat
  BY CatalogAssumption DEF CatalogAssumption
<1>6. n \in 1..Len(old.manifest) /\ old.manifest[n] \in Chunk
  BY <1>1, <1>4
<1>7. sent \in Seq(Chunk) /\ Len(sent) = n /\ n <= MaxChunks
  BY <1>1, <1>4, <1>5, <1>6
<1>8. sent \in Content
  BY <1>7, ContentSeq
<1>9. \A i \in DOMAIN sent : sent[i] = old.manifest[i]
  <2>1. \A i \in DOMAIN old.sent : old.sent[i] = old.manifest[i]
    BY <1>2 DEF ReaderGood
  <2>2. QED
    BY <1>4, <1>6, <2>1
<1>10. /\ row \in ReaderRow /\ row.sent = sent
       /\ row.pc = old.pc /\ row.link = old.link
       /\ row.version = old.version /\ row.manifest = old.manifest
  BY <1>2, <1>8 DEF ReaderRow
<1>11. readers' = [readers EXCEPT ![r] = row]
  BY <1>1
<1>12. readers'[r] = row
  BY <1>11
<1>13. versions' = versions /\ links' = links /\ offers' = offers
  BY <1>1 DEF catalogVars
<1>14. ReaderGood(r)'
  <2>1. PresentVersions' = PresentVersions
    BY <1>13 DEF PresentVersions
  <2>2. Len(row.sent) <= Len(row.manifest)
    BY <1>1, <1>7, <1>10
  <2>3. QED
    BY <1>2, <1>9, <1>10, <1>12, <1>13, <2>1, <2>2 DEF ReaderGood
<1>15. CountingGood(r)'
  BY <1>1, <1>10, <1>12 DEF CountingGood
<1>16. QED
  BY <1>1, <1>10, <1>11, <1>14, <1>15, SetReaderInv

\* A reader may stop at any point; one that was counting returns the lock.
LEMMA ReaderStopsInv ==
  ASSUME ShareInv, NEW r \in Reader, ReaderStops(r)
  PROVE  ShareInv'
<1>1. /\ readers' = [readers EXCEPT ![r] = IdleReader]
      /\ UNCHANGED <<catalogVars, blobs, worker, links, offers>>
  BY DEF ReaderStops, SetReader
<1>2. readers'[r] = IdleReader
  BY <1>1 DEF ShareInv
<1>3. ReaderGood(r)' /\ CountingGood(r)'
  BY <1>2, IdleReaderRow DEF ReaderGood, CountingGood
<1>4. lock' = lock \/ (lock = r /\ lock' = NoWorker)
  BY DEF ReaderStops, ShareInv, CountingGood
<1>5. QED
  BY <1>1, <1>3, <1>4, IdleReaderRow, SetReaderInv

\* Looking at a link takes the lock; its version is there as long as it is.
LEMMA BeginSharedInv ==
  ASSUME ShareInv, NEW r \in Reader, NEW l \in Link, BeginShared(r, l)
  PROVE  ShareInv'
<1> USE DEF ShareInv
<1> DEFINE v == links[l].version
           row == [IdleReader EXCEPT !.pc = "counting", !.link = l, !.version = v]
<1>1. /\ links[l].state = "active" /\ links[l].count < links[l].limit
      /\ lock = NoWorker /\ lock' = r
      /\ readers' = [readers EXCEPT ![r] = row]
      /\ UNCHANGED <<catalogVars, blobs, worker, links, offers>>
  BY DEF BeginShared, Unlocked, SetReader
<1>2. v \in VersionId /\ versions[v].status = "present"
  BY <1>1 DEF LinkGood, Exists, PresentVersions
<1>3. /\ row \in ReaderRow
      /\ row.pc = "counting" /\ row.link = l /\ row.version = v
      /\ row.sent = <<>> /\ row.manifest = <<>>
  BY <1>2, IdleReaderRow DEF ReaderRow, IdleReader
<1>4. readers'[r] = row
  BY <1>1
<1>5. versions' = versions
  BY <1>1 DEF catalogVars
<1> HIDE DEF row
<1>6. ReaderGood(r)'
  BY <1>2, <1>3, <1>4, <1>5 DEF ReaderGood
<1>7. CountingGood(r)'
  BY <1>1, <1>3, <1>4 DEF CountingGood
<1>8. QED
  BY <1>1, <1>3, <1>6, <1>7, SetReaderInv

\* The count and the download go by the link as it was looked at.
LEMMA FinishSharedInv ==
  ASSUME ShareInv, NEW r \in Reader, FinishShared(r)
  PROVE  ShareInv'
<1> USE DEF ShareInv
<1> DEFINE l == readers[r].link
           v == readers[r].version
           read == [pc |-> "streaming", link |-> l, version |-> v,
                    manifest |-> versions[v].chunks, sent |-> <<>>]
<1>1. /\ readers[r].pc = "counting"
      /\ links' = [links EXCEPT ![l].count = @ + 1]
      /\ offers' = [offers EXCEPT ![l].used = @ + 1]
      /\ Stream(r, l, v)
      /\ lock' = NoWorker
      /\ UNCHANGED <<catalogVars, blobs, worker>>
  BY DEF FinishShared
<1>2. /\ lock = r /\ l \in Link /\ links[l].state = "active"
      /\ links[l].count < links[l].limit /\ links[l].version = v
  BY <1>1 DEF CountingGood
<1> HIDE DEF l, v
<1>3. /\ StorageInv' /\ versions' = versions
      /\ PresentVersions' = PresentVersions
      /\ \A x \in Reader : worker'[x] = Idle
  BY <1>1, <1>2, LockLeft
<1>4. links[l] \in LinkRow /\ offers[l] \in OfferRow /\ LinkGood(l) /\ Exists(l)
  BY <1>2 DEF Exists
<1>5. /\ v \in PresentVersions /\ v \in VersionId
      /\ versions[v].chunks = offers[l].content
      /\ links[l].count = offers[l].used /\ links[l].limit = offers[l].limit
  BY <1>2, <1>4 DEF LinkGood, PresentVersions
<1>6. /\ links[l].count \in Nat /\ links[l].limit \in Nat
      /\ offers[l].used \in Nat
  BY <1>4, ShareAssumption DEF LinkRow, OfferRow, ShareAssumption
<1>7. /\ links'[l] = [links[l] EXCEPT !.count = links[l].count + 1]
      /\ offers'[l] = [offers[l] EXCEPT !.used = offers[l].used + 1]
  BY <1>1, <1>2
<1>8. /\ links'[l] \in LinkRow
      /\ links'[l].state = "active" /\ links'[l].version = v
      /\ links'[l].count = links[l].count + 1 /\ links'[l].limit = links[l].limit
  BY <1>1, <1>2, <1>4, <1>6, <1>7 DEF LinkRow
<1>9. /\ offers'[l] \in OfferRow
      /\ offers'[l].used = offers[l].used + 1 /\ offers'[l].limit = offers[l].limit
      /\ offers'[l].content = offers[l].content
  BY <1>4, <1>6, <1>7 DEF OfferRow
<1>10. \A x \in Link : x # l => links'[x] = links[x] /\ offers'[x] = offers[x]
  BY <1>1
<1>11. links' \in [Link -> LinkRow] /\ offers' \in [Link -> OfferRow]
  <2>1. DOMAIN links' = Link /\ DOMAIN offers' = Link
    BY <1>1
  <2>2. ASSUME NEW x \in Link
        PROVE  links'[x] \in LinkRow /\ offers'[x] \in OfferRow
    <3>1. CASE x = l
      BY <1>8, <1>9, <3>1
    <3>2. CASE x # l
      BY <1>10, <3>2
    <3>3. QED
      BY <3>1, <3>2
  <2>3. links' = [x \in Link |-> links'[x]] /\ offers' = [x \in Link |-> offers'[x]]
    BY <1>1, <2>1
  <2>4. QED
    BY <2>2, <2>3
<1>12. ASSUME NEW x \in Link
       PROVE  LinkGood(x)'
  <2>1. CASE x = l
    <3>1. offers'[l].used <= offers'[l].limit
      BY <1>1, <1>2, <1>5, <1>6, <1>9
    <3>2. QED
      BY <1>3, <1>5, <1>8, <1>9, <2>1, <3>1 DEF LinkGood
  <2>2. CASE x # l
    <3>1. links'[x] = links[x] /\ offers'[x] = offers[x]
      BY <1>10, <2>2
    <3>2. Exists(x) => links[x].version \in PresentVersions'
      BY <1>3 DEF LinkGood
    <3>3. QED
      BY <1>3, <3>1, <3>2, LinkLeft
  <2>3. QED
    BY <2>1, <2>2
<1>13. read \in ReaderRow /\ readers' = [readers EXCEPT ![r] = read] /\ readers'[r] = read
  BY <1>1, <1>2, <1>5, StreamRow
<1>14. readers' \in [Reader -> ReaderRow]
  BY <1>13
<1>15. \A x \in Link :
         links[x].state # "none" =>
           links'[x].state # "none" /\ offers'[x].content = offers[x].content
  BY <1>8, <1>9, <1>10
<1>16. ASSUME NEW x \in Reader
       PROVE  ReaderGood(x)' /\ CountingGood(x)'
  <2>1. CASE x = r
    <3>1. versions[v].status = "present"
      BY <1>5 DEF PresentVersions
    <3>2. Len(<<>>) <= Len(versions[v].chunks)
      <4>1. offers[l].content \in Seq(Chunk)
        BY <1>4, ContentSeq DEF OfferRow
      <4>2. QED
        BY <1>5, <4>1
    <3>3. QED
      BY <1>3, <1>5, <1>8, <1>9, <1>13, <2>1, <3>1, <3>2 DEF ReaderGood, CountingGood
  <2>2. CASE x # r
    <3>1. readers'[x] = readers[x]
      BY <1>13, <2>2
    <3>2. readers[x].pc # "counting"
      BY <1>2, <2>2 DEF CountingGood
    <3>3. ReaderGood(x)'
      BY <1>3, <1>15, <3>1, ReaderLeft
    <3>4. QED
      BY <3>1, <3>2, <3>3 DEF CountingGood
  <2>3. QED
    BY <2>1, <2>2
<1>17. QED
  BY <1>3, <1>11, <1>12, <1>14, <1>16

-----------------------------------------------------------------------------
(* Theorems *)

\* A new vault has no links and no readers.
LEMMA ShareInitInv == ShareInit => ShareInv
<1> SUFFICES ASSUME ShareInit PROVE ShareInv
  OBVIOUS
<1> USE DEF ShareInit
<1>1. StorageInv /\ \A r \in Reader : worker[r] = Idle
  BY StorageInitInv, ShareAssumption DEF StorageInit, ShareAssumption
<1>2. NoLinkRow("none") \in LinkRow /\ NoLinkRow("none").state = "none"
  BY ShareAssumption DEF NoLinkRow, LinkRow, ShareAssumption
<1>3. links \in [Link -> LinkRow] /\ \A l \in Link : links[l].state = "none"
  BY <1>2
<1>4. offers \in [Link -> OfferRow] /\ \A l \in Link : offers[l].used = 0 /\ offers[l].limit = 0
  BY EmptyContent, ShareAssumption DEF OfferRow, ShareAssumption
<1>5. readers \in [Reader -> ReaderRow] /\ \A r \in Reader : readers[r] = IdleReader
  BY IdleReaderRow
<1>6. \A l \in Link : LinkGood(l)
  BY <1>3, <1>4 DEF LinkGood, Exists
<1>7. \A r \in Reader : ReaderGood(r) /\ CountingGood(r)
  BY <1>5, IdleReaderRow DEF ReaderGood, CountingGood
<1>8. QED
  BY <1>1, <1>3, <1>4, <1>5, <1>6, <1>7 DEF ShareInv

\* Every step preserves the invariant.
LEMMA ShareNextInv == ShareInv /\ [ShareNext]_shareVars => ShareInv'
<1> SUFFICES ASSUME ShareInv, [ShareNext]_shareVars PROVE ShareInv'
  OBVIOUS
<1>1. CASE VaultStep
  BY <1>1, VaultStepInv
<1>2. CASE \E l \in Link, p \in Path, n \in 1..MaxDownloads : CreateShareLink(l, p, n)
  BY <1>2, CreateShareLinkInv
<1>3. CASE \E l \in Link : RevokeShareLink(l) \/ LinkLapses(l)
  BY <1>3, CloseLinkInv
<1>4. CASE \E r \in Reader, l \in Link : BeginShared(r, l)
  BY <1>4, BeginSharedInv
<1>5. CASE \E r \in Reader, p \in Path : FindVersion(r, p)
  BY <1>5, FindVersionInv
<1>6. CASE \E r \in Reader : FinishShared(r) \/ ListChunks(r) \/ StreamNext(r) \/ ReaderStops(r)
  BY <1>6, FinishSharedInv, ListChunksInv, StreamNextInv, ReaderStopsInv
<1>7. CASE UNCHANGED shareVars
  <2>1. /\ UNCHANGED <<catalogVars, blobs, worker>> /\ lock' = lock
        /\ links' = links /\ readers' = readers /\ offers' = offers
    BY <1>7 DEF shareVars, storageVars
  <2>2. /\ StorageInv' /\ versions' = versions /\ PresentVersions' = PresentVersions
        /\ \A r \in Reader : worker'[r] = Idle
    BY <2>1, LockLeft
  <2>3. ASSUME NEW l \in Link
        PROVE  LinkGood(l)'
    <3>1. Exists(l) => links[l].version \in PresentVersions'
      BY <2>2 DEF ShareInv, LinkGood
    <3>2. QED
      BY <2>1, <2>2, <3>1, LinkLeft
  <2>4. ASSUME NEW r \in Reader
        PROVE  ReaderGood(r)' /\ CountingGood(r)'
    <3>1. ReaderGood(r)'
      BY <2>1, <2>2, ReaderLeft
    <3>2. QED
      BY <2>1, <3>1 DEF ShareInv, CountingGood
  <2>5. QED
    BY <2>1, <2>2, <2>3, <2>4 DEF ShareInv
<1>8. QED
  BY <1>1, <1>2, <1>3, <1>4, <1>5, <1>6, <1>7 DEF ShareNext

\* The inductive invariant holds with any number of links, readers and workers.
THEOREM SharesSafe == ShareSpec => []ShareInv
<1>1. QED
  BY ShareInitInv, ShareNextInv, PTL DEF ShareSpec

\* Rows, offers and downloads always have their types.
THEOREM SharesTyped == ShareSpec => []ShareTypeOK
<1>1. ShareInv => ShareTypeOK
  BY DEF ShareInv, ShareTypeOK, StorageInv, StorageRows, StorageTypeOK, CatalogInv
<1>2. QED
  BY <1>1, SharesSafe, PTL

\* A link serves what it was made for and never outlives its version.
THEOREM LinksPinned == ShareSpec => []LinkPinned
<1>1. ShareInv => LinkPinned
  BY DEF ShareInv, LinkPinned, LinkGood, ReaderGood
<1>2. QED
  BY <1>1, SharesSafe, PTL

\* However many readers look at a link at once, its limit is kept: the lock they
\* take before they look is theirs until they have counted.
THEOREM LimitsKept == ShareSpec => []LimitKept
<1>1. ShareInv => LimitKept
  BY DEF ShareInv, LimitKept, LinkGood
<1>2. QED
  BY <1>1, SharesSafe, PTL

\* What a step that is not the vault's does to links and downloads: only a link
\* that is active is looked at, and only the one looked at is counted.
LEMMA ClosedStep ==
  ASSUME ShareInv, ShareNext, NEW l \in Link, links[l].state \in {"closed", "gone"}
  PROVE  /\ offers'[l] = offers[l]
         /\ \A r \in Reader :
              readers'[r].link = l => readers[r].link = l /\ readers'[r].pc = readers[r].pc
<1> USE DEF ShareInv
<1>1. CASE VaultStep
  BY <1>1 DEF VaultStep
<1>2. CASE \/ \E x \in Link, p \in Path, n \in 1..MaxDownloads : CreateShareLink(x, p, n)
           \/ \E x \in Link : RevokeShareLink(x) \/ LinkLapses(x)
  <2>1. readers' = readers
    BY <1>2 DEF CreateShareLink, RevokeShareLink, LinkLapses, SetLink
  <2>2. offers'[l] = offers[l]
    BY <1>2 DEF CreateShareLink, Offer, RevokeShareLink, LinkLapses
  <2>3. QED
    BY <2>1, <2>2
<1>3. ASSUME NEW x \in Reader, NEW row \in ReaderRow,
             readers' = [readers EXCEPT ![x] = row],
             row.link = l => readers[x].link = l /\ row.pc = readers[x].pc
      PROVE  \A r \in Reader :
               readers'[r].link = l => readers[r].link = l /\ readers'[r].pc = readers[r].pc
  BY <1>3
<1>4. l # NoLink
  BY ShareAssumption DEF ShareAssumption
<1>5. CASE \E x \in Reader, y \in Link : BeginShared(x, y)
  <2>1. PICK x \in Reader, y \in Link : BeginShared(x, y)
    BY <1>5
  <2> DEFINE row == [IdleReader EXCEPT !.pc = "counting", !.link = y, !.version = links[y].version]
  <2>2. y # l /\ offers' = offers /\ readers' = [readers EXCEPT ![x] = row]
    BY <2>1 DEF BeginShared, SetReader
  <2>3. links[y] \in LinkRow
    OBVIOUS
  <2>4. row \in ReaderRow /\ row.link = y
    BY <2>3, IdleReaderRow DEF IdleReader, ReaderRow, LinkRow
  <2>5. QED
    BY <1>3, <2>2, <2>4
<1>6. CASE \E x \in Reader : FinishShared(x)
  <2>1. PICK x \in Reader : FinishShared(x)
    BY <1>6
  <2> DEFINE y == readers[x].link
  <2>2. readers[x].pc = "counting" /\ y \in Link /\ links[y].state = "active" /\ y # l
    BY <2>1 DEF FinishShared, CountingGood
  <2>3. offers'[l] = offers[l]
    BY <2>1, <2>2 DEF FinishShared
  <2>4. /\ readers' = [readers EXCEPT ![x] = [pc |-> "streaming", link |-> y,
                         version |-> readers[x].version,
                         manifest |-> versions[readers[x].version].chunks, sent |-> <<>>]]
    BY <2>1 DEF FinishShared, Stream, SetReader
  <2>5. QED
    BY <2>2, <2>3, <2>4
<1>7. CASE \/ \E x \in Reader, p \in Path : FindVersion(x, p)
           \/ \E x \in Reader : ListChunks(x) \/ ReaderStops(x)
  <2>1. offers' = offers
    BY <1>7 DEF FindVersion, ListChunks, ReaderStops
  <2>2. \E x \in Reader : \E row : readers' = [readers EXCEPT ![x] = row] /\ row.link = NoLink
    <3>1. \A v : [IdleReader EXCEPT !.pc = "found", !.version = v].link = NoLink
      BY DEF IdleReader
    <3>2. CASE \E x \in Reader, p \in Path : FindVersion(x, p)
      BY <3>1, <3>2 DEF FindVersion, SetReader
    <3>3. CASE \E x \in Reader : ListChunks(x)
      <4>1. PICK x \in Reader : ListChunks(x)
        BY <3>3
      <4> DEFINE row == [pc |-> "streaming", link |-> NoLink, version |-> readers[x].version,
                         manifest |-> versions[readers[x].version].chunks, sent |-> <<>>]
      <4>2. readers' = [readers EXCEPT ![x] = row] /\ row.link = NoLink
        BY <4>1 DEF ListChunks, Stream, SetReader
      <4>3. QED
        BY <4>2
    <3>4. CASE \E x \in Reader : ReaderStops(x)
      BY <3>4, IdleReaderRow DEF ReaderStops, SetReader
    <3>5. QED
      BY <1>7, <3>2, <3>3, <3>4
  <2>3. QED
    BY <1>4, <2>1, <2>2
<1>8. CASE \E x \in Reader : StreamNext(x)
  <2>1. PICK x \in Reader : StreamNext(x)
    BY <1>8
  <2> DEFINE sent == Append(readers[x].sent, readers[x].manifest[Len(readers[x].sent) + 1])
  <2>2. offers' = offers /\ readers' = [readers EXCEPT ![x] = [readers[x] EXCEPT !.sent = sent]]
    BY <2>1 DEF StreamNext, SetReader
  <2>3. \A any : /\ [readers[x] EXCEPT !.sent = any].link = readers[x].link
                 /\ [readers[x] EXCEPT !.sent = any].pc = readers[x].pc
    BY DEF ReaderRow
  <2>4. QED
    BY <2>2, <2>3
<1>9. QED
  BY <1>1, <1>2, <1>5, <1>6, <1>7, <1>8 DEF ShareNext

\* A link that was closed or is gone counts and begins no download, whoever
\* looked at it before.
THEOREM ClosedLinksServeNothing == ShareSpec => ClosedBeginsNothing
<1> DEFINE Nothing ==
      \A l \in Link :
        links[l].state \in {"closed", "gone"} =>
          /\ offers'[l] = offers[l]
          /\ \A r \in Reader :
               readers'[r].link = l => readers[r].link = l /\ readers'[r].pc = readers[r].pc
<1>1. ShareInv /\ [ShareNext]_shareVars => [Nothing]_shareVars
  BY ClosedStep
<1>2. [][Nothing]_shareVars => ClosedBeginsNothing
  BY DEF ClosedBeginsNothing
<1>3. QED
  BY <1>1, <1>2, SharesSafe, PTL DEF ShareSpec

\* Under the quiet rule, links and readers disturb no blob either.
LEMMA ShareQuietInv ==
  ASSUME ShareInv, QuietInv, [ShareNext /\ Quiet']_shareVars
  PROVE  QuietInv'
<1>1. CASE VaultStep
  <2>1. [QuietNext]_storageVars
    BY <1>1 DEF VaultStep, QuietNext, shareVars, storageVars, Quiet, QuietInv
  <2>2. QED
    BY <2>1, QuietNextInv
<1>2. CASE ~VaultStep
  <2>1. UNCHANGED <<catalogVars, blobs, worker>>
    BY <1>2 DEF ShareNext, CreateShareLink, RevokeShareLink, LinkLapses, SetLink, BeginShared, FinishShared,
       FindVersion, ListChunks, StreamNext, ReaderStops, shareVars, storageVars
  <2>2. StorageInv'
    BY ShareNextInv DEF ShareInv
  <2>3. Quiet' /\ StoredIfReferenced' /\ \A w \in Worker : BlobsSafe(w)'
    BY <2>1 DEF catalogVars, QuietInv, Quiet, StoredIfReferenced, BlobsSafe
  <2>4. QED
    BY <2>2, <2>3 DEF QuietInv
<1>3. QED
  BY <1>1, <1>2

\* As long as its version is there, a download finds every chunk's file, if no
\* collector runs while an import or upload is in flight.
THEOREM DownloadsComplete == QuietShareSpec => []OnlyPurgeBreaksDownloads
<1>1. ShareInit => ShareInv /\ QuietInv
  BY ShareInitInv, QuietInitInv DEF ShareInit
<1>2. ShareInv /\ QuietInv /\ [ShareNext /\ Quiet']_shareVars => ShareInv' /\ QuietInv'
  BY ShareNextInv, ShareQuietInv
<1>3. ShareInv /\ QuietInv => OnlyPurgeBreaksDownloads
  <2> SUFFICES ASSUME ShareInv, QuietInv, NEW r \in Reader, readers[r].pc = "streaming",
                      readers[r].version \in PresentVersions
               PROVE  /\ readers[r].manifest = versions[readers[r].version].chunks
                      /\ Range(readers[r].manifest) \subseteq blobs
    BY DEF OnlyPurgeBreaksDownloads
  <2>1. readers[r].manifest = versions[readers[r].version].chunks
    BY DEF ShareInv, ReaderGood
  <2>2. Range(versions[readers[r].version].chunks) \subseteq blobs
    BY UsedIsReferenced DEF QuietInv, StorageInv, StoredIfReferenced
  <2>3. QED
    BY <2>1, <2>2
<1>4. QED
  BY <1>1, <1>2, <1>3, PTL DEF QuietShareSpec

\* With links and downloads, the vault is still the catalog that all its
\* theorems are about: sharing changes no file, version or chunk row, and what
\* the cascade does to the links follows the transaction it belongs to.
THEOREM SharesImplementCatalog == ShareSpec => Spec
<1>1. ShareInit => Init
  BY DEF ShareInit, StorageInit
<1>2. ShareInv /\ [ShareNext]_shareVars => [Next]_catalogVars
  <2> SUFFICES ASSUME ShareInv, [ShareNext]_shareVars PROVE [Next]_catalogVars
    OBVIOUS
  <2>1. CASE VaultStep
    BY <2>1, StorageNextInv DEF VaultStep, ShareInv
  <2>2. CASE ~VaultStep
    BY <2>2 DEF ShareNext, CreateShareLink, RevokeShareLink, LinkLapses, SetLink, BeginShared, FinishShared,
       FindVersion, ListChunks, StreamNext, ReaderStops, shareVars, storageVars
  <2>3. QED
    BY <2>1, <2>2
<1>3. QED
  BY <1>1, <1>2, SharesSafe, PTL DEF ShareSpec, Spec
=============================================================================
