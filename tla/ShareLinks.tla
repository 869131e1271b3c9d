----------------------------- MODULE ShareLinks -----------------------------
(***************************************************************************)
(* The vault with share links, and the downloads that stream chunk files   *)
(* after their transaction is over, beside all that the workers of         *)
(* VaultStorage do to metadata and blobs.                                  *)
(*                                                                         *)
(* A link is a row of share_links: it names the version that was current   *)
(* when it was made, and SQLite deletes it with that version.  A method    *)
(* reads the time before it waits for the lock; a link lapses here when no *)
(* method can take it for valid any longer.  A link without a limit is one *)
(* whose limit is the bound.                                               *)
(***************************************************************************)
EXTENDS VaultStorage, Sequences

CONSTANTS Link,         \* random ids, never issued twice, and their tokens
          Reader,       \* the threads and commands that stream a file
          MaxDownloads, \* bound: the largest limit of a link
          NoLink

ASSUME ShareAssumption ==
  MaxDownloads \in Nat \ {0} /\ NoLink \notin Link /\ Reader \subseteq Worker

VARIABLES links,    \* rows of share_links
          readers,  \* the download each reader is at
          offers    \* history: what was shared with each link, and how often it was used

shareVars == <<storageVars, links, readers, offers>>

\* A link is closed when it is revoked or has lapsed.
LinkRow == [state : {"none", "active", "closed", "gone"},
            version : VersionId \cup {NoVersion}, limit : 0..MaxDownloads,
            count : Nat]

NoLinkRow(state) == [state |-> state, version |-> NoVersion, limit |-> 0, count |-> 0]

OfferRow == [content : Content, limit : 0..MaxDownloads, used : Nat]

ReaderRow == [pc : {"idle", "counting", "found", "streaming"}, link : Link \cup {NoLink},
              version : VersionId \cup {NoVersion}, manifest : Content, sent : Content]

IdleReader == [pc |-> "idle", link |-> NoLink, version |-> NoVersion,
               manifest |-> <<>>, sent |-> <<>>]

Exists(l) == links[l].state \in {"active", "closed"}

SetLink(l, row) ==
  /\ links' = [links EXCEPT ![l] = row]
  /\ UNCHANGED <<storageVars, readers>>

ShareInit ==
  /\ StorageInit
  /\ links = [l \in Link |-> NoLinkRow("none")]
  /\ readers = [r \in Reader |-> IdleReader]
  /\ offers = [l \in Link |-> [content |-> <<>>, limit |-> 0, used |-> 0]]

-----------------------------------------------------------------------------
(* Links *)

Offer(l, content, n) == offers' = [offers EXCEPT ![l] = [content |-> content, limit |-> n, used |-> 0]]

CreateShareLink(l, p, n) ==
  /\ Unlocked
  /\ links[l].state = "none"
  /\ \E f \in LiveAt(p) :
       /\ SetLink(l, [state |-> "active", version |-> files[f].current, limit |-> n, count |-> 0])
       /\ Offer(l, versions[files[f].current].chunks, n)

\* Revoking a link that is closed makes no difference to anyone.
RevokeShareLink(l) ==
  /\ Unlocked
  /\ links[l].state = "active"
  /\ SetLink(l, [links[l] EXCEPT !.state = "closed"])
  /\ UNCHANGED offers

\* A download under way has compared the deadline already.
LinkLapses(l) ==
  /\ links[l].state = "active"
  /\ \A r \in Reader : readers[r].pc = "counting" => readers[r].link # l
  /\ SetLink(l, [links[l] EXCEPT !.state = "closed"])
  /\ UNCHANGED offers

-----------------------------------------------------------------------------
(* Downloads *)

SetReader(r, row) == readers' = [readers EXCEPT ![r] = row]

Stream(r, l, v) ==
  SetReader(r, [pc |-> "streaming", link |-> l, version |-> v,
                manifest |-> versions[v].chunks, sent |-> <<>>])

\* The link is looked up before the write lock is taken.
BeginSharedUnlocked_mutant(r, l) ==
  /\ readers[r].pc = "idle"
  /\ links[l].state = "active"
  /\ links[l].count < links[l].limit
  /\ SetReader(r, [IdleReader EXCEPT !.pc = "counting", !.link = l, !.version = links[l].version])
  /\ UNCHANGED <<storageVars, links, offers>>

\* shared_download_manifest takes the write lock and looks at the row, whether
\* or not the file is in the trash...
BeginShared(r, l) ==
  /\ readers[r].pc = "idle"
  /\ Unlocked
  /\ links[l].state = "active"
  /\ links[l].count < links[l].limit
  /\ lock' = r
  /\ SetReader(r, [IdleReader EXCEPT !.pc = "counting", !.link = l, !.version = links[l].version])
  /\ UNCHANGED <<catalogVars, blobs, worker, links, offers>>

\* ... and then counts, lists the chunks and commits.
FinishShared(r) ==
  LET l == readers[r].link IN
  /\ readers[r].pc = "counting"
  /\ links' = [links EXCEPT ![l].count = @ + 1]
  /\ offers' = [offers EXCEPT ![l].used = @ + 1]
  /\ Stream(r, l, readers[r].version)
  /\ lock' = NoWorker
  /\ UNCHANGED <<catalogVars, blobs, worker>>

\* download_manifest and export_file find the head of a live file, or any
\* version of any file at the path, the trash included...
FindVersion(r, p) ==
  /\ readers[r].pc = "idle"
  /\ \E f \in LiveAt(p) \cup FilesAt(p, "trash"), v \in VersionId :
       /\ v \in VersionsOf(f)
       /\ SetReader(r, [IdleReader EXCEPT !.pc = "found", !.version = v])
  /\ UNCHANGED <<storageVars, links, offers>>

\* ... and read its chunks with a second query, outside any transaction.
ListChunks(r) ==
  /\ readers[r].pc = "found"
  /\ Stream(r, NoLink, readers[r].version)
  /\ UNCHANGED <<storageVars, links, offers>>

\* iter_manifest: the next chunk's file is read and sent.
StreamNext(r) ==
  LET n == Len(readers[r].sent) + 1 IN
  /\ readers[r].pc = "streaming"
  /\ n <= Len(readers[r].manifest)
  /\ readers[r].manifest[n] \in blobs
  /\ SetReader(r, [readers[r] EXCEPT !.sent = Append(@, readers[r].manifest[n])])
  /\ UNCHANGED <<storageVars, links, offers>>

\* A chunk's file is gone, the client hangs up, all has been sent, or the thread
\* dies: a transaction it is in the middle of rolls back.
ReaderStops(r) ==
  /\ readers[r].pc # "idle"
  /\ SetReader(r, IdleReader)
  /\ lock' = IF readers[r].pc = "counting" THEN NoWorker ELSE lock
  /\ UNCHANGED <<catalogVars, blobs, worker, links, offers>>

-----------------------------------------------------------------------------
(* The vault's own steps *)

\* Links outlive the versions they name.
NoCascade_mutant == UNCHANGED links

\* share_links.version_id ... ON DELETE CASCADE
Cascade ==
  links' = [l \in Link |->
              IF Exists(l) /\ versions'[links[l].version].status # "present"
              THEN NoLinkRow("gone") ELSE links[l]]

\* A thread serves one request: readers do nothing else to the vault.
VaultStep ==
  /\ StorageNext
  /\ \A r \in Reader : worker'[r] = worker[r]
  /\ Cascade
  /\ UNCHANGED <<readers, offers>>

ShareNext ==
  \/ VaultStep
  \/ \E l \in Link, p \in Path, n \in 1..MaxDownloads : CreateShareLink(l, p, n)
  \/ \E l \in Link : RevokeShareLink(l) \/ LinkLapses(l)
  \/ \E r \in Reader, l \in Link : BeginShared(r, l)
  \/ \E r \in Reader, p \in Path : FindVersion(r, p)
  \/ \E r \in Reader : FinishShared(r) \/ ListChunks(r) \/ StreamNext(r) \/ ReaderStops(r)

ShareSpec == ShareInit /\ [][ShareNext]_shareVars

\* Under the operating rule of VaultStorage: no import or upload is in flight
\* while a collector runs.  Downloads are under no rule.
QuietShareSpec == ShareInit /\ [][ShareNext /\ Quiet']_shareVars

-----------------------------------------------------------------------------
(* Properties *)

\* Links, readers and what was offered have their types, beside the vault's.
ShareTypeOK ==
  /\ StorageTypeOK
  /\ links \in [Link -> LinkRow]
  /\ readers \in [Reader -> ReaderRow]
  /\ offers \in [Link -> OfferRow]

\* A link serves what its path held when it was made, whatever was written,
\* moved, trashed, restored or collected since, and no link outlives its
\* version: what any reader has sent is the beginning of that content.
LinkPinned ==
  /\ \A l \in Link :
       Exists(l) => /\ links[l].version \in PresentVersions
                    /\ versions[links[l].version].chunks = offers[l].content
  /\ \A r \in Reader :
       /\ readers[r].pc = "streaming" /\ readers[r].link # NoLink =>
            readers[r].manifest = offers[readers[r].link].content
       /\ Len(readers[r].sent) <= Len(readers[r].manifest)
       /\ \A i \in DOMAIN readers[r].sent : readers[r].sent[i] = readers[r].manifest[i]

\* However many readers look at a link at once before any of them counts, it is
\* used no more often than its owner allowed: from the look at the row to the
\* count nobody else looks.
LimitKept == \A l \in Link : offers[l].used <= offers[l].limit

\* Only a purge can break a download off: as long as the version is in the
\* vault, even superseded or in the trash, the reader works from its whole
\* manifest and the file of every chunk of it is there, whatever is written,
\* moved, purged or collected meanwhile under the quiet rule.
OnlyPurgeBreaksDownloads ==
  \A r \in Reader :
    readers[r].pc = "streaming" /\ readers[r].version \in PresentVersions =>
      /\ readers[r].manifest = versions[readers[r].version].chunks
      /\ Range(readers[r].manifest) \subseteq blobs

\* Once a link has been revoked, has lapsed or went with its version, no download
\* by it is counted or begins, not even one that looked at the row before.  (A
\* rollback of the metadata, which may bring such a link back, is VaultBackups'.)
ClosedBeginsNothing ==
  [][\A l \in Link :
       links[l].state \in {"closed", "gone"} =>
         /\ offers'[l] = offers[l]
         /\ \A r \in Reader :
              readers'[r].link = l => readers[r].link = l /\ readers'[r].pc = readers[r].pc]_shareVars
=============================================================================
