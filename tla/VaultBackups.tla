---------------------------- MODULE VaultBackups ----------------------------
(***************************************************************************)
(* The vault's control directory .psn under its operators: disaster-backup *)
(* and disaster-restore, metadata-backup and metadata-restore, beside the  *)
(* commands and servers of ServiceRuntime.                                 *)
(*                                                                         *)
(* A vault's content is the set of chunks its metadata refers to and the   *)
(* set of chunks whose blobs it holds; imports, purges and collections     *)
(* change them as VaultStorage does when no write meets a collector: none  *)
(* starts between the put and the publication of a chunk, and no metadata  *)
(* are rolled back while one runs.                                         *)
(* Directories are set aside and never reused: Home is the set of them.    *)
(*                                                                         *)
(* Operating rule: a disaster-restore is started when server-stop has      *)
(* reported that no server runs, no state file is left and no backup,      *)
(* collector or metadata-restore is under way; nobody starts a server or a *)
(* command that writes until it has ended.  A metadata-restore is under no *)
(* such rule: one at a time, it runs beside all the others.                *)
(***************************************************************************)
EXTENDS ServiceRuntime

CONSTANT Chunk

VARIABLES vaults,    \* what each directory holds
          archive,   \* a disaster backup: the last one, or an earlier one kept
          maker,     \* disaster-backup
          restorer,  \* disaster-restore
          backups,   \* metadata backups: references they hold
          rollback,  \* metadata-restore
  collector, \* collect_garbage or collect_orphan_blobs: blobs it is yet to unlink
  dropped    \* history: chunks that lost their last reference

dataVars == <<vaults, archive, maker, restorer, backups, rollback, collector, dropped>>
backupVars == <<home, serviceVars, dataVars>>

Directory == [kind : {"none", "partial", "whole"}, refs : SUBSET Chunk,
              blobs : SUBSET Chunk]

NoDirectory == [kind |-> "none", refs |-> {}, blobs |-> {}]

\* released: history, the chunks that were missing from the vault when it was
\* begun and those that lost their references since.
Archive == [exists : BOOLEAN, refs : SUBSET Chunk, blobs : SUBSET Chunk, released : SUBSET Chunk]

NoArchive == [exists |-> FALSE, refs |-> {}, blobs |-> {}, released |-> {}]

MakerRow == [pc : {"idle", "snapshot", "adding"}, todo : SUBSET Chunk, made : Archive]

IdleMaker == [pc |-> "idle", todo |-> {}, made |-> NoArchive]

RestorerRow == [pc : {"idle", "extracted", "cleared", "copying"},
                from : Archive, safety : Home \cup {NoHome}]

IdleRestorer == [pc |-> "idle", from |-> NoArchive, safety |-> NoHome]

RollbackRow == [pc : {"idle", "saved"}, to : SUBSET Chunk]

IdleRollback == [pc |-> "idle", to |-> {}]

InPlace == home # NoHome /\ vaults[home].kind = "whole"

SetVault(row) == vaults' = [vaults EXCEPT ![home] = row]

BackupInit ==
  /\ ServiceInit
  /\ vaults = [h \in Home |-> IF h = home THEN [NoDirectory EXCEPT !.kind = "whole"]
                              ELSE NoDirectory]
  /\ archive = NoArchive
  /\ maker = IdleMaker
  /\ restorer = IdleRestorer
  /\ backups = {}
  /\ rollback = IdleRollback
  /\ collector = {}
  /\ dropped = {}

-----------------------------------------------------------------------------
(* The vault at work, in servers and commands *)

Works == InPlace /\ restorer.pc = "idle"

\* The vault in place refers to refs from now on; an archive being made
\* remembers what it has lost.
Refer(refs) ==
  LET lost == vaults[home].refs \ refs IN
  /\ SetVault([vaults[home] EXCEPT !.refs = refs])
  /\ maker' = IF maker.pc = "idle" THEN maker ELSE [maker EXCEPT !.made.released = @ \cup lost]
  /\ dropped' = dropped \cup lost
  /\ UNCHANGED <<serviceVars, home, archive, restorer, backups, collector>>

PutBlob(c) ==
  /\ Works /\ collector = {}
  /\ SetVault([vaults[home] EXCEPT !.blobs = @ \cup {c}])
  /\ UNCHANGED <<serviceVars, home, archive, maker, restorer, backups, rollback, collector, dropped>>

Publish(c) ==
  /\ Works /\ collector = {}
  /\ c \in vaults[home].blobs
  /\ Refer(vaults[home].refs \cup {c})
  /\ UNCHANGED rollback

\* A purge takes a chunk's last reference.
Release(c) ==
  /\ Works
  /\ c \in vaults[home].refs
  /\ Refer(vaults[home].refs \ {c})
  /\ UNCHANGED rollback

\* A collector lists what nothing refers to...
StartCollector(todo) ==
  /\ Works /\ collector = {} /\ rollback.pc = "idle"
  /\ todo # {} /\ todo \subseteq vaults[home].blobs \ vaults[home].refs
  /\ collector' = todo
  /\ UNCHANGED <<serviceVars, home, vaults, archive, maker, restorer, backups, rollback, dropped>>

\* ... and unlinks one after the other...
Unlink(c) ==
  /\ c \in collector
  /\ collector' = collector \ {c}
  /\ SetVault([vaults[home] EXCEPT !.blobs = @ \ {c}])
  /\ UNCHANGED <<serviceVars, home, archive, maker, restorer, backups, rollback, dropped>>

\* ... unless it dies before.
CollectorDies ==
  /\ collector # {}
  /\ collector' = {}
  /\ UNCHANGED <<serviceVars, home, vaults, archive, maker, restorer, backups, rollback, dropped>>

-----------------------------------------------------------------------------
(* disaster-backup, beside everything else *)

SetMaker(row) ==
  /\ maker' = row
  /\ UNCHANGED <<serviceVars, home, vaults, restorer, backups, rollback, collector, dropped>>

\* source.backup(snapshot)
Snapshot ==
  /\ maker.pc = "idle" /\ Works
  /\ SetMaker([pc |-> "snapshot", todo |-> {},
               made |-> [exists |-> TRUE, refs |-> vaults[home].refs, blobs |-> {},
                         released |-> vaults[home].refs \ vaults[home].blobs]])
  /\ UNCHANGED archive

\* _iter_backup_sources and the hashes; without master.key there is no archive.
ListBlobs ==
  /\ maker.pc = "snapshot" /\ InPlace
  /\ SetMaker([maker EXCEPT !.pc = "adding", !.todo = vaults[home].blobs])
  /\ UNCHANGED archive

AddBlob(c) ==
  /\ maker.pc = "adding" /\ InPlace
  /\ c \in maker.todo \cap vaults[home].blobs
  /\ SetMaker([maker EXCEPT !.todo = @ \ {c}, !.made.blobs = @ \cup {c}])
  /\ UNCHANGED archive

\* The archive appears at its place while it is being written.
FinishEarly_mutant ==
  /\ maker.pc = "adding"
  /\ archive' = maker.made
  /\ SetMaker(IdleMaker)

\* os.replace: the archive appears whole.
FinishArchive ==
  /\ maker.pc = "adding" /\ maker.todo = {}
  /\ archive' = maker.made
  /\ SetMaker(IdleMaker)

\* A listed file is gone, the disk is full, the process dies; or an archive is
\* made that nobody will restore.
NoArchiveMade ==
  /\ maker.pc # "idle"
  /\ SetMaker(IdleMaker)
  /\ UNCHANGED archive

-----------------------------------------------------------------------------
(* disaster-restore *)

SetRestorer(row) ==
  /\ restorer' = row
  /\ UNCHANGED <<serviceVars, archive, maker, backups, rollback, collector>>

\* The node is stopped as far as its operators can tell, and nobody starts it.
Alone ==
  /\ report /\ stateFile = NoProc
  /\ maker.pc = "idle" /\ rollback.pc = "idle" /\ collector = {}
  /\ \A p \in Proc : servers[p].pc \notin {"locked", "writing"}

\* _extract_and_verify, after the look for a vault in place that --force waives.
Extract ==
  /\ restorer.pc = "idle" /\ Alone
  /\ archive.exists
  /\ SetRestorer([IdleRestorer EXCEPT !.pc = "extracted", !.from = archive])
  /\ UNCHANGED <<home, vaults, dropped>>

\* The old directory is deleted to make room.
DeleteOld_mutant ==
  /\ restorer.pc = "extracted"
  /\ home' = NoHome
  /\ vaults' = IF home = NoHome THEN vaults ELSE [vaults EXCEPT ![home] = NoDirectory]
  /\ SetRestorer([restorer EXCEPT !.pc = "cleared"])
  /\ UNCHANGED dropped

SetAside ==
  /\ restorer.pc = "extracted"
  /\ home' = NoHome
  /\ SetRestorer([restorer EXCEPT !.pc = "cleared", !.safety = home])
  /\ UNCHANGED <<vaults, dropped>>

\* copytree makes the directory and goes through its files in any order.
BeginCopy ==
  /\ restorer.pc = "cleared"
  /\ \E h \in Home :
       /\ vaults[h].kind = "none"
       /\ home' = h
       /\ vaults' = [vaults EXCEPT ![h].kind = "partial"]
  /\ SetRestorer([restorer EXCEPT !.pc = "copying"])
  /\ UNCHANGED dropped

\* What the vaults set aside refer to and this one does not is dropped.
EndCopy ==
  /\ restorer.pc = "copying"
  /\ SetVault([kind |-> "whole", refs |-> restorer.from.refs, blobs |-> restorer.from.blobs])
  /\ dropped' = dropped \cup UNION {vaults[h].refs \ restorer.from.refs : h \in Home}
  /\ SetRestorer(IdleRestorer)
  /\ UNCHANGED home

\* copytree fails before it made the directory: the old one is moved back.
MoveBack ==
  /\ restorer.pc = "cleared"
  /\ home' = restorer.safety
  /\ SetRestorer(IdleRestorer)
  /\ UNCHANGED <<vaults, dropped>>

\* A bad archive, a full disk or the death of the command: all stays as it is.
RestoreDies ==
  /\ restorer.pc # "idle"
  /\ SetRestorer(IdleRestorer)
  /\ UNCHANGED <<home, vaults, dropped>>

-----------------------------------------------------------------------------
(* metadata-backup and metadata-restore *)

BackupMetadata ==
  /\ Works
  /\ backups' = backups \cup {vaults[home].refs}
  /\ UNCHANGED <<serviceVars, home, vaults, archive, maker, restorer, rollback, collector, dropped>>

\* restore_database saves what it finds, with no lock...
SaveMetadata(refs) ==
  /\ Works /\ rollback.pc = "idle" /\ collector = {}
  /\ refs \in backups
  /\ backups' = backups \cup {vaults[home].refs}
  /\ rollback' = [pc |-> "saved", to |-> refs]
  /\ UNCHANGED <<serviceVars, home, vaults, archive, maker, restorer, collector, dropped>>

\* ... and overwrites what there is by then.
OverwriteMetadata ==
  /\ rollback.pc = "saved"
  /\ Refer(rollback.to)
  /\ rollback' = IdleRollback

RollbackDies ==
  /\ rollback.pc = "saved"
  /\ rollback' = IdleRollback
  /\ UNCHANGED <<serviceVars, home, vaults, archive, maker, restorer, backups, collector, dropped>>

-----------------------------------------------------------------------------
Serve(p) == Works /\ AcquireLock(p) /\ UNCHANGED dataVars

Service == Aftermath /\ UNCHANGED dataVars

BackupNext ==
  \/ Service
  \/ \E p \in Proc : Serve(p)
  \/ \E c \in Chunk : PutBlob(c) \/ Publish(c) \/ Release(c) \/ Unlink(c) \/ AddBlob(c)
  \/ Snapshot \/ ListBlobs \/ FinishArchive \/ NoArchiveMade
  \/ Extract \/ SetAside \/ BeginCopy \/ EndCopy \/ MoveBack \/ RestoreDies
  \/ BackupMetadata \/ OverwriteMetadata \/ RollbackDies \/ CollectorDies
  \/ \E set \in SUBSET Chunk : SaveMetadata(set) \/ StartCollector(set)

BackupSpec == BackupInit /\ [][BackupNext]_backupVars

-----------------------------------------------------------------------------
(* Properties *)

BackupTypeOK ==
  /\ ServiceTypeOK
  /\ vaults \in [Home -> Directory]
  /\ archive \in Archive
  /\ maker \in MakerRow
  /\ restorer \in RestorerRow
  /\ backups \subseteq SUBSET Chunk
  /\ rollback \in RollbackRow
  /\ collector \subseteq Chunk
  /\ dropped \subseteq Chunk

\* An archive lacks no chunk its metadata refers to but those the vault lacked
\* when it was begun (after a rollback) and those purged, or rolled back from,
\* while it was being made: the snapshot is older than the blobs, whatever is
\* collected between the two.
ArchiveHonest == archive.exists => archive.refs \ archive.blobs \subseteq archive.released

\* A vault lacks no blob of a chunk it refers to but of one that had lost its
\* last reference before: through collections, metadata and disaster restores,
\* in any order and each cut short anywhere, only what was purged, or dropped
\* when older metadata came back, can be missing.
NothingMissing ==
  \A h \in Home : vaults[h].kind = "whole" => vaults[h].refs \ vaults[h].blobs \subseteq dropped

\* However often a restore is cut short and forced again, a whole vault is
\* still there: in place, or set aside by the restore that replaced it.
AVaultSurvives == \E h \in Home : vaults[h].kind = "whole"
=============================================================================
