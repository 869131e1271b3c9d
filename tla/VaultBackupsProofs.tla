------------------------- MODULE VaultBackupsProofs -------------------------
(***************************************************************************)
(* What VaultBackups promises for any number of servers, commands, backups *)
(* and restores.  BackupInv is inductive: beside the properties it says    *)
(* whose lock is whose, and what a backup, a collector or a restore on its  *)
(* way may rely on, and that whatever older metadata may bring back has    *)
(* been dropped or is referred to by the vault in place.                   *)
(***************************************************************************)
EXTENDS VaultBackups, TLAPS

\* The lock of a directory has one holder.
OneHolder ==
  \A p, q \in Proc :
    Running(p) /\ Running(q) /\ servers[p].dir = servers[q].dir => p = q

\* A server that still has its state, or is yet to write it, is the one of the
\* vault in place, which nobody restores.
StateOfHome ==
  \A p \in Proc :
    /\ servers[p].pc \in {"off", "locked", "writing"} => p \notin mislaid
    /\ p \in mislaid => stateFile # p
    /\ servers[p].pc \in {"locked", "writing", "serving"} /\ p \notin mislaid =>
         servers[p].dir = home /\ home # NoHome /\ restorer.pc = "idle"

\* While a backup is made no chunk of its snapshot is forgotten.
MakerHonest ==
  maker.pc # "idle" =>
    /\ InPlace
    /\ maker.made.refs \subseteq vaults[home].refs \cup maker.made.released
    /\ maker.pc = "snapshot" => maker.made.refs \subseteq vaults[home].blobs \cup maker.made.released
    /\ maker.pc = "adding" =>
         maker.made.refs \subseteq maker.todo \cup maker.made.blobs \cup maker.made.released

\* A restore is alone, a rollback meets no collector, and a collector is after
\* what nothing refers to.
OneAtATime ==
  /\ restorer.pc # "idle" => maker.pc = "idle" /\ rollback.pc = "idle" /\ collector = {}
  /\ restorer.pc = "copying" => home # NoHome
  /\ rollback.pc = "saved" => InPlace /\ collector = {} /\ rollback.to \in backups
  /\ collector # {} => InPlace /\ collector \cap vaults[home].refs = {}

\* What any backup or vault refers to, the vault at h does too, or it was dropped.
Covers(h) ==
  /\ \A b \in backups : b \subseteq dropped \cup vaults[h].refs
  /\ \A g \in Home : vaults[g].refs \subseteq dropped \cup vaults[h].refs

NothingForgotten ==
  /\ \A b \in backups, c \in Chunk :
       c \in b => c \in dropped \/ \E h \in Home : c \in vaults[h].refs
  /\ InPlace => Covers(home)
  /\ restorer.pc = "cleared" /\ restorer.safety \in {h \in Home : vaults[h].kind = "whole"} =>
       Covers(restorer.safety)

\* What an archive lacks was dropped.
DroppedKnown ==
  /\ archive.released \subseteq dropped
  /\ maker.made.released \subseteq dropped
  /\ restorer.from.refs \ restorer.from.blobs \subseteq dropped

DataInv ==
  /\ MakerHonest /\ OneAtATime /\ NothingForgotten /\ DroppedKnown
  /\ ArchiveHonest /\ NothingMissing /\ AVaultSurvives

BackupInv ==
  /\ BackupTypeOK
  /\ OneHolder /\ StateOfHome /\ StateNamesServer
  /\ DataInv

-----------------------------------------------------------------------------
(* Types *)

LEMMA BackupInitInv == BackupInit => BackupInv
<1> SUFFICES ASSUME BackupInit PROVE BackupInv
  OBVIOUS
<1> USE ServiceAssumption DEF BackupInit, ServiceInit
<1>1. BackupTypeOK
  BY DEF BackupTypeOK, ServiceTypeOK, ServerRow, CommandRow, IdleCommand, Directory, NoDirectory,
     Archive, NoArchive, MakerRow, IdleMaker, RestorerRow, IdleRestorer, RollbackRow, IdleRollback
<1>2. OneHolder /\ StateOfHome /\ StateNamesServer
  BY DEF OneHolder, StateOfHome, StateNamesServer, Running, IdleCommand, IdleRestorer
<1>3. MakerHonest /\ OneAtATime
  BY DEF MakerHonest, OneAtATime, IdleMaker, IdleRestorer, IdleRollback
<1>4. \A h \in Home : vaults[h].refs = {} /\ vaults[h].blobs = {}
  BY DEF NoDirectory
<1>5. NothingForgotten
  BY <1>4 DEF NothingForgotten, Covers, InPlace, IdleRestorer
<1>6. DroppedKnown /\ ArchiveHonest
  BY DEF DroppedKnown, ArchiveHonest, NoArchive, IdleMaker, IdleRestorer
<1>7. NothingMissing /\ AVaultSurvives
  BY <1>4 DEF NothingMissing, AVaultSurvives, NoDirectory
<1>8. QED
  BY <1>1, <1>2, <1>3, <1>5, <1>6, <1>7 DEF BackupInv, DataInv

\* The service's steps change rows by their own columns.
LEMMA ServiceTyped ==
  ASSUME ServiceTypeOK, Aftermath \/ \E p \in Proc : AcquireLock(p)
  PROVE  ServiceTypeOK'
<1> USE ServiceAssumption DEF ServiceTypeOK
<1>1. ASSUME NEW p \in Proc, NEW pc \in {"writing", "serving", "leaving", "dead"},
             servers' = [servers EXCEPT ![p].pc = pc]
      PROVE  servers' \in [Proc -> ServerRow]
  BY <1>1 DEF ServerRow
<1>2. ASSUME NEW c \in Command, SetCommand(c, IdleCommand)
      PROVE  commands' \in [Command -> CommandRow]
  BY <1>2 DEF SetCommand, CommandRow
<1>3. ASSUME NEW p \in Proc, AcquireLock(p) PROVE ServiceTypeOK'
  <2>1. servers' \in [Proc -> ServerRow]
    BY <1>3 DEF AcquireLock, ServerRow
  <2>2. QED
    BY <1>3, <2>1 DEF AcquireLock
<1>4. ASSUME NEW p \in Proc, OpenState(p) PROVE ServiceTypeOK'
  BY <1>1, <1>4 DEF OpenState
<1>5. ASSUME NEW p \in Proc, WriteState(p) PROVE ServiceTypeOK'
  BY <1>1, <1>5 DEF WriteState
<1>6. ASSUME NEW p \in Proc, RemoveState(p) PROVE ServiceTypeOK'
  BY <1>1, <1>6 DEF RemoveState
<1>7. ASSUME NEW p \in Proc, ReleaseLock(p) \/ Dies(p) PROVE ServiceTypeOK'
  BY <1>1, <1>7 DEF ReleaseLock, Dies
<1>8. ASSUME NEW c \in Command, ReadState(c, "cleanup") \/ ReadState(c, "stop") PROVE ServiceTypeOK'
  <2>1. commands' \in [Command -> CommandRow]
    BY <1>8 DEF ReadState, SetCommand, CommandRow
  <2>2. QED
    BY <1>8, <2>1 DEF ReadState
<1>9. ASSUME NEW c \in Command, FindNone(c) PROVE ServiceTypeOK'
  BY <1>9 DEF FindNone
<1>10. ASSUME NEW c \in Command, FindRunning(c) \/ Signal(c) PROVE ServiceTypeOK'
  <2>1. PICK pc \in {"found", "polling"} : SetCommand(c, [commands[c] EXCEPT !.pc = pc])
    BY <1>10, Zenon DEF FindRunning, Signal
  <2>2. [commands[c] EXCEPT !.pc = pc] \in CommandRow
    BY <1>10 DEF FindRunning, Signal, CommandRow, IdleCommand
  <2>3. commands' \in [Command -> CommandRow]
    BY <2>1, <2>2, Zenon DEF SetCommand
  <2>4. QED
    BY <1>10, <2>3 DEF FindRunning, Signal
<1>11. ASSUME NEW c \in Command, RemoveStale(c) PROVE ServiceTypeOK'
  BY <1>2, <1>11 DEF RemoveStale
<1>12. ASSUME NEW c \in Command, GiveUp(c) \/ SignalFails(c) PROVE ServiceTypeOK'
  BY <1>2, <1>12 DEF GiveUp, SignalFails
<1>13. QED
  BY <1>3, <1>4, <1>5, <1>6, <1>7, <1>8, <1>9, <1>10, <1>11, <1>12 DEF Aftermath, CommandStep

-----------------------------------------------------------------------------
(* Servers and their state file *)

\* A server that goes on keeps its lock's directory; the others stand still.
LEMMA ServerPc ==
  ASSUME ServiceTypeOK, NEW p \in Proc, NEW pc, servers' = [servers EXCEPT ![p].pc = pc]
  PROVE  /\ servers'[p].pc = pc /\ servers'[p].dir = servers[p].dir
         /\ \A q \in Proc : q # p => servers'[q] = servers[q]
  BY DEF ServiceTypeOK, ServerRow

ServiceInv == ServiceTypeOK /\ OneHolder /\ StateOfHome /\ StateNamesServer

\* Commands aim at processes that have come up.
LEMMA ServiceKept ==
  ASSUME ServiceInv, UNCHANGED <<home, restorer>>,
         Aftermath \/ \E p \in Proc : restorer.pc = "idle" /\ AcquireLock(p)
  PROVE  OneHolder' /\ StateOfHome' /\ StateNamesServer'
<1>0. ServiceTypeOK /\ OneHolder /\ StateOfHome /\ StateNamesServer
  BY DEF ServiceInv
<1> USE ServiceAssumption
<1>1. ASSUME NEW p \in Proc, restorer.pc = "idle", AcquireLock(p)
      PROVE  OneHolder' /\ StateOfHome' /\ StateNamesServer'
  <2>1. /\ servers[p].pc = "off" /\ home # NoHome
        /\ servers'[p] = [pc |-> "locked", dir |-> home]
        /\ \A q \in Proc : q # p => servers'[q] = servers[q]
        /\ \A q \in Proc : ~(Running(q) /\ servers[q].dir = home)
        /\ UNCHANGED <<home, stateFile, commands, mislaid, restorer>>
    BY <1>0, <1>1 DEF AcquireLock, ServiceTypeOK
  <2>2. OneHolder'
    BY <1>0, <2>1 DEF OneHolder, Running
  <2>3. StateOfHome'
    BY <1>0, <1>1, <2>1 DEF StateOfHome
  <2>4. StateNamesServer'
    BY <1>0, <2>1 DEF StateNamesServer
  <2>5. QED
    BY <2>2, <2>3, <2>4
<1>2. ASSUME NEW p \in Proc, NEW pc, servers' = [servers EXCEPT ![p].pc = pc], Running(p)
      PROVE  OneHolder'
  <2>1. /\ servers'[p].dir = servers[p].dir
        /\ \A q \in Proc : q # p => servers'[q] = servers[q]
    BY <1>0, <1>2, ServerPc
  <2>2. QED
    BY <1>0, <1>2, <2>1 DEF OneHolder, Running
<1>3. ASSUME NEW p \in Proc, OpenState(p)
      PROVE  OneHolder' /\ StateOfHome' /\ StateNamesServer'
  <2>1. /\ servers[p].pc = "locked"
        /\ servers'[p].pc = "writing" /\ servers'[p].dir = servers[p].dir
        /\ \A q \in Proc : q # p => servers'[q] = servers[q]
        /\ stateFile' = Torn
        /\ UNCHANGED <<home, commands, mislaid, restorer>>
    BY <1>0, <1>3, ServerPc DEF OpenState
  <2>2. OneHolder'
    BY <1>2, <1>3, <2>1 DEF OpenState, Running
  <2>3. StateOfHome'
    BY <1>0, <2>1 DEF StateOfHome
  <2>4. \A q \in Proc : servers[q].pc = "serving" => q \in mislaid
    BY <1>0, <2>1 DEF StateOfHome, OneHolder, Running
  <2>5. StateNamesServer'
    BY <1>0, <2>1, <2>4 DEF StateNamesServer
  <2>6. QED
    BY <2>2, <2>3, <2>5
<1>4. ASSUME NEW p \in Proc, WriteState(p)
      PROVE  OneHolder' /\ StateOfHome' /\ StateNamesServer'
  <2>1. /\ servers[p].pc = "writing"
        /\ servers'[p].pc = "serving" /\ servers'[p].dir = servers[p].dir
        /\ \A q \in Proc : q # p => servers'[q] = servers[q]
        /\ UNCHANGED <<home, commands, restorer>>
        /\ \/ stateFile = Torn /\ stateFile' = p /\ mislaid' = mislaid
           \/ stateFile # Torn /\ stateFile' = stateFile /\ mislaid' = mislaid \cup {p}
    BY <1>0, <1>4, ServerPc DEF WriteState
  <2>2. OneHolder'
    BY <1>2, <1>4, <2>1 DEF WriteState, Running
  <2>3. p \notin mislaid /\ stateFile # p
    BY <1>0, <2>1 DEF StateOfHome, StateNamesServer
  <2>4. StateOfHome'
    BY <1>0, <2>1, <2>3 DEF StateOfHome
  <2>5. \A q \in Proc : servers[q].pc = "serving" => q \in mislaid \/ stateFile = q
    BY <1>0 DEF StateNamesServer
  <2>6. StateNamesServer'
    BY <1>0, <2>1, <2>5 DEF StateNamesServer
  <2>7. QED
    BY <2>2, <2>4, <2>6
<1>5. ASSUME NEW p \in Proc, RemoveState(p)
      PROVE  OneHolder' /\ StateOfHome' /\ StateNamesServer'
  <2>1. /\ servers[p].pc = "serving"
        /\ servers'[p].pc = "leaving" /\ servers'[p].dir = servers[p].dir
        /\ \A q \in Proc : q # p => servers'[q] = servers[q]
        /\ stateFile' = NoProc
        /\ mislaid' = mislaid \cup (({stateFile} \cap Proc) \ {p})
        /\ UNCHANGED <<home, commands, restorer>>
    BY <1>0, <1>5, ServerPc DEF RemoveState
  <2>2. OneHolder'
    BY <1>2, <1>5, <2>1 DEF RemoveState, Running
  <2>3. StateOfHome'
    BY <1>0, <2>1 DEF StateOfHome, StateNamesServer
  <2>4. StateNamesServer'
    BY <1>0, <2>1 DEF StateNamesServer
  <2>5. QED
    BY <2>2, <2>3, <2>4
<1>6. ASSUME NEW p \in Proc, ReleaseLock(p) \/ Dies(p)
      PROVE  OneHolder' /\ StateOfHome' /\ StateNamesServer'
  <2>1. /\ servers' = [servers EXCEPT ![p].pc = "dead"] /\ Running(p)
        /\ UNCHANGED <<home, stateFile, commands, mislaid, restorer>>
    BY <1>6 DEF ReleaseLock, Dies, Running
  <2>2. /\ servers'[p].pc = "dead" /\ servers'[p].dir = servers[p].dir
        /\ \A q \in Proc : q # p => servers'[q] = servers[q]
    BY <1>0, <2>1, ServerPc
  <2>3. OneHolder'
    BY <1>2, <2>1
  <2>4. StateOfHome'
    BY <1>0, <2>1, <2>2 DEF StateOfHome
  <2>5. StateNamesServer'
    BY <1>0, <2>1, <2>2 DEF StateNamesServer
  <2>6. QED
    BY <2>3, <2>4, <2>5
\* Commands leave the servers alone, and aim at nobody new...
<1>7. ASSUME NEW c \in Command, NEW row, SetCommand(c, row),
             row.pid \in {stateFile, NoProc, commands[c].pid},
             UNCHANGED <<servers, stateFile, mislaid>>
      PROVE  OneHolder' /\ StateOfHome' /\ StateNamesServer'
  <2>1. /\ commands'[c].pid \in {stateFile, NoProc, commands[c].pid}
        /\ \A b \in Command : b # c => commands'[b] = commands[b]
    BY <1>0, <1>7 DEF SetCommand, ServiceTypeOK
  <2>2. StateNamesServer'
    BY <1>0, <1>7, <2>1 DEF StateNamesServer
  <2>3. QED
    BY <1>0, <1>7, <2>2 DEF OneHolder, Running, StateOfHome
<1>8. ASSUME NEW c \in Command, ReadState(c, "cleanup") \/ ReadState(c, "stop")
      PROVE  OneHolder' /\ StateOfHome' /\ StateNamesServer'
  BY <1>7, <1>8 DEF ReadState
<1>9. ASSUME NEW c \in Command, FindNone(c)
      PROVE  OneHolder' /\ StateOfHome' /\ StateNamesServer'
  BY <1>0, <1>9 DEF FindNone, OneHolder, Running, StateOfHome, StateNamesServer
<1>10. ASSUME NEW c \in Command, FindRunning(c) \/ Signal(c)
       PROVE  OneHolder' /\ StateOfHome' /\ StateNamesServer'
  <2>1. PICK pc \in {"found", "polling"} : SetCommand(c, [commands[c] EXCEPT !.pc = pc])
    BY <1>10, Zenon DEF FindRunning, Signal
  <2>2. [commands[c] EXCEPT !.pc = pc].pid = commands[c].pid
    BY <1>0 DEF ServiceTypeOK, CommandRow, IdleCommand
  <2>3. UNCHANGED <<home, servers, stateFile, mislaid>>
    BY <1>10 DEF FindRunning, Signal
  <2>4. QED
    BY <1>7, <2>1, <2>2, <2>3, Zenon
<1>11. ASSUME NEW c \in Command, GiveUp(c) \/ SignalFails(c)
       PROVE  OneHolder' /\ StateOfHome' /\ StateNamesServer'
  <2>1. IdleCommand.pid = NoProc
    BY DEF IdleCommand
  <2>2. QED
    BY <1>7, <1>11, <2>1, Zenon DEF GiveUp, SignalFails
\* ... but take the state of a server they did not look at.
<1>12. ASSUME NEW c \in Command, RemoveStale(c)
       PROVE  OneHolder' /\ StateOfHome' /\ StateNamesServer'
  <2>1. /\ ~Running(commands[c].pid)
        /\ stateFile' = NoProc
        /\ mislaid' = mislaid \cup (({stateFile} \cap Proc) \ {commands[c].pid})
        /\ UNCHANGED <<home, servers, restorer>>
    BY <1>12 DEF RemoveStale
  <2>2. /\ commands'[c].pid = NoProc
        /\ \A b \in Command : b # c => commands'[b] = commands[b]
    BY <1>0, <1>12 DEF RemoveStale, SetCommand, ServiceTypeOK, IdleCommand
  <2>3. OneHolder'
    BY <1>0, <2>1 DEF OneHolder, Running
  <2>4. StateOfHome'
    BY <1>0, <2>1 DEF StateOfHome, StateNamesServer
  <2>5. StateNamesServer'
    BY <1>0, <2>1, <2>2 DEF StateNamesServer, Running
  <2>6. QED
    BY <2>3, <2>4, <2>5
<1>13. QED
  BY <1>1, <1>3, <1>4, <1>5, <1>6, <1>8, <1>9, <1>10, <1>11, <1>12 DEF Aftermath, CommandStep

-----------------------------------------------------------------------------
(* Types of backups and restores *)

LEMMA DirectorySet ==
  ASSUME BackupTypeOK, NEW row \in Directory, SetVault(row)
  PROVE  /\ vaults' \in [Home -> Directory]
         /\ home # NoHome => vaults'[home] = row
         /\ \A h \in Home : h # home => vaults'[h] = vaults[h]
  BY DEF BackupTypeOK, ServiceTypeOK, SetVault

LEMMA VaultWorks ==
  ASSUME BackupTypeOK, home # NoHome
  PROVE  home \in Home /\ vaults[home] \in Directory
  BY DEF BackupTypeOK, ServiceTypeOK

\* What a change of references does: to the vault, to the archive being made
\* and to the history.
LEMMA ReferDoes ==
  ASSUME BackupTypeOK, home # NoHome, NEW refs \in SUBSET Chunk, Refer(refs)
  PROVE  /\ vaults' \in [Home -> Directory] /\ maker' \in MakerRow /\ dropped' \subseteq Chunk
         /\ vaults'[home].refs = refs
         /\ vaults'[home].kind = vaults[home].kind /\ vaults'[home].blobs = vaults[home].blobs
         /\ \A h \in Home : h # home => vaults'[h] = vaults[h]
         /\ dropped' = dropped \cup (vaults[home].refs \ refs)
         /\ maker'.pc = maker.pc /\ maker'.todo = maker.todo
         /\ maker'.made.refs = maker.made.refs /\ maker'.made.blobs = maker.made.blobs
         /\ maker'.made.released =
              IF maker.pc = "idle" THEN maker.made.released
              ELSE maker.made.released \cup (vaults[home].refs \ refs)
         /\ UNCHANGED <<serviceVars, home, archive, restorer, backups, collector>>
<1> DEFINE row == [vaults[home] EXCEPT !.refs = refs]
           lost == vaults[home].refs \ refs
<1>1. vaults[home] \in Directory
  BY VaultWorks
<1>2. /\ row \in Directory /\ row.refs = refs
      /\ row.kind = vaults[home].kind /\ row.blobs = vaults[home].blobs
  BY <1>1 DEF Directory
<1>3. SetVault(row)
  BY DEF Refer
<1>4. /\ vaults' \in [Home -> Directory] /\ vaults'[home] = row
      /\ \A h \in Home : h # home => vaults'[h] = vaults[h]
  BY <1>2, <1>3, DirectorySet
<1>5. maker \in MakerRow /\ lost \subseteq Chunk
  BY <1>1 DEF BackupTypeOK, Directory
<1>6. CASE maker.pc = "idle"
  <2>1. maker' = maker /\ dropped' = dropped \cup lost
    BY <1>6 DEF Refer
  <2>2. QED
    BY <1>2, <1>4, <1>5, <1>6, <2>1 DEF Refer, BackupTypeOK
<1>7. CASE maker.pc # "idle"
  <2>1. maker' = [maker EXCEPT !.made.released = @ \cup lost] /\ dropped' = dropped \cup lost
    BY <1>7 DEF Refer
  <2>2. /\ maker' \in MakerRow /\ maker'.pc = maker.pc /\ maker'.todo = maker.todo
        /\ maker'.made.refs = maker.made.refs /\ maker'.made.blobs = maker.made.blobs
        /\ maker'.made.released = maker.made.released \cup lost
    BY <1>5, <2>1 DEF MakerRow, Archive
  <2>3. QED
    BY <1>2, <1>4, <1>5, <1>7, <2>1, <2>2 DEF Refer, BackupTypeOK
<1>8. QED
  BY <1>6, <1>7

\* What a blob put or unlinked does.
LEMMA BlobsDo ==
  ASSUME BackupTypeOK, home # NoHome, NEW c \in Chunk, PutBlob(c) \/ Unlink(c)
  PROVE  /\ vaults' \in [Home -> Directory]
         /\ vaults'[home].refs = vaults[home].refs /\ vaults'[home].kind = vaults[home].kind
         /\ PutBlob(c) => vaults'[home].blobs = vaults[home].blobs \cup {c}
         /\ Unlink(c) => vaults'[home].blobs = vaults[home].blobs \ {c}
         /\ \A h \in Home : h # home => vaults'[h] = vaults[h]
<1>1. vaults[home] \in Directory
  BY VaultWorks
<1>2. CASE PutBlob(c)
  <2> DEFINE row == [vaults[home] EXCEPT !.blobs = @ \cup {c}]
  <2>1. /\ row \in Directory /\ row.refs = vaults[home].refs /\ row.kind = vaults[home].kind
        /\ row.blobs = vaults[home].blobs \cup {c}
    BY <1>1 DEF Directory
  <2>2. SetVault(row)
    BY <1>2 DEF PutBlob
  <2>3. /\ vaults' \in [Home -> Directory] /\ vaults'[home] = row
        /\ \A h \in Home : h # home => vaults'[h] = vaults[h]
    BY <2>1, <2>2, DirectorySet
  <2>4. Unlink(c) => vaults'[home].blobs = vaults[home].blobs \ {c}
    BY <1>2 DEF PutBlob, Unlink
  <2>5. QED
    BY <2>1, <2>3, <2>4
<1>3. CASE Unlink(c)
  <2> DEFINE row == [vaults[home] EXCEPT !.blobs = @ \ {c}]
  <2>1. /\ row \in Directory /\ row.refs = vaults[home].refs /\ row.kind = vaults[home].kind
        /\ row.blobs = vaults[home].blobs \ {c}
    BY <1>1 DEF Directory
  <2>2. SetVault(row)
    BY <1>3 DEF Unlink
  <2>3. /\ vaults' \in [Home -> Directory] /\ vaults'[home] = row
        /\ \A h \in Home : h # home => vaults'[h] = vaults[h]
    BY <2>1, <2>2, DirectorySet
  <2>4. ~PutBlob(c)
    BY <1>3 DEF PutBlob, Unlink
  <2>5. QED
    BY <2>1, <2>3, <2>4
<1>4. QED
  BY <1>2, <1>3

\* A restore's row, column by column.
LEMMA RestorerDoes ==
  ASSUME BackupTypeOK
  PROVE  /\ IdleRestorer \in RestorerRow
         /\ \A pc \in {"extracted", "cleared", "copying"} :
              /\ [restorer EXCEPT !.pc = pc] \in RestorerRow
              /\ [restorer EXCEPT !.pc = pc].pc = pc
              /\ [restorer EXCEPT !.pc = pc].from = restorer.from
         /\ [IdleRestorer EXCEPT !.pc = "extracted", !.from = archive] \in RestorerRow
         /\ [restorer EXCEPT !.pc = "cleared", !.safety = home] \in RestorerRow
         /\ [restorer EXCEPT !.pc = "cleared", !.safety = home].safety = home
         /\ [restorer EXCEPT !.pc = "cleared", !.safety = home].from = restorer.from
<1>1. IdleRestorer \in RestorerRow /\ restorer \in RestorerRow /\ archive \in Archive
      /\ home \in Home \cup {NoHome}
  BY DEF BackupTypeOK, ServiceTypeOK, IdleRestorer, RestorerRow, NoArchive, Archive
<1>2. QED
  BY <1>1 DEF RestorerRow, IdleRestorer

LEMMA BackupTyped ==
  ASSUME BackupTypeOK, OneAtATime, MakerHonest, BackupNext
  PROVE  BackupTypeOK'
<1> USE ServiceAssumption
<1>0. /\ ServiceTypeOK /\ home \in Home \cup {NoHome} /\ vaults \in [Home -> Directory]
      /\ archive \in Archive /\ maker \in MakerRow /\ restorer \in RestorerRow
      /\ backups \subseteq SUBSET Chunk /\ rollback \in RollbackRow
      /\ collector \subseteq Chunk /\ dropped \subseteq Chunk
  BY DEF BackupTypeOK, ServiceTypeOK
<1>1. ASSUME home' \in Home \cup {NoHome}, UNCHANGED serviceVars PROVE ServiceTypeOK'
  BY <1>0, <1>1 DEF ServiceTypeOK, serviceVars
<1>2. Works => home # NoHome
  BY DEF Works, InPlace
<1>3. ASSUME Service \/ \E p \in Proc : Serve(p) PROVE BackupTypeOK'
  <2>1. ServiceTypeOK' /\ UNCHANGED dataVars
    BY <1>0, <1>3, ServiceTyped DEF Service, Serve
  <2>2. QED
    BY <1>0, <2>1 DEF BackupTypeOK, dataVars
<1>4. ASSUME NEW c \in Chunk, PutBlob(c) \/ Unlink(c) PROVE BackupTypeOK'
  <2>1. home # NoHome
    BY <1>2, <1>4 DEF PutBlob, Unlink, OneAtATime, InPlace
  <2>2. vaults' \in [Home -> Directory]
    BY <1>4, <2>1, BlobsDo
  <2>3. UNCHANGED <<serviceVars, home, archive, maker, restorer, backups, rollback, dropped>>
        /\ collector' \subseteq Chunk
    BY <1>0, <1>4 DEF PutBlob, Unlink
  <2>4. QED
    BY <1>0, <1>1, <2>2, <2>3 DEF BackupTypeOK
<1>5. ASSUME NEW refs \in SUBSET Chunk, home # NoHome, Refer(refs), rollback' \in RollbackRow
      PROVE  BackupTypeOK'
  <2>1. /\ vaults' \in [Home -> Directory] /\ maker' \in MakerRow /\ dropped' \subseteq Chunk
        /\ UNCHANGED <<serviceVars, home, archive, restorer, backups, collector>>
    BY <1>5, ReferDoes
  <2>2. QED
    BY <1>0, <1>1, <1>5, <2>1 DEF BackupTypeOK
<1>6. ASSUME NEW c \in Chunk, Publish(c) \/ Release(c) PROVE BackupTypeOK'
  <2>1. home # NoHome
    BY <1>2, <1>6 DEF Publish, Release
  <2>2. vaults[home].refs \subseteq Chunk
    BY <2>1, VaultWorks DEF Directory
  <2>3. QED
    BY <1>0, <1>5, <1>6, <2>1, <2>2 DEF Publish, Release
<1>7. ASSUME NEW row \in MakerRow, SetMaker(row), archive' \in Archive PROVE BackupTypeOK'
  BY <1>0, <1>1, <1>7 DEF SetMaker, BackupTypeOK
<1>8. ASSUME Snapshot PROVE BackupTypeOK'
  <2>1. vaults[home] \in Directory
    BY <1>2, <1>8, VaultWorks DEF Snapshot
  <2>2. [pc |-> "snapshot", todo |-> {},
         made |-> [exists |-> TRUE, refs |-> vaults[home].refs, blobs |-> {},
                   released |-> vaults[home].refs \ vaults[home].blobs]] \in MakerRow
    BY <2>1 DEF MakerRow, Archive, Directory
  <2>3. QED
    BY <1>0, <1>7, <1>8, <2>2 DEF Snapshot
<1>9. ASSUME ListBlobs PROVE BackupTypeOK'
  <2>1. vaults[home] \in Directory
    BY <1>9, VaultWorks DEF ListBlobs, InPlace
  <2>2. [maker EXCEPT !.pc = "adding", !.todo = vaults[home].blobs] \in MakerRow
    BY <1>0, <2>1 DEF MakerRow, Archive, Directory
  <2>3. QED
    BY <1>0, <1>7, <1>9, <2>2 DEF ListBlobs
<1>10. ASSUME NEW c \in Chunk, AddBlob(c) PROVE BackupTypeOK'
  <2>1. [maker EXCEPT !.todo = @ \ {c}, !.made.blobs = @ \cup {c}] \in MakerRow
    BY <1>0 DEF MakerRow, Archive
  <2>2. QED
    BY <1>0, <1>7, <1>10, <2>1 DEF AddBlob
<1>11. ASSUME FinishArchive \/ NoArchiveMade PROVE BackupTypeOK'
  <2>1. IdleMaker \in MakerRow /\ maker.made \in Archive
    BY <1>0 DEF IdleMaker, MakerRow, NoArchive, Archive
  <2>2. QED
    BY <1>0, <1>7, <1>11, <2>1 DEF FinishArchive, NoArchiveMade
<1>12. ASSUME NEW row \in RestorerRow, SetRestorer(row), home' \in Home \cup {NoHome},
              vaults' \in [Home -> Directory], dropped' \subseteq Chunk
       PROVE  BackupTypeOK'
  BY <1>0, <1>1, <1>12 DEF SetRestorer, BackupTypeOK, serviceVars
<1>13. ASSUME Extract \/ SetAside PROVE BackupTypeOK'
  BY <1>0, <1>12, <1>13, RestorerDoes DEF Extract, SetAside
<1>14. ASSUME BeginCopy PROVE BackupTypeOK'
  <2>1. PICK h \in Home : home' = h /\ vaults' = [vaults EXCEPT ![h].kind = "partial"]
    BY <1>14 DEF BeginCopy
  <2>2. vaults' \in [Home -> Directory]
    BY <1>0, <2>1 DEF Directory
  <2>3. QED
    BY <1>0, <1>12, <1>14, <2>1, <2>2, RestorerDoes DEF BeginCopy
<1>15. ASSUME EndCopy PROVE BackupTypeOK'
  <2>1. [kind |-> "whole", refs |-> restorer.from.refs, blobs |-> restorer.from.blobs] \in Directory
    BY <1>0 DEF Directory, RestorerRow, Archive
  <2>2. vaults' \in [Home -> Directory]
    BY <1>15, <2>1, DirectorySet DEF EndCopy
  <2>3. UNION {vaults[h].refs \ restorer.from.refs : h \in Home} \subseteq Chunk
    BY <1>0 DEF Directory
  <2>4. QED
    BY <1>0, <1>12, <1>15, <2>2, <2>3, RestorerDoes DEF EndCopy
<1>16. ASSUME MoveBack \/ RestoreDies PROVE BackupTypeOK'
  <2>1. restorer.safety \in Home \cup {NoHome}
    BY <1>0 DEF RestorerRow
  <2>2. QED
    BY <1>0, <1>12, <1>16, <2>1, RestorerDoes DEF MoveBack, RestoreDies
<1>17. ASSUME BackupMetadata \/ \E refs \in SUBSET Chunk : SaveMetadata(refs) PROVE BackupTypeOK'
  <2>1. vaults[home].refs \subseteq Chunk
    BY <1>2, <1>17, VaultWorks DEF BackupMetadata, SaveMetadata, Directory
  <2>2. UNCHANGED <<serviceVars, home, vaults, archive, maker, restorer, collector, dropped>>
        /\ backups' \subseteq SUBSET Chunk /\ rollback' \in RollbackRow
    BY <1>0, <1>17, <2>1 DEF BackupMetadata, SaveMetadata, RollbackRow
  <2>3. QED
    BY <1>0, <1>1, <2>2 DEF BackupTypeOK
<1>18. ASSUME OverwriteMetadata PROVE BackupTypeOK'
  <2>1. home # NoHome /\ rollback.to \in SUBSET Chunk
    BY <1>0, <1>18 DEF OverwriteMetadata, OneAtATime, InPlace, RollbackRow
  <2>2. rollback' \in RollbackRow
    BY <1>18 DEF OverwriteMetadata, RollbackRow, IdleRollback
  <2>3. QED
    BY <1>5, <1>18, <2>1, <2>2 DEF OverwriteMetadata
<1>19. ASSUME RollbackDies \/ CollectorDies \/ \E set \in SUBSET Chunk : StartCollector(set)
       PROVE  BackupTypeOK'
  <2>1. UNCHANGED <<serviceVars, home, vaults, archive, maker, restorer, backups, dropped>>
        /\ collector' \subseteq Chunk /\ rollback' \in RollbackRow
    BY <1>0, <1>19 DEF RollbackDies, CollectorDies, StartCollector, RollbackRow, IdleRollback
  <2>2. QED
    BY <1>0, <1>1, <2>1 DEF BackupTypeOK
<1>20. QED
  BY <1>3, <1>4, <1>6, <1>8, <1>9, <1>10, <1>11, <1>13, <1>14, <1>15, <1>16, <1>17, <1>18, <1>19
     DEF BackupNext

-----------------------------------------------------------------------------
(* What a step leaves alone *)

\* Once a restore is on its way no server that has its state is left, so the
\* restore may move the vault.
LEMMA HomeMoves ==
  ASSUME BackupInv, UNCHANGED serviceVars,
         restorer.pc # "idle" \/ (restorer'.pc = "idle" /\ home' = home) \/ Alone
  PROVE  OneHolder' /\ StateOfHome' /\ StateNamesServer'
<1> USE ServiceAssumption DEF BackupInv, serviceVars
<1>1. OneHolder' /\ StateNamesServer'
  BY DEF OneHolder, Running, StateNamesServer
<1>2. CASE restorer.pc # "idle"
  BY <1>1, <1>2 DEF StateOfHome
<1>3. CASE restorer'.pc = "idle" /\ home' = home
  BY <1>1, <1>3 DEF StateOfHome
<1>4. CASE Alone
  <2>1. \A p \in Proc : servers[p].pc \in {"locked", "writing", "serving"} => p \in mislaid
    BY <1>4 DEF Alone, StateNamesServer
  <2>2. QED
    BY <1>1, <2>1 DEF StateOfHome
<1>5. QED
  BY <1>2, <1>3, <1>4

\* What all the vaults hold is left alone, backups and history too.
LEMMA NothingForgottenStays ==
  ASSUME NothingForgotten, backups' = backups, dropped' = dropped, home' = home,
         restorer' = restorer,
         \A h \in Home : vaults'[h].refs = vaults[h].refs /\ vaults'[h].kind = vaults[h].kind,
         home \in Home \cup {NoHome}
  PROVE  NothingForgotten'
<1>1. \A h \in Home : Covers(h) => Covers(h)'
  BY DEF Covers
<1>2. InPlace' => InPlace
  BY DEF InPlace
<1>3. InPlace => home \in Home
  BY DEF InPlace
<1>4. QED
  BY <1>1, <1>2, <1>3 DEF NothingForgotten

-----------------------------------------------------------------------------
(* The vault at work *)

\* References move between the vault and the history, and what the vault comes
\* to refer to it holds or it was dropped.
LEMMA ReferKept ==
  ASSUME BackupInv, NEW refs \in SUBSET Chunk, Refer(refs), InPlace, restorer.pc = "idle",
         refs \subseteq vaults[home].blobs \cup dropped \cup vaults[home].refs,
         collector = {} \/ refs \subseteq vaults[home].refs,
         rollback' = rollback \/ rollback'.pc = "idle"
  PROVE  DataInv'
<1>0. BackupTypeOK /\ DataInv /\ home # NoHome /\ home \in Home
  BY ServiceAssumption, VaultWorks DEF BackupInv, InPlace
<1>1. /\ vaults'[home].refs = refs
      /\ vaults'[home].kind = vaults[home].kind /\ vaults'[home].blobs = vaults[home].blobs
      /\ \A h \in Home : h # home => vaults'[h] = vaults[h]
      /\ dropped' = dropped \cup (vaults[home].refs \ refs)
      /\ UNCHANGED <<serviceVars, home, archive, restorer, backups, collector>>
  BY <1>0, ReferDoes
<1>2. /\ maker'.pc = maker.pc /\ maker'.todo = maker.todo
      /\ maker'.made.refs = maker.made.refs /\ maker'.made.blobs = maker.made.blobs
      /\ maker'.made.released =
           IF maker.pc = "idle" THEN maker.made.released
           ELSE maker.made.released \cup (vaults[home].refs \ refs)
  BY <1>0, ReferDoes
<1>3. InPlace'
  BY <1>1 DEF InPlace
<1>4. MakerHonest'
  <2>1. CASE maker.pc = "idle"
    BY <1>2, <2>1 DEF MakerHonest
  <2>2. CASE maker.pc # "idle"
    <3>1. maker'.made.released = maker.made.released \cup (vaults[home].refs \ refs)
      BY <1>2, <2>2
    <3>2. /\ maker.made.refs \subseteq vaults[home].refs \cup maker.made.released
          /\ maker.pc = "snapshot" =>
               maker.made.refs \subseteq vaults[home].blobs \cup maker.made.released
          /\ maker.pc = "adding" =>
               maker.made.refs \subseteq maker.todo \cup maker.made.blobs \cup maker.made.released
      BY <1>0, <2>2 DEF DataInv, MakerHonest
    <3>3. maker'.made.refs \subseteq vaults'[home'].refs \cup maker'.made.released
      BY <1>1, <1>2, <3>1, <3>2
    <3>4. maker'.pc = "snapshot" =>
            maker'.made.refs \subseteq vaults'[home'].blobs \cup maker'.made.released
      BY <1>1, <1>2, <3>1, <3>2
    <3>5. maker'.pc = "adding" =>
            maker'.made.refs \subseteq maker'.todo \cup maker'.made.blobs \cup maker'.made.released
      BY <1>2, <3>1, <3>2
    <3>6. QED
      BY <1>3, <3>3, <3>4, <3>5 DEF MakerHonest
  <2>3. QED
    BY <2>1, <2>2
<1>5. OneAtATime'
  BY <1>0, <1>1, <1>3 DEF DataInv, OneAtATime
<1>6. NothingForgotten'
  <2>1. Covers(home)
    BY <1>0 DEF DataInv, NothingForgotten
  <2>2. Covers(home)'
    BY <1>0, <1>1, <2>1 DEF Covers
  <2>3. \A b \in backups', c \in Chunk :
          c \in b => c \in dropped' \/ \E h \in Home : c \in vaults'[h].refs
    BY <1>0, <1>1, <2>2 DEF Covers
  <2>4. restorer'.pc # "cleared"
    BY <1>1
  <2>5. QED
    BY <2>2, <2>3, <2>4 DEF NothingForgotten
<1>7. DroppedKnown'
  BY <1>0, <1>1, <1>2 DEF DataInv, DroppedKnown
<1>8. NothingMissing'
  <2>1. vaults'[home].refs \ vaults'[home].blobs \subseteq dropped'
    <3>1. vaults[home].refs \ vaults[home].blobs \subseteq dropped
      BY <1>0 DEF DataInv, NothingMissing, InPlace
    <3>2. QED
      BY <1>1, <3>1
  <2>2. QED
    BY <1>0, <1>1, <2>1 DEF DataInv, NothingMissing
<1>9. ArchiveHonest' /\ AVaultSurvives'
  BY <1>0, <1>1 DEF DataInv, ArchiveHonest, AVaultSurvives
<1>10. QED
  BY <1>4, <1>5, <1>6, <1>7, <1>8, <1>9 DEF DataInv

\* Imports, purges and collections.
LEMMA WorkKept ==
  ASSUME BackupInv, NEW c \in Chunk, PutBlob(c) \/ Publish(c) \/ Release(c) \/ Unlink(c)
  PROVE  DataInv'
<1>0. BackupTypeOK /\ DataInv /\ InPlace /\ restorer.pc = "idle" /\ home # NoHome /\ home \in Home
  BY ServiceAssumption, VaultWorks
     DEF BackupInv, DataInv, OneAtATime, PutBlob, Publish, Release, Unlink, Works, InPlace
<1>1. CASE Publish(c) \/ Release(c)
  <2>1. vaults[home].refs \subseteq Chunk
    BY <1>0, VaultWorks DEF Directory
  <2>2. CASE Publish(c)
    <3>1. /\ Refer(vaults[home].refs \cup {c}) /\ c \in vaults[home].blobs /\ collector = {}
          /\ rollback' = rollback
      BY <2>2 DEF Publish
    <3>2. QED
      BY <1>0, <2>1, <3>1, ReferKept
  <2>3. CASE Release(c)
    <3>1. Refer(vaults[home].refs \ {c}) /\ rollback' = rollback
      BY <2>3 DEF Release
    <3>2. QED
      BY <1>0, <2>1, <3>1, ReferKept
  <2>4. QED
    BY <1>1, <2>2, <2>3
<1>2. CASE PutBlob(c) \/ Unlink(c)
  <2>1. UNCHANGED <<serviceVars, home, archive, maker, restorer, backups, rollback, dropped>>
    BY <1>2 DEF PutBlob, Unlink
  <2>2. /\ vaults'[home].refs = vaults[home].refs /\ vaults'[home].kind = vaults[home].kind
        /\ PutBlob(c) => vaults'[home].blobs = vaults[home].blobs \cup {c}
        /\ Unlink(c) => vaults'[home].blobs = vaults[home].blobs \ {c}
        /\ \A h \in Home : h # home => vaults'[h] = vaults[h]
    BY <1>0, <1>2, BlobsDo
  <2>3. Unlink(c) => c \notin vaults[home].refs
    BY <1>0 DEF Unlink, DataInv, OneAtATime
  <2>4. /\ InPlace'
        /\ vaults[home].blobs \ vaults'[home].blobs \subseteq {c} \ vaults[home].refs
    BY <1>0, <1>2, <2>1, <2>2, <2>3 DEF InPlace
  <2>5. MakerHonest'
    <3>1. ASSUME maker.pc = "snapshot"
          PROVE  maker.made.refs \subseteq vaults'[home].blobs \cup maker.made.released
      BY <1>0, <2>4, <3>1 DEF DataInv, MakerHonest
    <3>2. QED
      BY <1>0, <2>1, <2>2, <2>4, <3>1 DEF DataInv, MakerHonest
  <2>6. collector' \subseteq collector
    BY <1>2 DEF PutBlob, Unlink
  <2>7. OneAtATime'
    BY <1>0, <2>1, <2>2, <2>4, <2>6 DEF DataInv, OneAtATime
  <2>8. NothingForgotten'
    BY <1>0, <2>1, <2>2, NothingForgottenStays DEF DataInv
  <2>9. NothingMissing'
    <3>1. vaults'[home].refs \ vaults'[home].blobs \subseteq vaults[home].refs \ vaults[home].blobs
      BY <2>2, <2>4
    <3>2. QED
      BY <1>0, <2>1, <2>2, <3>1 DEF DataInv, NothingMissing
  <2>10. DroppedKnown' /\ ArchiveHonest' /\ AVaultSurvives'
    BY <1>0, <2>1, <2>2 DEF DataInv, DroppedKnown, ArchiveHonest, AVaultSurvives
  <2>11. QED
    BY <2>5, <2>7, <2>8, <2>9, <2>10 DEF DataInv
<1>3. QED
  BY <1>1, <1>2

\* A collector lists what it is after, or dies.
LEMMA CollectorKept ==
  ASSUME BackupInv, CollectorDies \/ \E todo \in SUBSET Chunk : StartCollector(todo)
  PROVE  DataInv'
<1>0. BackupTypeOK /\ DataInv
      /\ UNCHANGED <<serviceVars, home, vaults, archive, maker, restorer, backups, rollback, dropped>>
  BY DEF BackupInv, CollectorDies, StartCollector
<1>1. \/ collector' = {}
      \/ /\ collector' \cap vaults[home].refs = {}
         /\ InPlace /\ restorer.pc = "idle" /\ rollback.pc = "idle"
  BY DEF CollectorDies, StartCollector, Works
<1>2. OneAtATime'
  BY <1>0, <1>1 DEF DataInv, OneAtATime, InPlace
<1>3. NothingForgotten'
  BY <1>0, NothingForgottenStays DEF DataInv, BackupTypeOK, ServiceTypeOK
<1>4. QED
  BY <1>0, <1>2, <1>3
     DEF DataInv, MakerHonest, DroppedKnown, ArchiveHonest, NothingMissing, AVaultSurvives, InPlace

-----------------------------------------------------------------------------
(* Backups and restores *)

\* A backup reads the vault and writes the archive.
LEMMA MakerKept ==
  ASSUME BackupInv,
         Snapshot \/ ListBlobs \/ (\E c \in Chunk : AddBlob(c)) \/ FinishArchive \/ NoArchiveMade
  PROVE  DataInv'
<1>0. BackupTypeOK /\ DataInv
      /\ UNCHANGED <<serviceVars, home, vaults, restorer, backups, rollback, collector, dropped>>
  BY DEF BackupInv, Snapshot, ListBlobs, AddBlob, FinishArchive, NoArchiveMade, SetMaker
<1>1. restorer.pc = "idle"
  BY <1>0 DEF DataInv, OneAtATime, Snapshot, ListBlobs, AddBlob, FinishArchive, NoArchiveMade, Works
<1>2. OneAtATime' /\ NothingMissing' /\ AVaultSurvives'
  BY <1>0, <1>1 DEF DataInv, OneAtATime, NothingMissing, AVaultSurvives, InPlace
<1>3. NothingForgotten'
  BY <1>0, NothingForgottenStays DEF DataInv, BackupTypeOK, ServiceTypeOK
<1>4. CASE Snapshot
  <2>1. /\ maker'.pc = "snapshot" /\ maker'.made.refs = vaults[home].refs
        /\ maker'.made.released = vaults[home].refs \ vaults[home].blobs
        /\ InPlace /\ archive' = archive
    BY <1>4 DEF Snapshot, SetMaker, Works
  <2>2. vaults[home].refs \ vaults[home].blobs \subseteq dropped
    BY <1>0, <2>1, VaultWorks DEF DataInv, NothingMissing, InPlace
  <2>3. MakerHonest' /\ ArchiveHonest' /\ DroppedKnown'
    BY <1>0, <2>1, <2>2 DEF DataInv, MakerHonest, ArchiveHonest, DroppedKnown, InPlace
  <2>4. QED
    BY <1>2, <1>3, <2>3 DEF DataInv
<1>5. CASE ListBlobs
  <2>1. /\ maker.pc = "snapshot" /\ archive' = archive
        /\ maker'.pc = "adding" /\ maker'.todo = vaults[home].blobs /\ maker'.made = maker.made
    BY <1>0, <1>5 DEF ListBlobs, SetMaker, BackupTypeOK, MakerRow
  <2>2. MakerHonest' /\ ArchiveHonest' /\ DroppedKnown'
    BY <1>0, <2>1 DEF DataInv, MakerHonest, ArchiveHonest, DroppedKnown, InPlace
  <2>3. QED
    BY <1>2, <1>3, <2>2 DEF DataInv
<1>6. ASSUME NEW c \in Chunk, AddBlob(c) PROVE DataInv'
  <2>1. /\ maker.pc = "adding" /\ archive' = archive
        /\ maker'.pc = "adding" /\ maker'.todo = maker.todo \ {c}
        /\ maker'.made.refs = maker.made.refs /\ maker'.made.released = maker.made.released
        /\ maker'.made.blobs = maker.made.blobs \cup {c}
    BY <1>0, <1>6 DEF AddBlob, SetMaker, BackupTypeOK, MakerRow, Archive
  <2>2. MakerHonest' /\ ArchiveHonest' /\ DroppedKnown'
    BY <1>0, <2>1 DEF DataInv, MakerHonest, ArchiveHonest, DroppedKnown, InPlace
  <2>3. QED
    BY <1>2, <1>3, <2>2 DEF DataInv
<1>7. CASE FinishArchive \/ NoArchiveMade
  <2>1. maker'.pc = "idle" /\ maker'.made.released = {}
    BY <1>7 DEF FinishArchive, NoArchiveMade, SetMaker, IdleMaker, NoArchive
  <2>2. CASE archive' = archive
    BY <1>0, <1>2, <1>3, <2>1, <2>2 DEF DataInv, MakerHonest, ArchiveHonest, DroppedKnown
  <2>3. CASE FinishArchive
    <3>1. maker.pc = "adding" /\ maker.todo = {} /\ archive' = maker.made
      BY <2>3 DEF FinishArchive
    <3>2. maker.made.refs \subseteq maker.made.blobs \cup maker.made.released
      BY <1>0, <3>1 DEF DataInv, MakerHonest
    <3>3. ArchiveHonest' /\ MakerHonest' /\ DroppedKnown'
      BY <1>0, <2>1, <3>1, <3>2 DEF DataInv, MakerHonest, ArchiveHonest, DroppedKnown
    <3>4. QED
      BY <1>2, <1>3, <3>3 DEF DataInv
  <2>4. QED
    BY <1>7, <2>2, <2>3 DEF NoArchiveMade
<1>8. QED
  BY <1>4, <1>5, <1>6, <1>7

\* A restore moves directories, and fills one that was not there.
LEMMA RestorerKept ==
  ASSUME BackupInv,
         Extract \/ SetAside \/ BeginCopy \/ EndCopy \/ MoveBack \/ RestoreDies
  PROVE  DataInv' /\ OneHolder' /\ StateOfHome' /\ StateNamesServer'
<1> USE ServiceAssumption
<1>0. BackupTypeOK /\ DataInv
      /\ UNCHANGED <<serviceVars, archive, maker, backups, rollback, collector>>
  BY DEF BackupInv, Extract, SetAside, BeginCopy, EndCopy, MoveBack, RestoreDies, SetRestorer
<1>1. restorer.pc # "idle" \/ Alone
  BY DEF Extract, SetAside, BeginCopy, EndCopy, MoveBack, RestoreDies
<1>2. maker.pc = "idle" /\ rollback.pc = "idle" /\ collector = {}
  BY <1>0, <1>1 DEF DataInv, OneAtATime, Alone
<1>3. OneHolder' /\ StateOfHome' /\ StateNamesServer'
  BY <1>0, <1>1, HomeMoves
<1>4. MakerHonest' /\ ArchiveHonest'
  BY <1>0, <1>2 DEF DataInv, MakerHonest, ArchiveHonest
<1>5. ASSUME restorer'.pc = "copying" => home' # NoHome, dropped \subseteq dropped',
             restorer'.from.refs \ restorer'.from.blobs \subseteq dropped',
             NothingForgotten',
             \A h \in Home : vaults[h].kind = "whole" => vaults'[h].kind = "whole",
             \A h \in Home : vaults'[h].kind = "whole" =>
                vaults'[h].refs \ vaults'[h].blobs \subseteq dropped'
      PROVE  DataInv' /\ OneHolder' /\ StateOfHome' /\ StateNamesServer'
  <2>1. AVaultSurvives' /\ NothingMissing'
    BY <1>0, <1>5 DEF DataInv, AVaultSurvives, NothingMissing
  <2>2. OneAtATime'
    BY <1>0, <1>2, <1>5 DEF OneAtATime
  <2>3. DroppedKnown'
    BY <1>0, <1>5 DEF DataInv, DroppedKnown
  <2>4. QED
    BY <1>3, <1>4, <1>5, <2>1, <2>2, <2>3 DEF DataInv
\* The vaults stay as they are: what is in place comes from what was, or from
\* what was set aside.
<1>6. ASSUME vaults' = vaults, dropped' = dropped, restorer'.pc # "copying",
             home' \in {home, NoHome} \/ (restorer.pc = "cleared" /\ home' = restorer.safety),
             restorer'.pc = "cleared" => restorer'.safety = home,
             restorer'.from.refs \ restorer'.from.blobs \subseteq dropped
      PROVE  DataInv' /\ OneHolder' /\ StateOfHome' /\ StateNamesServer'
  <2>1. \A h \in Home : Covers(h) => Covers(h)'
    BY <1>0, <1>6 DEF Covers
  <2>2. InPlace' => Covers(home)'
    <3>1. ASSUME InPlace' PROVE Covers(home')
      <4>1. home' # NoHome /\ vaults[home'].kind = "whole"
        BY <1>6, <3>1 DEF InPlace
      <4>2. CASE home' = home
        BY <1>0, <4>1, <4>2 DEF DataInv, NothingForgotten, InPlace
      <4>3. CASE restorer.pc = "cleared" /\ home' = restorer.safety
        <5>1. restorer.safety \in Home
          BY <1>0, <4>1, <4>3 DEF BackupTypeOK, RestorerRow
        <5>2. QED
          BY <1>0, <4>1, <4>3, <5>1 DEF DataInv, NothingForgotten
      <4>4. QED
        BY <1>6, <4>1, <4>2, <4>3
    <3>2. \A x : /\ x = home'
                 /\ \A b \in backups : b \subseteq dropped \cup vaults[x].refs
                 /\ \A g \in Home : vaults[g].refs \subseteq dropped \cup vaults[x].refs
                 => Covers(home)'
      BY <1>0, <1>6 DEF Covers
    <3>3. QED
      BY <3>1, <3>2 DEF Covers
  <2>3. ASSUME restorer'.pc = "cleared", restorer'.safety \in {h \in Home : vaults'[h].kind = "whole"}
        PROVE  Covers(restorer.safety)'
    <3>1. restorer'.safety = home /\ home \in Home /\ InPlace
      BY <1>6, <2>3 DEF InPlace
    <3>2. Covers(home)
      BY <1>0, <3>1 DEF DataInv, NothingForgotten
    <3>3. QED
      BY <1>0, <1>6, <3>1, <3>2 DEF Covers
  <2>4. NothingForgotten'
    BY <1>0, <1>6, <2>2, <2>3 DEF DataInv, NothingForgotten
  <2>5. QED
    BY <1>0, <1>5, <1>6, <2>4 DEF DataInv, NothingMissing
<1>7. CASE Extract
  <2>1. /\ archive.exists /\ restorer'.from = archive /\ restorer'.pc = "extracted"
        /\ UNCHANGED <<home, vaults, dropped>>
    BY <1>7 DEF Extract, SetRestorer, IdleRestorer
  <2>2. archive.refs \ archive.blobs \subseteq dropped
    BY <1>0, <2>1 DEF DataInv, ArchiveHonest, DroppedKnown
  <2>3. QED
    BY <1>6, <2>1, <2>2
<1>8. CASE SetAside
  <2>1. /\ restorer'.pc = "cleared" /\ restorer'.safety = home /\ restorer'.from = restorer.from
        /\ home' = NoHome /\ UNCHANGED <<vaults, dropped>>
    BY <1>0, <1>8 DEF SetAside, SetRestorer, BackupTypeOK, RestorerRow
  <2>2. QED
    BY <1>0, <1>6, <2>1 DEF DataInv, DroppedKnown
<1>9. CASE BeginCopy
  <2>1. PICK h \in Home : /\ vaults[h].kind = "none" /\ home' = h
                          /\ vaults' = [vaults EXCEPT ![h].kind = "partial"]
    BY <1>9 DEF BeginCopy
  <2>2. /\ restorer'.pc = "copying" /\ restorer'.from = restorer.from /\ dropped' = dropped
    BY <1>0, <1>9, RestorerDoes DEF BeginCopy, SetRestorer
  <2>3. /\ vaults'[h].kind = "partial"
        /\ \A g \in Home : g # h => vaults'[g] = vaults[g]
        /\ \A g \in Home : vaults'[g].refs = vaults[g].refs /\ vaults'[g].blobs = vaults[g].blobs
    BY <1>0, <2>1 DEF BackupTypeOK, Directory
  <2>4. NothingForgotten'
    BY <1>0, <2>1, <2>2, <2>3 DEF DataInv, NothingForgotten, InPlace
  <2>5. \A g \in Home : vaults'[g].kind = "whole" =>
          vaults[g].kind = "whole" /\ vaults'[g] = vaults[g]
    BY <2>3
  <2>6. \A g \in Home : vaults[g].kind = "whole" => vaults'[g].kind = "whole"
    BY <2>1, <2>3
  <2>7. \A g \in Home : vaults'[g].kind = "whole" =>
          vaults'[g].refs \ vaults'[g].blobs \subseteq dropped'
    BY <1>0, <2>2, <2>5 DEF DataInv, NothingMissing
  <2>8. QED
    BY <1>0, <1>5, <2>1, <2>2, <2>4, <2>6, <2>7 DEF DataInv, DroppedKnown
<1>10. CASE EndCopy
  <2> DEFINE row == [kind |-> "whole", refs |-> restorer.from.refs, blobs |-> restorer.from.blobs]
  <2>1. row \in Directory /\ SetVault(row) /\ home # NoHome /\ home' = home /\ home \in Home
    BY <1>0, <1>10, VaultWorks
       DEF EndCopy, DataInv, OneAtATime, BackupTypeOK, RestorerRow, Archive, Directory
  <2>2. vaults'[home] = row /\ \A h \in Home : h # home => vaults'[h] = vaults[h]
    BY <1>0, <2>1, DirectorySet
  <2>3. /\ restorer'.pc = "idle" /\ restorer'.from.refs = {}
        /\ dropped' = dropped \cup UNION {vaults[h].refs \ restorer.from.refs : h \in Home}
    BY <1>10 DEF EndCopy, SetRestorer, IdleRestorer, NoArchive
  <2>4. /\ dropped \subseteq dropped'
        /\ \A h \in Home : vaults[h].refs \subseteq dropped' \cup restorer.from.refs
    BY <2>3
  <2>5. vaults'[home].refs = restorer.from.refs /\ vaults'[home].blobs = restorer.from.blobs
        /\ vaults'[home].kind = "whole"
    BY <2>2
  <2>6. \A g \in Home : vaults'[g].refs \subseteq dropped' \cup vaults'[home].refs
    BY <2>2, <2>4, <2>5
  <2>7. \A b \in backups : b \subseteq dropped' \cup vaults'[home].refs
    <3>1. ASSUME NEW b \in backups, NEW c \in b
          PROVE  c \in dropped' \cup vaults'[home].refs
      <4>1. c \in Chunk
        BY <1>0, <3>1 DEF BackupTypeOK
      <4>2. c \in dropped \/ \E h \in Home : c \in vaults[h].refs
        BY <1>0, <3>1, <4>1 DEF DataInv, NothingForgotten
      <4>3. QED
        BY <2>4, <2>5, <4>2
    <3>2. QED
      BY <3>1
  <2>8. Covers(home)'
    BY <1>0, <2>1, <2>6, <2>7 DEF Covers
  <2>9. NothingForgotten'
    <3>1. \A b \in backups, c \in Chunk :
            c \in b => c \in dropped' \/ \E h \in Home : c \in vaults'[h].refs
      BY <2>1, <2>7
    <3>2. QED
      BY <1>0, <2>3, <2>8, <3>1 DEF NothingForgotten
  <2>10. restorer.from.refs \ restorer.from.blobs \subseteq dropped
    BY <1>0 DEF DataInv, DroppedKnown
  <2>11. \A h \in Home : vaults'[h].kind = "whole" =>
           vaults'[h].refs \ vaults'[h].blobs \subseteq dropped'
    BY <1>0, <2>2, <2>4, <2>5, <2>10 DEF DataInv, NothingMissing
  <2>12. \A h \in Home : vaults[h].kind = "whole" => vaults'[h].kind = "whole"
    BY <2>2, <2>5
  <2>13. QED
    BY <1>5, <2>3, <2>4, <2>9, <2>11, <2>12
<1>11. CASE MoveBack \/ RestoreDies
  <2>1. /\ restorer'.pc = "idle" /\ restorer'.from.refs = {} /\ UNCHANGED <<vaults, dropped>>
        /\ home' = home \/ (restorer.pc = "cleared" /\ home' = restorer.safety)
    BY <1>11 DEF MoveBack, RestoreDies, SetRestorer, IdleRestorer, NoArchive
  <2>2. QED
    BY <1>6, <2>1
<1>12. QED
  BY <1>7, <1>8, <1>9, <1>10, <1>11

\* A rollback brings back what was dropped or is referred to still.
LEMMA RollbackKept ==
  ASSUME BackupInv,
         BackupMetadata \/ OverwriteMetadata \/ RollbackDies
           \/ \E refs \in SUBSET Chunk : SaveMetadata(refs)
  PROVE  DataInv'
<1> USE ServiceAssumption
<1>0. BackupTypeOK /\ DataInv /\ UNCHANGED <<serviceVars, home, archive, restorer, collector>>
  BY DEF BackupInv, BackupMetadata, OverwriteMetadata, RollbackDies, SaveMetadata, Refer
<1>1. CASE OverwriteMetadata
  <2>1. /\ Refer(rollback.to) /\ rollback'.pc = "idle" /\ rollback.to \in SUBSET Chunk
        /\ InPlace /\ restorer.pc = "idle" /\ collector = {} /\ rollback.to \in backups
    BY <1>0, <1>1 DEF OverwriteMetadata, IdleRollback, BackupTypeOK, RollbackRow, DataInv, OneAtATime
  <2>2. rollback.to \subseteq dropped \cup vaults[home].refs
    BY <1>0, <2>1 DEF DataInv, NothingForgotten, Covers
  <2>3. QED
    BY <2>1, <2>2, ReferKept
<1>2. ASSUME vaults' = vaults, dropped' = dropped, maker' = maker,
             backups' = backups \cup {vaults[home].refs} \/ backups' = backups,
             InPlace /\ restorer.pc = "idle",
             rollback' = rollback \/ rollback'.pc = "idle"
               \/ (collector = {} /\ rollback'.to \in backups)
      PROVE  DataInv'
  <2>1. home \in Home /\ Covers(home) /\ vaults[home].refs \subseteq Chunk
    BY <1>0, <1>2, VaultWorks DEF InPlace, DataInv, NothingForgotten, Directory
  <2>2. Covers(home)'
    BY <1>0, <1>2, <2>1 DEF Covers
  <2>3. \A b \in backups', c \in Chunk :
          c \in b => c \in dropped' \/ \E h \in Home : c \in vaults'[h].refs
    BY <1>0, <1>2, <2>1 DEF DataInv, NothingForgotten
  <2>4. NothingForgotten'
    BY <1>0, <1>2, <2>2, <2>3 DEF NothingForgotten
  <2>5. OneAtATime'
    BY <1>0, <1>2 DEF DataInv, OneAtATime, InPlace
  <2>6. QED
    BY <1>0, <1>2, <2>4, <2>5
       DEF DataInv, MakerHonest, DroppedKnown, ArchiveHonest, NothingMissing, AVaultSurvives, InPlace
<1>3. CASE BackupMetadata
  BY <1>2, <1>3 DEF BackupMetadata, Works
<1>4. ASSUME NEW refs \in SUBSET Chunk, SaveMetadata(refs) PROVE DataInv'
  <2>1. rollback'.to \in backups /\ collector = {}
    BY <1>4 DEF SaveMetadata
  <2>2. QED
    BY <1>2, <1>4, <2>1 DEF SaveMetadata, Works
<1>5. CASE RollbackDies
  <2>1. InPlace /\ restorer.pc = "idle" /\ rollback'.pc = "idle"
    BY <1>0, <1>5 DEF RollbackDies, IdleRollback, DataInv, OneAtATime
  <2>2. QED
    BY <1>2, <1>5, <2>1 DEF RollbackDies
<1>6. QED
  BY <1>1, <1>3, <1>4, <1>5

-----------------------------------------------------------------------------
LEMMA BackupInvKept == BackupInv /\ [BackupNext]_backupVars => BackupInv'
<1>1. ASSUME BackupInv, Service \/ \E p \in Proc : Serve(p)
      PROVE  DataInv' /\ OneHolder' /\ StateOfHome' /\ StateNamesServer'
  <2>1. UNCHANGED <<home, dataVars>>
    BY <1>1 DEF Service, Serve, Aftermath, CommandStep, OpenState, WriteState, RemoveState,
                ReleaseLock, Dies, ReadState, FindNone, FindRunning, Signal, SignalFails,
                RemoveStale, GiveUp, AcquireLock
  <2>2. Aftermath \/ \E p \in Proc : restorer.pc = "idle" /\ AcquireLock(p)
    BY <1>1 DEF Service, Serve, Works
  <2>3. ServiceInv
    BY <1>1 DEF BackupInv, BackupTypeOK, ServiceInv
  <2>4. UNCHANGED restorer
    BY <2>1 DEF dataVars
  <2>5. OneHolder' /\ StateOfHome' /\ StateNamesServer'
    BY <2>1, <2>2, <2>3, <2>4, ServiceKept
  <2>6. DataInv'
    BY <1>1, <2>1 DEF BackupInv, DataInv, dataVars, MakerHonest, OneAtATime, NothingForgotten,
                      Covers, DroppedKnown, ArchiveHonest, NothingMissing, AVaultSurvives, InPlace
  <2>7. QED
    BY <2>5, <2>6
<1>2. ASSUME BackupInv, NEW c \in Chunk, PutBlob(c) \/ Publish(c) \/ Release(c) \/ Unlink(c)
      PROVE  DataInv' /\ OneHolder' /\ StateOfHome' /\ StateNamesServer'
  <2>1. UNCHANGED serviceVars /\ UNCHANGED home /\ UNCHANGED restorer
    BY <1>2 DEF PutBlob, Publish, Release, Unlink, Refer
  <2>2. restorer.pc = "idle"
    BY <1>2 DEF PutBlob, Publish, Release, Unlink, Works, BackupInv, DataInv, OneAtATime
  <2>3. QED
    BY <1>2, <2>1, <2>2, WorkKept, HomeMoves
<1>3. ASSUME BackupInv, UNCHANGED <<serviceVars, home, restorer>>, DataInv'
      PROVE  DataInv' /\ OneHolder' /\ StateOfHome' /\ StateNamesServer'
  BY <1>3 DEF BackupInv, serviceVars, OneHolder, Running, StateOfHome, StateNamesServer
<1>4. ASSUME BackupInv,
             Snapshot \/ ListBlobs \/ (\E c \in Chunk : AddBlob(c)) \/ FinishArchive \/ NoArchiveMade
      PROVE  DataInv' /\ OneHolder' /\ StateOfHome' /\ StateNamesServer'
  BY <1>3, <1>4, MakerKept
     DEF Snapshot, ListBlobs, AddBlob, FinishArchive, NoArchiveMade, SetMaker
<1>5. ASSUME BackupInv, CollectorDies \/ \E todo \in SUBSET Chunk : StartCollector(todo)
      PROVE  DataInv' /\ OneHolder' /\ StateOfHome' /\ StateNamesServer'
  BY <1>3, <1>5, CollectorKept DEF CollectorDies, StartCollector
<1>6. ASSUME BackupInv,
             BackupMetadata \/ OverwriteMetadata \/ RollbackDies
               \/ \E refs \in SUBSET Chunk : SaveMetadata(refs)
      PROVE  DataInv' /\ OneHolder' /\ StateOfHome' /\ StateNamesServer'
  BY <1>3, <1>6, RollbackKept
     DEF BackupMetadata, OverwriteMetadata, RollbackDies, SaveMetadata, Refer
<1>7. ASSUME BackupInv, BackupNext PROVE BackupInv'
  <2>1. DataInv' /\ OneHolder' /\ StateOfHome' /\ StateNamesServer'
    BY <1>1, <1>2, <1>4, <1>5, <1>6, <1>7, RestorerKept DEF BackupNext
  <2>2. BackupTypeOK'
    BY <1>7, BackupTyped DEF BackupInv, DataInv
  <2>3. QED
    BY <2>1, <2>2 DEF BackupInv
<1>8. ASSUME BackupInv, UNCHANGED backupVars PROVE BackupInv'
  BY <1>8 DEF BackupInv, DataInv, backupVars, dataVars, serviceVars, BackupTypeOK, ServiceTypeOK,
              OneHolder, Running, StateOfHome, StateNamesServer, MakerHonest, OneAtATime,
              NothingForgotten, Covers, DroppedKnown, ArchiveHonest, NothingMissing,
              AVaultSurvives, InPlace
<1>9. QED
  BY <1>7, <1>8

\* BackupInv holds of every state of VaultBackups.
THEOREM BackupSafe == BackupSpec => []BackupInv
  BY BackupInitInv, BackupInvKept, PTL DEF BackupSpec

\* Rows of servers, commands, directories, archives and restores keep to their
\* columns: a stop never aims at what it could not read.
THEOREM BackupTypes == BackupSpec => []BackupTypeOK
<1>1. BackupInv => BackupTypeOK
  BY DEF BackupInv
<1>2. QED
  BY <1>1, BackupSafe, PTL

\* The state file names the server that serves, unless it was removed by a
\* command or a server that took it for another's; of two servers one has lost
\* its state.
THEOREM StateFileTrue == BackupSpec => []StateNamesServer
<1>1. BackupInv => StateNamesServer
  BY DEF BackupInv
<1>2. QED
  BY <1>1, BackupSafe, PTL

\* An archive of a vault at work lacks only what the vault lacked, purged or
\* rolled back from.
THEOREM ArchivesHonest == BackupSpec => []ArchiveHonest
<1>1. BackupInv => ArchiveHonest
  BY DEF BackupInv, DataInv
<1>2. QED
  BY <1>1, BackupSafe, PTL

\* Through any sequence of collections, metadata restores and disaster
\* restores, a vault only lacks what had lost its last reference before.
THEOREM OnlyDroppedMissing == BackupSpec => []NothingMissing
<1>1. BackupInv => NothingMissing
  BY DEF BackupInv, DataInv
<1>2. QED
  BY <1>1, BackupSafe, PTL

\* No sequence of interrupted restores leaves the node without a whole vault.
THEOREM VaultSurvives == BackupSpec => []AVaultSurvives
<1>1. BackupInv => AVaultSurvives
  BY DEF BackupInv, DataInv
<1>2. QED
  BY <1>1, BackupSafe, PTL
=============================================================================
