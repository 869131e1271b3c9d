--------------------------- MODULE VaultRetention ---------------------------
(***************************************************************************)
(* The trash retention policy over the catalog: a run lists the trash once *)
(* and then purges the listed paths one by one, each in a transaction of   *)
(* its own, while users go on deleting, restoring and importing.  What     *)
(* collect_garbage does after each purge is the catalog's DropChunkRows.   *)
(***************************************************************************)
EXTENDS VaultCatalog

CONSTANTS MaxDays,  \* bound: the longest retention
          NoPolicy

VARIABLES days,    \* vault_settings.trash_retention_days
          cutoff,  \* of the current run: what was deleted by then is too old
          listed   \* of the current run: listed files it has still to purge

retentionVars == <<catalogVars, days, cutoff, listed>>

RetentionInit ==
  /\ Init
  /\ days = NoPolicy
  /\ cutoff = 0
  /\ listed = {}

SetTrashRetention(d) ==
  /\ days' = d
  /\ UNCHANGED <<catalogVars, cutoff, listed>>

\* list_deleted_files in a transaction of its own, filtered by the cutoff.
StartRun ==
  /\ listed = {}
  /\ days # NoPolicy
  /\ days <= clock
  /\ cutoff' = clock - days
  /\ listed' = {[file |-> f, path |-> files[f].path, at |-> files[f].deletedAt] :
                  f \in {g \in FileId : files[g].status = "trash"
                                        /\ files[g].deletedAt <= clock - days}}
  /\ UNCHANGED <<catalogVars, days>>

\* Purges follow the list, latest deletion first, by path: a path with no
\* trash left raises and ends the run.
PurgeListed ==
  \E item \in listed :
    /\ \A other \in listed : other.at <= item.at
    /\ \/ /\ PurgeFile(item.path)
          /\ listed' = listed \ {item}
       \/ /\ LatestTrashAt(item.path) = {}
          /\ listed' = {}
          /\ UNCHANGED catalogVars
    /\ UNCHANGED <<days, cutoff>>

RetentionNext ==
  \/ Next /\ UNCHANGED <<days, cutoff, listed>>
  \/ \E d \in 1..MaxDays \cup {NoPolicy} : SetTrashRetention(d)
  \/ StartRun
  \/ PurgeListed

RetentionSpec == RetentionInit /\ [][RetentionNext]_retentionVars

-----------------------------------------------------------------------------
\* A retention run purges only files that had been in the trash for the
\* retention period when it started.
PurgesOnlyExpired ==
  [][\A f \in FileId :
       /\ listed # {} /\ listed' # listed
       /\ files[f].status = "trash" /\ files'[f].status = "purged"
       => files[f].deletedAt <= cutoff]_retentionVars
=============================================================================
