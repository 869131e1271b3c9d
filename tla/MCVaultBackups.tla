--------------------------- MODULE MCVaultBackups ---------------------------
(* Instances of VaultBackups for TLC. *)
EXTENDS VaultBackups, TLC

\* Processes, commands and directories are interchangeable.
BackupSymmetry == Permutations(Proc) \cup Permutations(Command) \cup Permutations(Home)

Settled ==
  /\ \A c \in Command : commands[c] = IdleCommand
  /\ \A p \in Proc : servers[p].pc \in {"off", "serving", "dead"}

\* A bound: servers and commands stand still while a backup is made.  Neither
\* reads what the other writes.
BackupsApart ==
  /\ maker' # maker => Settled
  /\ serviceVars' # serviceVars => maker.pc = "idle"
=============================================================================
