--------------------------- MODULE ServiceRuntime ---------------------------
(***************************************************************************)
(* The node service of a vault: server-run processes, the lock they hold   *)
(* (an flock on .psn/run/server.lock, which ends with its process), the    *)
(* state file .psn/run/server.json, and the commands server-stop and       *)
(* server-stop --cleanup-stale.  Nothing but the lock orders them: every   *)
(* command looks at the state file, then at the process it names, then     *)
(* acts on the path.                                                       *)
(*                                                                         *)
(* A process is its id; ids are not reused, so a process found dead stays  *)
(* dead, and finding it so and removing the state file are one step.  One  *)
(* found running may be dead when the signal is sent.                      *)
(***************************************************************************)
EXTENDS FiniteSets

CONSTANTS Proc,     \* ids of server processes, never reused
          Command,  \* administrators' commands
          Home,     \* directories that are, were or will be .psn
          NoProc, NoHome,
          Torn      \* a state file that is empty or cut short

ASSUME ServiceAssumption ==
  NoProc \notin Proc /\ Torn \notin Proc \cup {NoProc} /\ NoHome \notin Home

VARIABLES home,       \* the directory that is .psn
          servers,    \* what each server process is at, and whose lock it holds
          stateFile,  \* the process named in .psn's server.json, if there is one
          commands,   \* what each command is at
          report,     \* the last stop said that no server runs, and none came up since
          mislaid     \* history: servers whose state file somebody else removed

serviceVars == <<servers, stateFile, commands, report, mislaid>>

ServerRow == [pc : {"off", "locked", "writing", "serving", "leaving", "dead"},
              dir : Home \cup {NoHome}]

IdleCommand == [pc |-> "idle", pid |-> NoProc]

\* A stop aims at a process, never at what it could not read.
CommandRow ==
  {IdleCommand} \cup [pc : {"cleanup"}, pid : Proc \cup {Torn}]
    \cup [pc : {"stop", "found", "polling"}, pid : Proc]

\* process_is_running
Running(p) ==
  p \in Proc /\ servers[p].pc \in {"locked", "writing", "serving", "leaving"}

ServiceInit ==
  /\ home \in Home
  /\ servers = [p \in Proc |-> [pc |-> "off", dir |-> NoHome]]
  /\ stateFile = NoProc
  /\ commands = [c \in Command |-> IdleCommand]
  /\ report = FALSE
  /\ mislaid = {}

-----------------------------------------------------------------------------
(* A server *)

\* The lock only keeps out those who find a server already serving.
AcquireEarly_mutant(p) ==
  /\ servers[p].pc = "off"
  /\ home # NoHome
  /\ \A q \in Proc : Running(q) /\ servers[q].dir = home => servers[q].pc = "locked"
  /\ servers' = [servers EXCEPT ![p] = [pc |-> "locked", dir |-> home]]
  /\ report' = FALSE
  /\ UNCHANGED <<home, stateFile, commands, mislaid>>

\* A second server that finds the lock taken ends without a trace.
AcquireLock(p) ==
  /\ servers[p].pc = "off"
  /\ home # NoHome
  /\ \A q \in Proc : ~(Running(q) /\ servers[q].dir = home)
  /\ servers' = [servers EXCEPT ![p] = [pc |-> "locked", dir |-> home]]
  /\ report' = FALSE
  /\ UNCHANGED <<home, stateFile, commands, mislaid>>

\* write_text empties the file...
OpenState(p) ==
  /\ servers[p].pc = "locked"
  /\ servers' = [servers EXCEPT ![p].pc = "writing"]
  /\ stateFile' = Torn
  /\ UNCHANGED <<home, commands, report, mislaid>>

\* ... and fills it, unless it was removed meanwhile; the server comes up.
WriteState(p) ==
  /\ servers[p].pc = "writing"
  /\ servers' = [servers EXCEPT ![p].pc = "serving"]
  /\ IF stateFile = Torn
     THEN stateFile' = p /\ UNCHANGED mislaid
     ELSE mislaid' = mislaid \cup {p} /\ UNCHANGED stateFile
  /\ report' = FALSE
  /\ UNCHANGED <<home, commands>>

\* Ctrl-C, or serving fails: the state file goes first, whoever it names...
RemoveState(p) ==
  /\ servers[p].pc = "serving"
  /\ servers' = [servers EXCEPT ![p].pc = "leaving"]
  /\ stateFile' = NoProc
  /\ mislaid' = mislaid \cup (({stateFile} \cap Proc) \ {p})
  /\ UNCHANGED <<home, commands, report>>

\* ... then the lock, with the process.
ReleaseLock(p) ==
  /\ servers[p].pc = "leaving"
  /\ servers' = [servers EXCEPT ![p].pc = "dead"]
  /\ UNCHANGED <<home, stateFile, commands, report, mislaid>>

\* A signal or a crash ends a server at any point; its state file stays.
Dies(p) ==
  /\ Running(p)
  /\ servers' = [servers EXCEPT ![p].pc = "dead"]
  /\ UNCHANGED <<home, stateFile, commands, report, mislaid>>

-----------------------------------------------------------------------------
(* Commands *)

SetCommand(c, row) == commands' = [commands EXCEPT ![c] = row]

\* stop_service does not look whether the state could be read.
ReadAnything_mutant(c, pc) ==
  /\ commands[c].pc = "idle"
  /\ stateFile \in Proc \cup {Torn}
  /\ SetCommand(c, [pc |-> pc, pid |-> stateFile])
  /\ UNCHANGED <<home, servers, stateFile, report, mislaid>>

\* cleanup_stale_service_state takes an unreadable state file for a stale one.
ReadState(c, pc) ==
  /\ commands[c].pc = "idle"
  /\ stateFile \in IF pc = "stop" THEN Proc ELSE Proc \cup {Torn}
  /\ SetCommand(c, [pc |-> pc, pid |-> stateFile])
  /\ UNCHANGED <<home, servers, stateFile, report, mislaid>>

\* stop_service: "not_running", the state file is missing or unreadable.
FindNone(c) ==
  /\ commands[c].pc = "idle"
  /\ stateFile \in {NoProc, Torn}
  /\ report' = TRUE
  /\ UNCHANGED <<home, servers, stateFile, commands, mislaid>>

\* process_is_running, before the signal
FindRunning(c) ==
  /\ commands[c].pc = "stop"
  /\ Running(commands[c].pid)
  /\ SetCommand(c, [commands[c] EXCEPT !.pc = "found"])
  /\ UNCHANGED <<home, servers, stateFile, report, mislaid>>

\* SIGTERM, and SIGKILL later when forced.
Signal(c) ==
  /\ commands[c].pc = "found"
  /\ Running(commands[c].pid)
  /\ SetCommand(c, [commands[c] EXCEPT !.pc = "polling"])
  /\ UNCHANGED <<home, servers, stateFile, report, mislaid>>

\* The process died since it was found running: os.kill raises, for SIGTERM or,
\* after the timeout, for SIGKILL, or the timeout is reported, and the state
\* file stays.
SignalFails(c) ==
  /\ commands[c].pc \in {"found", "polling"}
  /\ ~Running(commands[c].pid)
  /\ SetCommand(c, IdleCommand)
  /\ UNCHANGED <<home, servers, stateFile, report, mislaid>>

\* The process is dead: whatever the state file says now, it is removed.
RemoveStale(c) ==
  /\ commands[c].pc \in {"cleanup", "stop", "polling"}
  /\ ~Running(commands[c].pid)
  /\ stateFile' = NoProc
  /\ report' = (report \/ commands[c].pc \in {"stop", "polling"})
  /\ mislaid' = mislaid \cup (({stateFile} \cap Proc) \ {commands[c].pid})
  /\ SetCommand(c, IdleCommand)
  /\ UNCHANGED <<home, servers>>

\* The process runs: there is nothing to clean up, or the stop timed out.
GiveUp(c) ==
  /\ commands[c].pc \in {"cleanup", "polling"}
  /\ Running(commands[c].pid)
  /\ SetCommand(c, IdleCommand)
  /\ UNCHANGED <<home, servers, stateFile, report, mislaid>>

CommandStep(c) ==
  \/ ReadState(c, "cleanup") \/ ReadState(c, "stop") \/ FindNone(c)
  \/ FindRunning(c) \/ Signal(c) \/ SignalFails(c) \/ RemoveStale(c) \/ GiveUp(c)

\* What happens whether or not anyone starts a server.
Aftermath ==
  \/ \E p \in Proc :
       \/ OpenState(p) \/ WriteState(p)
       \/ RemoveState(p) \/ ReleaseLock(p) \/ Dies(p)
  \/ \E c \in Command : CommandStep(c)

-----------------------------------------------------------------------------
(* Properties *)

ServiceTypeOK ==
  /\ home \in Home \cup {NoHome}
  /\ servers \in [Proc -> ServerRow]
  /\ stateFile \in Proc \cup {NoProc, Torn}
  /\ commands \in [Command -> CommandRow]
  /\ report \in BOOLEAN
  /\ mislaid \subseteq Proc

\* The state file never names a process that has not come up yet, nor does any
\* command aim at one, and a server that serves is the one it names unless
\* somebody else removed its state: however starts, crashes, commands and restores
\* interleave, stop aims at the server there is or was, and of two servers one
\* has lost its state.
StateNamesServer ==
  \A p \in Proc :
    /\ servers[p].pc \in {"off", "locked", "writing"} =>
         stateFile # p /\ \A c \in Command : commands[c].pid # p
    /\ servers[p].pc = "serving" => stateFile = p \/ p \in mislaid

\* server-stop --cleanup-stale takes away no state file that names a running
\* server or that a running server has not finished writing, as
\* docs/SERVICE_OPERATIONS.md says of it.
CleanupSparesRunning ==
  [][\A c \in Command, p \in Proc :
       /\ commands[c].pc = "cleanup" /\ commands'[c].pc = "idle" /\ stateFile' # stateFile
       /\ Running(p)
       => /\ stateFile # p
          /\ ~(stateFile = Torn /\ servers[p].pc = "writing")]_<<home, serviceVars>>
=============================================================================
