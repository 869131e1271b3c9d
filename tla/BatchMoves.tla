----------------------------- MODULE BatchMoves -----------------------------
(***************************************************************************)
(* Vault.move_files statement by statement.  VaultCatalog moves a batch at *)
(* once; the code updates one row after the other, inside one transaction, *)
(* against the unique index on live paths, which SQLite checks at every    *)
(* UPDATE.  Each source therefore waits at a random temporary path until   *)
(* every source has left its own.                                          *)
(*                                                                         *)
(* files and dirs are the committed tables, which is all that other        *)
(* connections see; batch holds what the transaction has changed so far.   *)
(***************************************************************************)
EXTENDS VaultCatalog, Sequences

CONSTANTS Temporary,  \* the random temporary paths, never issued twice
          Batches     \* bound: the batches that are asked for

Move == [source : Path, destination : Path]

ASSUME BatchAssumption ==
  /\ Temporary \cap (Path \cup {NoPath}) = {}
  /\ Batches \subseteq Seq(Move)

VARIABLE batch

batchVars == <<catalogVars, batch>>

\* rows are the ids found for the sources; paths and dirs are what the
\* transaction itself reads from the two tables.
NoBatch == [pc |-> "none", moves |-> <<>>, rows |-> <<>>, at |-> 1,
            paths |-> [f \in FileId |-> NoPath], dirs |-> {}]

BatchInit == Init /\ batch = NoBatch

-----------------------------------------------------------------------------
\* The write lock is taken and the whole batch is checked.
Begin(moves) ==
  /\ batch.pc = "none"
  /\ IsInjective([i \in DOMAIN moves |-> moves[i].source])
  /\ IsInjective([i \in DOMAIN moves |-> moves[i].destination])
  /\ \A i \in DOMAIN moves :
       LiveAt(moves[i].destination) # {} =>
         \E j \in DOMAIN moves : moves[j].source = moves[i].destination
  /\ \E rows \in [DOMAIN moves -> FileId] :
       /\ \A i \in DOMAIN moves : rows[i] \in LiveAt(moves[i].source)
       /\ batch' = [pc |-> "lift", moves |-> moves, rows |-> rows, at |-> 1,
                    paths |-> [f \in FileId |-> files[f].path], dirs |-> dirs]
  /\ UNCHANGED catalogVars

\* The unique index covers live files only.
Taken(p, f) ==
  \E g \in FileId \ {f} : files[g].status = "live" /\ batch.paths[g] = p

Update(f, p) ==
  /\ ~Taken(p, f)
  /\ batch' = [batch EXCEPT !.paths[f] = p, !.at = @ + 1]

\* Every file stays where it is until its destination is written.
LiftNone_mutant ==
  /\ batch.pc = "lift"
  /\ batch' = [batch EXCEPT !.pc = "place"]
  /\ UNCHANGED catalogVars

\* The next source moves to a temporary path; after the last one the moves are
\* gone through again.
Lift ==
  /\ batch.pc = "lift"
  /\ \/ /\ batch.at <= Len(batch.moves)
        /\ \E t \in Temporary \ Range(batch.paths) : Update(batch.rows[batch.at], t)
     \/ /\ batch.at > Len(batch.moves)
        /\ batch' = [batch EXCEPT !.pc = "place", !.at = 1]
  /\ UNCHANGED catalogVars

Place ==
  LET to == batch.moves[batch.at].destination
      f == batch.rows[batch.at]
  IN /\ batch.pc = "place"
     /\ batch.at <= Len(batch.moves)
     /\ ~Taken(to, f)
     /\ batch' = [batch EXCEPT !.paths[f] = to, !.dirs = @ \cup Above[to], !.at = @ + 1]
     /\ UNCHANGED catalogVars

Commit ==
  /\ batch.pc = "place"
  /\ batch.at > Len(batch.moves)
  /\ files' = [f \in FileId |-> [files[f] EXCEPT !.path = batch.paths[f]]]
  /\ dirs' = batch.dirs
  /\ batch' = NoBatch
  /\ UNCHANGED <<versions, chunkRows, refCount, sessions, clock>>

\* What was updated before the exception stays.
RollbackKeeps_mutant ==
  /\ batch.pc # "none"
  /\ files' = [f \in FileId |-> [files[f] EXCEPT !.path = batch.paths[f]]]
  /\ dirs' = batch.dirs
  /\ batch' = NoBatch
  /\ UNCHANGED <<versions, chunkRows, refCount, sessions, clock>>

\* Any exception, an UPDATE the index rejects among them, and the death of the
\* process roll back.
Rollback ==
  /\ batch.pc # "none"
  /\ batch' = NoBatch
  /\ UNCHANGED catalogVars

\* Transactions of other connections wait for the write lock; time does not.
Elsewhere ==
  /\ IF batch.pc = "none" THEN Next ELSE Tick
  /\ UNCHANGED batch

BatchNext ==
  \/ \E moves \in Batches : Begin(moves)
  \/ Lift \/ Place \/ Commit \/ Rollback
  \/ Elsewhere

BatchSpec == BatchInit /\ [][BatchNext]_batchVars

-----------------------------------------------------------------------------
(* Properties *)

\* A batch that has passed its checks is never rejected by uq_live_file_path:
\* at every UPDATE, in whatever order the moves are listed and even when they
\* swap paths, no other live file is at the path written.
IndexHolds ==
  batch.pc = "place" /\ batch.at <= Len(batch.moves) =>
    ~Taken(batch.moves[batch.at].destination, batch.rows[batch.at])

\* However the statements of a batch are cut short, others see of it nothing or
\* all: the one step that VaultCatalog takes for the batch.
BatchIsOneTransaction ==
  [][batch.pc # "none" =>
       Tick \/ \E S \in SUBSET Path : \E to \in [S -> Path] : MoveFiles(S, to)]_catalogVars
=============================================================================
