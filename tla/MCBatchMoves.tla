---------------------------- MODULE MCBatchMoves ----------------------------
(* An instance of BatchMoves, and with it of VaultCatalog, for TLC. *)
EXTENDS BatchMoves, TLC

CONSTANTS p1, p2, d1

\* p1 is in the root, p2 in directory d1.
MCAbove == (p1 :> {}) @@ (p2 :> {d1}) @@ (d1 :> {})

\* A move into the directory, and a swap.
MCBatches ==
  LET to(p, q) == [source |-> p, destination |-> q]
  IN {<<to(p1, p2)>>, <<to(p1, p2), to(p2, p1)>>}

\* Ids, chunks and temporary paths are interchangeable: no definition chooses
\* among them.
BatchSymmetry ==
  Permutations(FileId) \cup Permutations(VersionId) \cup
  Permutations(Chunk) \cup Permutations(Temporary)
=============================================================================
