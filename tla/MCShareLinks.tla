---------------------------- MODULE MCShareLinks ----------------------------
(* Instances of ShareLinks for TLC. *)
EXTENDS ShareLinks, TLC

\* Every path is in the root.
MCAbove == [x \in Path \cup Dir |-> {}]

\* Ids, chunks and threads of a kind are interchangeable: no definition
\* chooses among them.
ShareSymmetry ==
  Permutations(FileId) \cup Permutations(VersionId) \cup Permutations(Chunk)
    \cup Permutations(Link) \cup Permutations(Reader) \cup Permutations(Worker \ Reader)
=============================================================================
