--------------------------- MODULE MCVaultStorage ---------------------------
(* Instances of VaultStorage for TLC: one or two workers, paths in the root. *)
EXTENDS VaultStorage, Integers, TLC

MCAbove == [x \in Path \cup Dir |-> {}]

StorageSymmetry ==
  Permutations(FileId) \cup Permutations(VersionId) \cup Permutations(Chunk) \cup Permutations(Worker)

\* Ids that are numbers are issued in order, as interchangeable as those above:
\* a liveness property is checked without a symmetry set.
IdsInOrder ==
  /\ \A v, w \in VersionId :
       v < w /\ versions'[w].status # "free" => versions'[v].status # "free"
  /\ \A f, g \in FileId : f < g /\ files'[g].status # "free" => files'[f].status # "free"
=============================================================================
