-------------------------- MODULE MCVaultRetention --------------------------
(* Instances of VaultRetention for TLC: one path in the root. *)
EXTENDS VaultRetention, TLC

MCAbove == [x \in Path \cup Dir |-> {}]

RetentionSymmetry == Permutations(FileId) \cup Permutations(VersionId)
=============================================================================
