---------------------------- MODULE MCSyncClient ----------------------------
(* Instances of SyncClient for TLC: every file is in the root, the keys are *)
(* those of one device, and ids are numbers.                                *)
EXTENDS SyncClient, TLC

MCAbove == [p \in Path |-> {}]

MCKey == Path \X Content

\* Ids are interchangeable, so it is enough to issue them in order: this does
\* for liveness what a symmetry set does for safety.
IdsInOrder ==
  /\ \A v, w \in VersionId :
       v < w /\ versions'[w].status # "free" => versions'[v].status # "free"
  /\ \A f, g \in FileId : f < g /\ files'[g].status # "free" => files'[f].status # "free"
=============================================================================
