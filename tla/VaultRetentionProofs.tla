------------------------ MODULE VaultRetentionProofs ------------------------
(***************************************************************************)
(* A retention run is nothing but purges of the catalog, proved for every  *)
(* set of files, paths and chunks and every bound.                         *)
(***************************************************************************)
EXTENDS VaultRetention, VaultCatalogProofs

\* A run purges by the paths it has listed, which were those of rows: a purge
\* of the run is one that a user could ask for only as long as this holds.
RetentionInv ==
  /\ CatalogInv
  /\ \A item \in listed : item.path \in Path

\* Every step of a run is a transaction of the catalog, and keeps the invariant.
LEMMA RetentionSteps ==
  ASSUME RetentionInv, [RetentionNext]_retentionVars
  PROVE  [Next]_catalogVars /\ RetentionInv'
<1>1. CASE Next /\ UNCHANGED <<days, cutoff, listed>>
  BY <1>1, CatalogNextInv DEF RetentionInv
<1>2. CASE \E d \in 1..MaxDays \cup {NoPolicy} : SetTrashRetention(d)
  <2>1. UNCHANGED <<catalogVars, listed>>
    BY <1>2 DEF SetTrashRetention
  <2>2. QED
    BY <2>1, CatalogNextInv DEF RetentionInv
<1>3. CASE StartRun
  <2>1. UNCHANGED catalogVars
    BY <1>3 DEF StartRun
  <2>2. ASSUME NEW item \in listed' PROVE item.path \in Path
    <3>1. PICK f \in FileId : files[f].status = "trash" /\ item.path = files[f].path
      BY <1>3, <2>2 DEF StartRun
    <3>2. QED
      BY <3>1 DEF RetentionInv, CatalogInv, RowsFilled
  <2>3. QED
    BY <2>1, <2>2, CatalogNextInv DEF RetentionInv
<1>4. CASE PurgeListed
  <2>1. PICK item \in listed :
          \/ PurgeFile(item.path) /\ listed' = listed \ {item}
          \/ listed' = {} /\ UNCHANGED catalogVars
    BY <1>4 DEF PurgeListed
  <2>2. item.path \in Path
    BY DEF RetentionInv
  <2>3. [Next]_catalogVars
    BY <2>1, <2>2 DEF Next
  <2>4. \A other \in listed' : other.path \in Path
    BY <2>1 DEF RetentionInv
  <2>5. QED
    BY <2>3, <2>4, CatalogNextInv DEF RetentionInv
<1>5. CASE UNCHANGED retentionVars
  BY <1>5, CatalogNextInv DEF retentionVars, RetentionInv
<1>6. QED
  BY <1>1, <1>2, <1>3, <1>4, <1>5 DEF RetentionNext

\* With retention runs at work the vault is still the catalog that all its
\* theorems are about: a run's list, however stale, costs no reference count
\* and no live file.
THEOREM RetentionImplementsCatalog == RetentionSpec => Spec
<1>1. RetentionInit => Init /\ RetentionInv
  BY CatalogInitInv DEF RetentionInit, RetentionInv
<1>2. RetentionInv /\ [RetentionNext]_retentionVars => [Next]_catalogVars /\ RetentionInv'
  BY RetentionSteps
<1>3. QED
  BY <1>1, <1>2, PTL DEF RetentionSpec, Spec
=============================================================================
