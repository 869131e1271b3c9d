--------------------------- MODULE VersionedStore ---------------------------
(***************************************************************************)
(* What a vault promises its user, with no file ids, version ids, chunks,  *)
(* reference counts or upload sessions: a tree of documents, each with a   *)
(* head content and the set of contents it ever had, and a trash of whole  *)
(* documents.  VaultCatalog is shown to implement it.                      *)
(***************************************************************************)
CONSTANTS Path,     \* virtual paths
          Content,  \* what a document can contain
          Absent    \* no document at a path; not a document

VARIABLES tree,     \* the visible document at each path
          trash     \* <<path, document>> pairs that can be restored

storeVars == <<tree, trash>>

StoreInit ==
  /\ tree = [p \in Path |-> Absent]
  /\ trash = {}

\* New content becomes the head; everything the document had is kept.
Write(p, c) ==
  /\ tree[p] # Absent => tree[p].head # c
  /\ tree' = [tree EXCEPT ![p] =
                [head |-> c,
                 past |-> IF tree[p] = Absent THEN {c} ELSE tree[p].past \cup {c}]]
  /\ UNCHANGED trash

\* An old content becomes the head again.
Rollback(p, c) ==
  /\ tree[p] # Absent
  /\ c \in tree[p].past
  /\ tree' = [tree EXCEPT ![p].head = c]
  /\ UNCHANGED trash

\* Documents at the paths S move at once, each to its own free destination.
Rename(S, to) ==
  /\ \A s \in S : tree[s] # Absent
  /\ \A s \in S : tree[to[s]] = Absent \/ to[s] \in S
  /\ \A s, t \in S : to[s] = to[t] => s = t
  /\ tree' = [p \in Path |->
                IF \E s \in S : to[s] = p
                THEN tree[CHOOSE s \in S : to[s] = p]
                ELSE IF p \in S THEN Absent ELSE tree[p]]
  /\ UNCHANGED trash

Trashed(p) == {entry[2] : entry \in {e \in trash : e[1] = p}}

Delete(p) ==
  /\ tree[p] # Absent
  /\ tree' = [tree EXCEPT ![p] = Absent]
  /\ trash' = trash \cup {<<p, tree[p]>>}

\* The pair stays in the set when the trash holds an equal document twice.
Restore(p) ==
  /\ tree[p] = Absent
  /\ \E d \in Trashed(p) :
       /\ tree' = [tree EXCEPT ![p] = d]
       /\ trash' \in {trash, trash \ {<<p, d>>}}

Purge(p) ==
  /\ \E d \in Trashed(p) : trash' = trash \ {<<p, d>>}
  /\ UNCHANGED tree

StoreNext ==
  \/ \E p \in Path, c \in Content : Write(p, c) \/ Rollback(p, c)
  \/ \E p \in Path : Delete(p) \/ Restore(p) \/ Purge(p)
  \/ \E S \in SUBSET Path : \E to \in [S -> Path] : Rename(S, to)

StoreSpec == StoreInit /\ [][StoreNext]_storeVars
=============================================================================
