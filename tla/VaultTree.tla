------------------------------ MODULE VaultTree ------------------------------
(***************************************************************************)
(* The trees of the vault and the pure operations the namespace builder    *)
(* performs on them (vault-namespace-builder.ts, vault-path-mapper.ts).    *)
(*                                                                         *)
(* A git tree is abstracted to its file map: the page whose path has the   *)
(* segments <<"a", "b">> is the blob a/b.md, and a.md lies next to the     *)
(* directory a, never inside it.  Directories exist exactly while a file   *)
(* lies under them, since the code prunes empty ones.                      *)
(***************************************************************************)
EXTENDS Naturals, Sequences

CONSTANTS
    Paths,      \* page paths: non-empty sequences of encoded segments
    Excluded,   \* the paths under /trash, which the vault leaves out
    Revisions,  \* revision ids; a revision's body is identified with its id
    Lost,       \* the revisions whose document is gone when it is looked up
    Blank,      \* the empty body
    NoBlob      \* no entry at this path

ASSUME TreeAssumption ==
    /\ Excluded \subseteq Paths
    /\ Lost \subseteq Revisions
    /\ Blank \notin Revisions
    /\ NoBlob \notin Revisions \cup {Blank}

Bodies == Revisions \cup {Blank}
Tree == [Paths -> Bodies \cup {NoBlob}]
EmptyTree == [p \in Paths |-> NoBlob]

(* File p lies in the directory dir (mapPrefix: no .md on the last segment). *)
Under(p, dir) == Len(dir) < Len(p) /\ SubSeq(p, 1, Len(dir)) = dir

(* The path of file p, which lies under dir, in a copy of dir at other. *)
Rebase(p, dir, other) == other \o SubSeq(p, Len(dir) + 1, Len(p))

UpsertEntry(t, p, body) == [t EXCEPT ![p] = body]
RemoveEntry(t, p) == [t EXCEPT ![p] = NoBlob]

(* Later patches overwrite earlier ones; here every path has one patch. *)
ApplyPatches(t, patches) ==
    [p \in Paths |-> IF p \in DOMAIN patches THEN patches[p] ELSE t[p]]

HasSubtree(t, dir) == \E p \in Paths : Under(p, dir) /\ t[p] # NoBlob

RemoveSubtree(t, dir) ==
    [p \in Paths |-> IF Under(p, dir) THEN NoBlob ELSE t[p]]

(* Mounts at "at" the directory dir of the tree src: it replaces whatever    *)
(* directory was there, it is not merged with it.                            *)
MountSubtree(t, at, src, dir) ==
    [p \in Paths |->
        IF ~Under(p, at) THEN t[p]
        ELSE LET q == Rebase(p, at, dir)
             IN  IF q \in Paths THEN src[q] ELSE NoBlob]

(* rename-prefix: detach the directory and mount it elsewhere, if it exists. *)
RenamePrefix(t, from, to) ==
    IF HasSubtree(t, from)
    THEN MountSubtree(RemoveSubtree(t, from), to, t, from)
    ELSE t

(* The destination half of grant-change-prefix: src is the source            *)
(* namespace's tree as it was read before the directory was removed from it. *)
GrantMount(t, dir, src) ==
    IF HasSubtree(src, dir) THEN MountSubtree(t, dir, src, dir) ELSE t

(* A bulk upsert skips excluded pages and writes the empty body for a        *)
(* revision it cannot find.                                                  *)
BulkPatches(entries) ==
    [p \in DOMAIN entries \ Excluded |->
        IF entries[p] \in Lost THEN Blank ELSE entries[p]]
==============================================================================
