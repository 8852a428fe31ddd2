---------------------------- MODULE VaultFileTree ----------------------------
(***************************************************************************)
(* The git trees behind VaultTree: what the recursive tree functions of    *)
(* vault-namespace-builder.ts and the file names of vault-path-mapper.ts   *)
(* make of the instructions, next to the file maps of VaultTree.           *)
(*                                                                         *)
(* A segment of a page path is a sequence of tokens, for instance          *)
(* <<"a">>, <<"CON">> or <<"_", "CON">>.  A tree is a function from entry  *)
(* names to entries; an object id is identified with what it names.        *)
(***************************************************************************)
EXTENDS VaultInstruction, SequencesExt

CONSTANTS
    UnsafeTokens,    \* reserved and control characters, outer spaces
    ReservedNames    \* segments that are reserved file names on Windows

VARIABLES
    root,   \* namespace -> its root tree
    files   \* namespace -> its file map, as VaultTree has it

vars == <<root, files>>

NoEntries == [name \in {} |-> NoBlob]

Init ==
    /\ root = [ns \in Namespaces |-> NoEntries]
    /\ files = [ns \in Namespaces |-> EmptyTree]

-----------------------------------------------------------------------------
(* Names. *)

Percent(token) == IF token \in UnsafeTokens THEN "%" \o token ELSE token

EncodeSegment(segment) ==
    LET encoded == [k \in DOMAIN segment |-> Percent(segment[k])]
    IN  IF segment \in ReservedNames THEN <<"_">> \o encoded ELSE encoded

MapPrefix(path) == [k \in DOMAIN path |-> EncodeSegment(path[k])]

FilePath(path) ==
    LET encoded == MapPrefix(path)
    IN  Append(Front(encoded), Append(Last(encoded), ".md"))

-----------------------------------------------------------------------------
(* Trees. *)

Blob(body) == [type |-> "blob", oid |-> body]
Directory(entries) == [type |-> "tree", oid |-> entries]

Without(entries, name) == [n \in DOMAIN entries \ {name} |-> entries[n]]
With(entries, name, entry) ==
    [n \in DOMAIN entries \cup {name} |-> IF n = name THEN entry ELSE entries[n]]

IsDirectory(entries, name) ==
    name \in DOMAIN entries /\ entries[name].type = "tree"

(* upsertEntryInTree and mountSubtreeInTree: the entry replaces what has its *)
(* name, whatever its type.                                                  *)
RECURSIVE Place(_, _, _)
Place(entries, segments, entry) ==
    LET head == Head(segments)
        child == IF IsDirectory(entries, head) THEN entries[head].oid ELSE NoEntries
    IN  IF Len(segments) = 1 THEN With(entries, head, entry)
        ELSE With(entries, head, Directory(Place(child, Tail(segments), entry)))

(* Mistake, in no specification: a directory outlives its last entry. *)
RECURSIVE DropKeepsEmpty(_, _)
DropKeepsEmpty(entries, segments) ==
    LET head == Head(segments)
    IN  IF Len(segments) = 1 THEN Without(entries, head)
        ELSE IF ~IsDirectory(entries, head) THEN entries
        ELSE With(entries, head,
                  Directory(DropKeepsEmpty(entries[head].oid, Tail(segments))))

(* removeEntryFromTree and removeSubtreeFromTree: empty directories go too. *)
RECURSIVE Drop(_, _)
Drop(entries, segments) ==
    LET head == Head(segments)
    IN  IF Len(segments) = 1 THEN Without(entries, head)
        ELSE IF ~IsDirectory(entries, head) THEN entries
        ELSE LET child == Drop(entries[head].oid, Tail(segments))
             IN  IF DOMAIN child = {} THEN Without(entries, head)
                 ELSE With(entries, head, Directory(child))

(* getSubtreeOid; no entries stand for its null. *)
RECURSIVE Subtree(_, _)
Subtree(entries, segments) ==
    CASE segments = <<>> -> entries
      [] segments # <<>> /\ IsDirectory(entries, Head(segments)) ->
            Subtree(entries[Head(segments)].oid, Tail(segments))
      [] OTHER -> NoEntries

(* Mistake, in no specification: the directory is mounted at the root. *)
MountAtRoot(entries, prefix, subtree) ==
    IF DOMAIN subtree = {} THEN entries
    ELSE Place(entries, <<Last(MapPrefix(prefix))>>, Directory(subtree))

Mount(entries, prefix, subtree) ==
    IF DOMAIN subtree = {} THEN entries
    ELSE Place(entries, MapPrefix(prefix), Directory(subtree))

-----------------------------------------------------------------------------
(* The handlers.  They take the tree of their namespace and, for the         *)
(* destination of a grant change, the subtree of the source.                 *)

(* applyPatchesToTree folds the entries one after the other. *)
ApplyEntries(t, entries) ==
    FoldLeft(LAMBDA acc, p :
                 Place(acc, FilePath(p),
                       Blob(IF entries[p] \in Lost THEN Blank ELSE entries[p])),
             t, SetToSeq(DOMAIN entries \ Excluded))

Rename(t, from, to) ==
    Mount(Drop(t, MapPrefix(from)), to, Subtree(t, MapPrefix(from)))

Handle(i, ns, t, subtree) ==
    CASE i.op = "upsert" -> Place(t, FilePath(i.path), Blob(i.rev))
      [] i.op = "remove" -> Drop(t, FilePath(i.path))
      [] i.op = "bulk-upsert" -> ApplyEntries(t, i.entries)
      [] i.op = "rename-prefix" -> Rename(t, i.oldPrefix, i.newPrefix)
      [] i.op = "grant-change-prefix" ->
            IF ns = i.fromNs THEN Drop(t, MapPrefix(i.oldPrefix))
                             ELSE Mount(t, i.oldPrefix, subtree)
      [] i.op = "reset-all" -> NoEntries

(* Bound: no page is renamed to a path that is not in Paths. *)
StaysInPaths(i) ==
    i.op = "rename-prefix" =>
        \A p \in Paths : (Under(p, i.oldPrefix) /\ files[i.ns][p] # NoBlob) =>
            Rebase(p, i.oldPrefix, i.newPrefix) \in Paths

Apply(i) ==
    /\ ~Rejected(i)
    /\ StaysInPaths(i)
    /\ LET grant == i.op = "grant-change-prefix"
           subtree == IF grant THEN Subtree(root[i.fromNs], MapPrefix(i.oldPrefix))
                      ELSE NoEntries
           src == IF grant THEN files[i.fromNs] ELSE EmptyTree
       IN  /\ root' = [ns \in Namespaces |->
                         IF ns \in Touches(i) THEN Handle(i, ns, root[ns], subtree)
                         ELSE root[ns]]
           /\ files' = [ns \in Namespaces |->
                          IF ns \in Touches(i) THEN Effect(i, ns, files[ns], src)
                          ELSE files[ns]]

Next == \E i \in Instructions : Apply(i)

Spec == Init /\ [][Next]_vars

-----------------------------------------------------------------------------
(* Properties. *)

BodyAt(entries, file) ==
    LET directory == Subtree(entries, Front(file))
    IN  IF Last(file) \in DOMAIN directory /\ directory[Last(file)].type = "blob"
        THEN directory[Last(file)].oid ELSE NoBlob

(* Two pages that cannot both be cloned: they have one file, or the file of  *)
(* one is a directory on the way to the other's.                             *)
Rivals(p, q) ==
    p # q /\ (IsPrefix(FilePath(p), FilePath(q)) \/ IsPrefix(FilePath(q), FilePath(p)))

(* Whatever the sequence of instructions, a clone finds the body of every    *)
(* page in the file its path is mapped to, and no file for any other page:   *)
(* the trees hold exactly what VaultTree's file maps say.  Pages with a      *)
(* rival are the exception: the mapping of names is not injective for        *)
(* reserved names (/CON and /_CON) nor for segments that end in .md (/a and  *)
(* what is below /a.md).  While the directories they lie in stay where they  *)
(* are, they disturb no other page.                                          *)
SameFiles ==
    \A ns \in Namespaces, p \in Paths :
        BodyAt(root[ns], FilePath(p)) = files[ns][p] \/ \E q \in Paths : Rivals(p, q)

RECURSIVE Pruned(_)
Pruned(entries) ==
    \A name \in DOMAIN entries :
        entries[name].type = "tree" =>
            DOMAIN entries[name].oid # {} /\ Pruned(entries[name].oid)

(* Removing a page leaves no empty directory behind, on any level: a later   *)
(* rename or grant change of such a directory would find it and replace      *)
(* another one with it.                                                      *)
NoEmptyDirectory == \A ns \in Namespaces : Pruned(root[ns])
==============================================================================
