---------------------------- MODULE VaultViewTree ----------------------------
(***************************************************************************)
(* What a user clones: the trees of the namespaces merged path by path     *)
(* (vault-view-composer.ts) and given names that can be checked out        *)
(* (vault-tree-normalizer.ts).  Pure functions of the trees of             *)
(* VaultFileTree, whatever instructions made them; when they are called is *)
(* the subject of VaultViewComposer.                                       *)
(*                                                                         *)
(* A token of a name is a character or several that the code never cuts    *)
(* apart; a hash names what is hashed.                                     *)
(***************************************************************************)
EXTENDS VaultFileTree, TLC

CONSTANTS
    Rankings,      \* the kinds the namespaces may be of: namespace -> priority
    Lower,         \* token -> token, for the tokens with capital letters
    Dotted,        \* the tokens that begin with a dot; no other has one
    Wide,          \* the tokens of two bytes; the others, and a hash, have one
    NameBudget     \* MAX_ENTRY_NAME_BYTES

-----------------------------------------------------------------------------
(* The merge.  File maps are functions from sequences of entry names. *)

NoFiles == [f \in {} |-> NoBlob]

RECURSIVE Leaves(_)
Leaves(entries) ==
    UNION {IF IsDirectory(entries, name)
           THEN {<<<<name>> \o leaf[1], leaf[2]>> : leaf \in Leaves(entries[name].oid)}
           ELSE {<<<<name>>, entries[name].oid>>} : name \in DOMAIN entries}

(* Mistake, in no specification: the first namespace keeps the file. *)
WinsIfFree(rank, ns, f, merged) == f \notin DOMAIN merged

Wins(rank, ns, f, merged) ==
    f \in DOMAIN merged => rank[ns] > rank[merged[f].ns]

(* collectLeafBlobs *)
Collect(trees, rank, merged, ns) ==
    LET won == {leaf \in Leaves(trees[ns]) : Wins(rank, ns, leaf[1], merged)}
    IN  [f \in {leaf[1] : leaf \in won} |->
            [ns |-> ns, oid |-> (CHOOSE leaf \in won : leaf[1] = f)[2]]] @@ merged

(* fullMergeTreesByPath *)
FullMerge(trees, rank, namespaces) ==
    LET merged == FoldLeft(LAMBDA acc, ns : Collect(trees, rank, acc, ns), NoFiles, namespaces)
    IN  [f \in DOMAIN merged |-> merged[f].oid]

(* applyNamespaceDeltas: everything is read again, what changed comes last. *)
DeltaMerge(trees, rank, namespaces, changed) ==
    FullMerge(trees, rank, SelectSeq(namespaces, LAMBDA ns : ns \notin changed)
                        \o SelectSeq(namespaces, LAMBDA ns : ns \in changed))

(* Mistake, in no specification: a directory replaces the file of its name. *)
RECURSIVE BuildDirectories(_)
BuildDirectories(merged) ==
    [name \in {Head(f) : f \in DOMAIN merged} |->
        LET below == {Tail(f) : f \in {g \in DOMAIN merged : Head(g) = name}} \ {<<>>}
        IN  IF below = {} THEN Blob(merged[<<name>>])
            ELSE Directory(BuildDirectories([f \in below |-> merged[<<name>> \o f]]))]

(* buildTreeNodes: a file wins over the directory of its name, and what is   *)
(* in that directory is never attached.                                      *)
RECURSIVE Build(_)
Build(merged) ==
    [name \in {Head(f) : f \in DOMAIN merged} |->
        LET below == {Tail(f) : f \in {g \in DOMAIN merged : Head(g) = name}} \ {<<>>}
        IN  IF <<name>> \in DOMAIN merged THEN Blob(merged[<<name>>])
            ELSE Directory(Build([f \in below |-> merged[<<name>> \o f]]))]

-----------------------------------------------------------------------------
(* Names that can be checked out. *)

LowerCase(name) ==
    [k \in DOMAIN name |-> IF name[k] \in DOMAIN Lower THEN Lower[name[k]] ELSE name[k]]

Bytes(name) == Len(name) + Len(SelectSeq(name, LAMBDA token : token \in Wide))
Fits(name) == Bytes(name) <= NameBudget

(* computeHash8, of the full path before any suffix *)
Hash(path) == <<"__" \o ToString(path)>>

(* The place of the last dot, unless the name begins with it. *)
Extension(name) ==
    Max({0} \cup {k \in 2 .. Len(name) :
                      \A j \in k .. Len(name) : name[j] \in Dotted <=> j = k})

(* truncateToBytes: the longest beginning that fits. *)
Truncated(text, bytes) ==
    SubSeq(text, 1, Max({k \in 0 .. Len(text) : Bytes(SubSeq(text, 1, k)) <= bytes}))

(* Mistake, in no specification: the budget is that of the name alone. *)
SuffixUnbounded(name, path) ==
    LET dot == Extension(name)
    IN  IF dot = 0 THEN Truncated(name, NameBudget) \o Hash(path)
        ELSE Truncated(SubSeq(name, 1, dot - 1), NameBudget) \o Hash(path)
                 \o SubSeq(name, dot, Len(name))

(* insertSuffix *)
InsertSuffix(name, path) ==
    LET dot == Extension(name)
        extension == IF dot = 0 THEN <<>> ELSE SubSeq(name, dot, Len(name))
        stem == SubSeq(name, 1, Len(name) - Len(extension))
        budget == NameBudget - Bytes(Hash(path)) - Bytes(extension)
    IN  IF budget <= 0
        THEN Truncated(name, NameBudget - Bytes(Hash(path))) \o Hash(path)
        ELSE Truncated(stem, budget) \o Hash(path) \o extension

Clashes(name, names) ==
    \E other \in names \ {name} : LowerCase(other) = LowerCase(name)

NewName(name, names, path) ==
    IF Clashes(name, names) \/ ~Fits(name) THEN InsertSuffix(name, path) ELSE name

(* Mistake, in no specification: the hash is of the renamed directory's path. *)
RECURSIVE NormalizeRenamed(_, _)
NormalizeRenamed(entries, parent) ==
    {LET path == Append(parent, NewName(name, DOMAIN entries, Append(parent, name)))
     IN  [name |-> Last(path), of |-> name, type |-> entries[name].type,
          oid |-> IF IsDirectory(entries, name)
                  THEN NormalizeRenamed(entries[name].oid, path) ELSE entries[name].oid]
        : name \in DOMAIN entries}

(* normalizeTree.  A node also has the name it was made of. *)
RECURSIVE Normalize(_, _)
Normalize(entries, parent) ==
    {LET path == Append(parent, name)
     IN  [name |-> NewName(name, DOMAIN entries, path), of |-> name,
          type |-> entries[name].type,
          oid |-> IF IsDirectory(entries, name)
                  THEN Normalize(entries[name].oid, path) ELSE entries[name].oid]
        : name \in DOMAIN entries}

(* buildTreeFromFileMap *)
View(merged) == Normalize(Build(merged), <<>>)

-----------------------------------------------------------------------------
(* Properties. *)

ViewOrder == SetToSeq(Namespaces)
FullView(trees, rank) == View(FullMerge(trees, rank, ViewOrder))

RECURSIVE Usable(_)
Usable(nodes) ==
    /\ \A n \in nodes : Fits(n.name) /\ (n.type = "tree" => Usable(n.oid))
    /\ \A n, m \in nodes : LowerCase(n.name) = LowerCase(m.name) => n = m

(* A view can be checked out on any file system: in each of its directories  *)
(* no two names are equal but for the case of letters, and none is too long, *)
(* with the suffix that was added to keep them apart.                        *)
Cloneable == \A rank \in Rankings : Usable(FullView(root, rank))

RECURSIVE Placed(_)
Placed(nodes) ==
    UNION {IF n.type = "tree"
           THEN {[of |-> <<n.of>> \o p.of, at |-> <<n.name>> \o p.at, oid |-> p.oid] :
                     p \in Placed(n.oid)}
           ELSE {[of |-> <<n.of>>, at |-> <<n.name>>, oid |-> n.oid]} : n \in nodes}

Files(ns) == {leaf[1] : leaf \in Leaves(root[ns])}
Merged == UNION {Files(ns) : ns \in Namespaces}
HoldersOf(f) == {ns \in Namespaces : BodyAt(root[ns], f) # NoBlob}
Shown(merged) == {f \in merged : \A g \in merged : ~IsStrictPrefix(g, f)}

(* Each file of each namespace is in the view, in one place that no other    *)
(* file has, with the body of a holder of the highest priority; and nothing  *)
(* else is in the view.  Only files in a directory that has the name of a    *)
(* file are lost (the page /a of one namespace, pages below /a.md of         *)
(* another).                                                                 *)
ViewHoldsFiles ==
    \A rank \in Rankings :
        LET placed == Placed(FullView(root, rank))
        IN  /\ {p.of : p \in placed} = Shown(Merged)
            /\ Cardinality({p.of : p \in placed}) = Cardinality(placed)
            /\ Cardinality({p.at : p \in placed}) = Cardinality(placed)
            /\ \A p \in placed : \E ns \in HoldersOf(p.of) :
                  /\ BodyAt(root[ns], p.of) = p.oid
                  /\ \A other \in HoldersOf(p.of) : rank[other] <= rank[ns]

(* Two namespaces of one priority have different bodies for a file. *)
Disputed(rank, f) ==
    \E ns, other \in HoldersOf(f) :
        rank[ns] = rank[other] /\ BodyAt(root[ns], f) # BodyAt(root[other], f)

(* A view composed after a change of some namespaces is the one composed     *)
(* from all of them: a user who clones for the first time gets what another  *)
(* gets who has cloned before.  Files that groups dispute are the exception: *)
(* there the order of the merge decides.                                     *)
DeltaIsFull ==
    \A rank \in Rankings :
        (\A f \in Merged : ~Disputed(rank, f)) =>
            LET full == FullView(root, rank)
            IN  \A changed \in SUBSET Namespaces :
                    View(DeltaMerge(root, rank, ViewOrder, changed)) = full

Siblings(shown, f, k) ==
    {g[k] : g \in {h \in shown : Len(h) >= k /\ SubSeq(h, 1, k - 1) = SubSeq(f, 1, k - 1)}}

RenamedWithReason(before, after) ==
    LET old == {p.of : p \in before}  new == {q.of : q \in after}
    IN  \A p \in before : \A q \in {x \in after : x.of = p.of} :
            \A k \in {j \in DOMAIN p.of : p.at[j] # q.at[j]} :
                Clashes(p.of[k], Siblings(old, p.of, k))
                    # Clashes(p.of[k], Siblings(new, p.of, k))

AnyRanking == CHOOSE rank \in Rankings : TRUE

(* A change of pages renames no other file in the clones: a file's name, and *)
(* that of each directory it lies in, changes only when a name beside it     *)
(* that is equal but for case comes or goes; not when a directory above is   *)
(* renamed.  (Priorities decide on bodies, not on names: any will do.)       *)
NamesStay ==
    [][\E before \in {Placed(FullView(root, AnyRanking))},
          after \in {Placed(FullView(root', AnyRanking))} :
              RenamedWithReason(before, after)]_vars
==============================================================================
