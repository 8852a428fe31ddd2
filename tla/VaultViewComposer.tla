-------------------------- MODULE VaultViewComposer --------------------------
(***************************************************************************)
(* Composition of the per-user view (vault-view-composer.ts) while the     *)
(* namespaces it merges are moving.  Every clone or fetch of a user sends  *)
(* a compose-view request; requests of one user share a view ref and a     *)
(* document of vault_user_views, and interleave at their awaits with each  *)
(* other and with the two writers of the namespaces: the builder, and the  *)
(* squash track of the maintenance scheduler.                              *)
(*                                                                         *)
(* The commits of a namespace are numbered, and so are its trees, by the   *)
(* commit of the builder that first shows them; 0 stands for none.  The    *)
(* merged tree is abstracted to the tree each namespace was read at: what  *)
(* the merge does with the trees is no concern of this module.             *)
(***************************************************************************)
EXTENDS Naturals

CONSTANTS
    Namespaces,
    Requests,      \* the compose-view requests of one user, in no order
    Accessible,    \* the namespace lists the gateway may send
    NoView,        \* no view ref, or no vault_user_views document
    MaxCommits,    \* bound: commits per namespace
    MaxResets      \* bound: reset-all instructions

ASSUME ComposerAssumption ==
    /\ Accessible \subseteq SUBSET Namespaces
    /\ MaxCommits \in Nat /\ MaxResets \in Nat

VARIABLES
    ref,       \* namespace -> the commit its ref names
    recorded,  \* namespace -> vault_namespace_state.commitOid
    last,      \* namespace -> the number of the last commit made for it
    builder,   \* what the builder has still to do
    squash,    \* namespace -> the squash in progress on it
    resets,    \* counter of the bounded reset-all instructions
    undone,    \* history: namespace -> its last commit when a reset removed
               \* its ref or a squash put an older tree there
    viewRef,   \* the commit the view ref names
    cache,     \* the user's vault_user_views document
    torn,      \* history: a compose wrote the one of them without the other
    request    \* the requests and their local variables

namespaces == <<ref, recorded, last, builder, squash, resets, undone>>
views == <<viewRef, cache, torn>>
vars == <<namespaces, views, request>>

Number == 0 .. MaxCommits
Commit == [tree : Number, id : Number]
NoCommit == [tree |-> 0, id |-> 0]

Versions == UNION {[S -> Commit] : S \in Accessible}
Merged == UNION {[S -> Number] : S \in Accessible}
View == [by : Requests, content : Merged]
Cached == [commit : View, versions : Versions]

Free == [at |-> "free"]
Record(ns, c) == [at |-> "record", ns |-> ns, commit |-> c]
Wipe(at) == [at |-> at]

NoSquash == [at |-> "idle"]
Squashing(at, c) == [at |-> at, commit |-> c]

New == [at |-> "new"]

Init ==
    /\ ref = [ns \in Namespaces |-> NoCommit]
    /\ recorded = ref
    /\ last = [ns \in Namespaces |-> 0] /\ undone = last
    /\ builder = Free
    /\ squash = [ns \in Namespaces |-> NoSquash]
    /\ resets = 0
    /\ viewRef = NoView /\ cache = NoView /\ torn = FALSE
    /\ request = [q \in Requests |-> New]

-----------------------------------------------------------------------------
(* The namespace builder, as far as the composer can see it. *)

(* commitAndUpdateRef: the ref first, ... *)
UpdateNamespaceRef(ns) ==
    /\ builder = Free
    /\ last[ns] < MaxCommits
    /\ LET n == last[ns] + 1
           c == [tree |-> n, id |-> n]
       IN  /\ last' = [last EXCEPT ![ns] = n]
           /\ ref' = [ref EXCEPT ![ns] = c]
           /\ builder' = Record(ns, c)
    /\ UNCHANGED <<recorded, squash, resets, undone, views, request>>

(* ... the state document second, in an await of its own. *)
UpsertNamespace ==
    /\ builder.at = "record"
    /\ recorded' = [recorded EXCEPT ![builder.ns] = builder.commit]
    /\ builder' = Free
    /\ UNCHANGED <<ref, last, squash, resets, undone, views, request>>

(* reset-all deletes the refs that have a document, the documents, the views. *)
ResetRefs ==
    /\ builder = Free
    /\ resets < MaxResets
    /\ resets' = resets + 1
    /\ LET kept == {ns \in Namespaces : recorded[ns] = NoCommit}
       IN  /\ ref' = [ns \in Namespaces |-> IF ns \in kept THEN ref[ns] ELSE NoCommit]
           /\ undone' = [ns \in Namespaces |->
                           IF ns \in kept THEN undone[ns] ELSE last[ns]]
    /\ builder' = Wipe("states")
    /\ UNCHANGED <<recorded, last, squash, views, request>>

ResetStates ==
    /\ builder.at = "states"
    /\ recorded' = [ns \in Namespaces |-> NoCommit]
    /\ builder' = Wipe("views")
    /\ UNCHANGED <<ref, last, squash, resets, undone, views, request>>

ResetViews ==
    /\ builder.at = "views"
    /\ cache' = NoView
    /\ builder' = Free
    /\ UNCHANGED <<ref, recorded, last, squash, resets, undone, viewRef, torn, request>>

(* An await rejects: the instruction is begun again later. *)
BuildFails ==
    /\ builder # Free
    /\ builder' = Free
    /\ UNCHANGED <<ref, recorded, last, squash, resets, undone, views, request>>

Build ==
    \/ \E ns \in Namespaces : UpdateNamespaceRef(ns)
    \/ UpsertNamespace
    \/ ResetRefs \/ ResetStates \/ ResetViews
    \/ BuildFails

-----------------------------------------------------------------------------
(* The squash track, the second writer.  It takes no notice of the builder;  *)
(* which namespaces are due for a squash is left open.                       *)

(* The commit is the document's, whatever the ref names by now. *)
SquashBegin(ns) ==
    /\ squash[ns] = NoSquash
    /\ recorded[ns] # NoCommit
    /\ squash' = [squash EXCEPT ![ns] = Squashing("ref", recorded[ns])]
    /\ UNCHANGED <<ref, recorded, last, builder, resets, undone, views, request>>

(* A root commit with the tree of that commit replaces the history. *)
SquashRef(ns) ==
    /\ squash[ns].at = "ref"
    /\ last[ns] < MaxCommits
    /\ LET c == [tree |-> squash[ns].commit.tree, id |-> last[ns] + 1]
       IN  /\ ref' = [ref EXCEPT ![ns] = c]
           /\ squash' = [squash EXCEPT ![ns] = Squashing("state", c)]
           /\ undone' = IF c.tree < ref[ns].tree
                        THEN [undone EXCEPT ![ns] = last[ns]] ELSE undone
    /\ last' = [last EXCEPT ![ns] = @ + 1]
    /\ UNCHANGED <<recorded, builder, resets, views, request>>

(* findOneAndUpdate with upsert: true recreates a deleted document. *)
SquashState(ns) ==
    /\ squash[ns].at = "state"
    /\ recorded' = [recorded EXCEPT ![ns] = squash[ns].commit]
    /\ squash' = [squash EXCEPT ![ns] = NoSquash]
    /\ UNCHANGED <<ref, last, builder, resets, undone, views, request>>

(* Errors are swallowed; the finally block releases the namespace. *)
SquashFails(ns) ==
    /\ squash[ns] # NoSquash
    /\ squash' = [squash EXCEPT ![ns] = NoSquash]
    /\ UNCHANGED <<ref, recorded, last, builder, resets, undone, views, request>>

Maintain ==
    \E ns \in Namespaces :
        SquashBegin(ns) \/ SquashRef(ns) \/ SquashState(ns) \/ SquashFails(ns)

-----------------------------------------------------------------------------
(* Mistakes the runs must notice; no specification uses these definitions.   *)

(* The versions are read again for the cache, after the merge. *)
UpsertViewRereadsVersions(q) ==
    /\ request[q].at = "cache"
    /\ cache' = [commit |-> [by |-> q, content |-> request[q].content],
                 versions |-> [ns \in DOMAIN request[q].versions |-> recorded[ns]]]
    /\ request' = [request EXCEPT ![q].at = "done",
                                  ![q].result = cache'.commit]
    /\ torn' = ~request[q].alone
    /\ UNCHANGED <<namespaces, viewRef>>

(* The view ref is only created, never moved. *)
UpdateViewRefOnce(q) ==
    /\ request[q].at = "merge"
    /\ DOMAIN request[q].content = DOMAIN request[q].versions
    /\ viewRef' = IF viewRef = NoView THEN [by |-> q, content |-> request[q].content]
                  ELSE viewRef
    /\ request' = [request EXCEPT ![q].at = "cache"]
    /\ UNCHANGED <<namespaces, cache, torn>>

(* The merge of the namespaces is not awaited. *)
UpdateViewRefEarly(q) ==
    /\ request[q].at = "merge"
    /\ viewRef' = [by |-> q, content |-> request[q].content]
    /\ request' = [request EXCEPT ![q].at = "cache"]
    /\ UNCHANGED <<namespaces, cache, torn>>

-----------------------------------------------------------------------------
(* compose. *)

InProgress(q) == request[q].at \in {"find", "merge", "cache"}

(* getCommitOidMap; a namespace without a document has the version ''.       *)
(* alone is history: no other compose overlaps with this one.                *)
GetVersions(q, S) ==
    /\ request[q] = New
    /\ request' = [r \in Requests |->
         CASE r = q -> [at |-> "find", versions |-> [ns \in S |-> recorded[ns]],
                        existing |-> FALSE, content |-> <<>>, result |-> NoView,
                        alone |-> ~\E o \in Requests : InProgress(o)]
           [] r # q /\ InProgress(r) -> [request[r] EXCEPT !.alone = FALSE]
           [] OTHER -> request[r]]
    /\ UNCHANGED <<namespaces, views>>

(* sourceVersionsEqual decides between the cached view and a merge. *)
FindView(q) ==
    /\ request[q].at = "find"
    /\ LET hit == cache # NoView /\ cache.versions = request[q].versions
       IN  request' = [request EXCEPT ![q] =
                         IF hit THEN [@ EXCEPT !.at = "done", !.result = cache.commit]
                         ELSE [@ EXCEPT !.at = "merge", !.existing = cache # NoView]]
    /\ UNCHANGED <<namespaces, views>>

(* Both merges read the ref of every namespace, one await after the other.   *)
ReadRef(q, ns) ==
    /\ request[q].at = "merge"
    /\ ns \in DOMAIN request[q].versions \ DOMAIN request[q].content
    /\ request' = [request EXCEPT ![q].content =
                     [m \in DOMAIN @ \cup {ns} |-> IF m = ns THEN ref[ns].tree ELSE @[m]]]
    /\ UNCHANGED <<namespaces, views>>

(* The delta merge fails: a full merge starts over. *)
FallBack(q) ==
    /\ request[q].at = "merge"
    /\ request[q].existing
    /\ request' = [request EXCEPT ![q].existing = FALSE, ![q].content = <<>>]
    /\ UNCHANGED <<namespaces, views>>

UpdateViewRef(q) ==
    /\ request[q].at = "merge"
    /\ DOMAIN request[q].content = DOMAIN request[q].versions
    /\ viewRef' = [by |-> q, content |-> request[q].content]
    /\ request' = [request EXCEPT ![q].at = "cache"]
    /\ UNCHANGED <<namespaces, cache, torn>>

UpsertView(q) ==
    /\ request[q].at = "cache"
    /\ cache' = [commit |-> [by |-> q, content |-> request[q].content],
                 versions |-> request[q].versions]
    /\ request' = [request EXCEPT ![q].at = "done",
                                  ![q].result = cache'.commit]
    /\ torn' = ~request[q].alone
    /\ UNCHANGED <<namespaces, viewRef>>

(* An await rejects: the controller answers 500. *)
ComposeFails(q) ==
    /\ InProgress(q)
    /\ request' = [request EXCEPT ![q] = [at |-> "failed"]]
    /\ torn' = (torn \/ request[q].at = "cache")
    /\ UNCHANGED <<namespaces, viewRef, cache>>

Compose(q) ==
    \/ \E S \in Accessible : GetVersions(q, S)
    \/ FindView(q)
    \/ \E ns \in Namespaces : ReadRef(q, ns)
    \/ FallBack(q) \/ UpdateViewRef(q) \/ UpsertView(q) \/ ComposeFails(q)

(* The process dies; an instruction in progress is begun again later. *)
Crash ==
    /\ builder' = Free
    /\ squash' = [ns \in Namespaces |-> NoSquash]
    /\ request' = [q \in Requests |->
                     IF InProgress(q) THEN [at |-> "failed"] ELSE request[q]]
    /\ torn' = (torn \/ \E q \in Requests : request[q].at = "cache")
    /\ UNCHANGED <<ref, recorded, last, resets, undone, viewRef, cache>>

Next ==
    \/ Build
    \/ Maintain
    \/ \E q \in Requests : Compose(q)
    \/ Crash

Spec == Init /\ [][Next]_vars

-----------------------------------------------------------------------------
(* Properties. *)

Done(q) == request[q].at = "done"

(* A view and its document are whole: the requests write no partial merge.   *)
TypeOK ==
    /\ {ref, recorded} \subseteq [Namespaces -> Commit]
    /\ {last, undone} \subseteq [Namespaces -> Number]
    /\ builder \in {Free, Wipe("states"), Wipe("views")}
                   \cup {Record(ns, c) : ns \in Namespaces, c \in Commit}
    /\ squash \in [Namespaces -> {NoSquash} \cup
                     {Squashing(at, c) : at \in {"ref", "state"}, c \in Commit}]
    /\ viewRef \in View \cup {NoView}
    /\ torn \in BOOLEAN
    /\ cache \in Cached \cup {NoView}
    /\ cache # NoView => DOMAIN cache.versions = DOMAIN cache.commit.content
    /\ \A q \in Requests : request[q].at \in
          {"new", "find", "merge", "cache", "done", "failed"}

(* The view a request is answered with shows the namespaces it asked for,    *)
(* each with the tree that was recorded when the request began or with a     *)
(* later one, whether it was merged or taken from the cache.  Two things     *)
(* may undo a recorded tree: a reset, and a squash of the namespace that had *)
(* read its document before the tree was recorded.                           *)
FreshView ==
    \A q \in Requests : Done(q) =>
        LET v == request[q].versions
            content == request[q].result.content
        IN  /\ DOMAIN content = DOMAIN v
            /\ \A ns \in DOMAIN v :
                  content[ns] >= v[ns].tree \/ v[ns].tree <= undone[ns]

(* compose returns "viewRef and the commitOid at its tip".  It does so for a *)
(* request that no other compose of the user overlaps with, unless the view  *)
(* ref and the document were left apart: composes that overlap write them in *)
(* any order, one that fails or dies between the two writes only the ref,    *)
(* and then a cached commit is returned until a merge has brought them back  *)
(* together.                                                                 *)
ReturnsTheTip ==
    [][\A q \in Requests : (~Done(q) /\ Done(q)') =>
          \/ viewRef' = request'[q].result
          \/ ~request[q].alone
          \/ torn']_vars
==============================================================================
