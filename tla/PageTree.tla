------------------------------- MODULE PageTree -------------------------------
(***************************************************************************)
(* The tree of the wiki's pages (service/page/index.ts): rename, create,   *)
(* delete and complete deletion, which go on in the background after they  *)
(* have answered, the page operations they record                          *)
(* (service/page-operation.ts), and what a restart or a user resumes.      *)
(*                                                                         *)
(* Every page is public and has been migrated to the tree (the v5          *)
(* process).  A path is a sequence of names, none a prefix of another, so  *)
(* that the code's matching of strings is matching of names.  Each step    *)
(* ends at an await that writes; reads that follow each other without a    *)
(* decision between them are one step.  Ids count the documents that were  *)
(* ever inserted, in their order.                                          *)
(***************************************************************************)
EXTENDS Integers, Sequences, FiniteSets, SequencesExt, Functions

CONSTANTS
    Runs,       \* the requests and their resumptions, once each
    Worlds      \* the initial pages and redirects, and for each the bounds of
                \* what is asked for and how often each event happens

Events == {"request", "resume", "crash", "failure"}

Top == 0
NoId == -1
NoPath == <<"nowhere">>
TrashPath == <<"trash">>
NoPage == [kind |-> "none", path |-> NoPath, parent |-> NoId, count |-> 0]

(* Of the strings, the two that are used above (the provers know of none that *)
(* it is in STRING).                                                         *)
Names == STRING \cup {"nowhere", "trash"}

(* What a user gives names to: no path of the trash. *)
IsPath(p) ==
    p \in Seq(Names) /\ ~IsPrefix(NoPath, p) /\ ~IsPrefix(TrashPath, p)

(* The fields of a document, of which there are those with ids.              *)
IsDocument(doc, ids) ==
    /\ doc = [kind |-> doc.kind, path |-> doc.path, parent |-> doc.parent, count |-> doc.count]
    /\ doc.kind \in {"page", "empty", "trash", "none"}
    /\ doc.path \in Seq(Names)
    /\ doc.parent \in ids \cup {NoId}
    /\ doc.kind = "none" => doc = NoPage

IsCollection(docs) ==
    /\ IsFiniteSet(DOMAIN docs)
    /\ DOMAIN docs = 0 .. Cardinality(DOMAIN docs) - 1
    /\ \A i \in DOMAIN docs : IsDocument(docs[i], DOMAIN docs)
    /\ Top \in DOMAIN docs
    /\ docs[Top].kind = "page" /\ docs[Top].path = <<>> /\ docs[Top].parent = NoId

(* How a collection begins: a page on the tree is below the page of its      *)
(* parent path, which is on the tree; a page that was never migrated is off  *)
(* the tree, and so is what has been removed.                                *)
IsTree(docs) ==
    \A i \in DOMAIN docs \ {Top} :
        IF docs[i].kind \in {"page", "empty"}
        THEN /\ IsPath(docs[i].path) /\ docs[i].path # <<>>
             /\ docs[i].parent # NoId =>
                   LET above == docs[docs[i].parent]
                   IN  /\ above.kind \in {"page", "empty"}
                       /\ docs[i].parent = Top \/ above.parent # NoId
                       /\ above.path = Front(docs[i].path)
        ELSE docs[i].parent = NoId

ASSUME PageTreeAssumption ==
    /\ IsFiniteSet(Runs)
    /\ \A world \in Worlds :
          /\ IsCollection(world.pages)
          /\ \A path \in world.asked.creates : IsPath(path) /\ path # <<>>
          /\ \A renaming \in world.asked.renames :
                IsPath(renaming[1]) /\ renaming[1] # <<>>
          /\ world.asked.deletes \cup world.asked.erasures \subseteq BOOLEAN
          /\ world.budget \in [Events -> Nat]

ASSUME WorldAssumption == \A world \in Worlds : IsTree(world.pages)

(* What history records.  crowded: a run began, passed its check or was      *)
(* resumed beside one that nothing kept apart from it.  stale: a step wrote  *)
(* what followed from a read that had changed.  doubled: a document was put  *)
(* at the path of another.  damaged: the rest of a change is lost.  stopped: *)
(* a recorded operation was left by a crash or an error.  fresh: the pages   *)
(* that were created and not moved or deleted since.                         *)
VARIABLES
    pages,      \* the pages collection: id -> document
    redirects,  \* the redirects: fromPath -> toPath
    ops,        \* the pageoperations collection: run -> document
    work,       \* run -> its local variables
    up,         \* the app process runs
    asked,      \* what users ask for: paths to rename to, with
                \* createRedirectPage; paths to create; recursively, of deletes
                \* and of complete deletions
    budget,     \* the bounded events that are left
    history     \* what the properties compare with; no guard reads it

vars == <<pages, redirects, ops, work, up, asked, budget, history>>

NoOp == [stage |-> "none"]
Idle == [at |-> "idle"]
Over == [at |-> "over"]

Init ==
    /\ \E world \in Worlds :
          /\ pages = world.pages /\ redirects = world.redirects
          /\ asked = world.asked /\ budget = world.budget
    /\ ops = [r \in Runs |-> NoOp]
    /\ work = [r \in Runs |-> Idle]
    /\ up = TRUE
    /\ history = [crowded |-> FALSE, stale |-> FALSE, doubled |-> FALSE, damaged |-> FALSE,
                  stopped |-> FALSE, fresh |-> {}]

-----------------------------------------------------------------------------
(* f with what only g maps (TLC's @@, which the provers cannot expand).      *)
Joined(f, g) == [x \in DOMAIN f \cup DOMAIN g |-> IF x \in DOMAIN f THEN f[x] ELSE g[x]]

(* Paths. *)

Dirname(path) == Front(path)
Ancestors(path) == {SubSeq(path, 1, k) : k \in 0 .. Len(path) - 1}

(* isPathAreaOverlap and isEitherOfPathAreaOverlap *)
AreaOverlap(area, path) == IsPrefix(area, path)
EitherOverlap(p, q) == AreaOverlap(p, q) \/ AreaOverlap(q, p)

UnderTarget(from, to) == IsStrictPrefix(from, to)

(* The regular expression replaces the prefix if the path begins with it. *)
Moved(path, from, to) ==
    IF IsPrefix(from, path) THEN to \o SubSeq(path, Len(from) + 1, Len(path))
    ELSE path

-----------------------------------------------------------------------------
(* Queries on the pages collection. *)

Ids == DOMAIN pages
NewId(k) == Cardinality(Ids) + k
Found(i) == i \in Ids /\ pages[i].kind # "none"
At(path) == {i \in Ids : pages[i].path = path /\ pages[i].kind \in {"page", "empty"}}
OnTree(i) == pages[i].parent # NoId \/ i = Top
Children(i) == {j \in Ids : pages[j].parent = i}
Earliest(S) == CHOOSE i \in S : \A j \in S : i <= j

Climbed(i) ==
    LET climb[n \in 0 .. Cardinality(Ids)] ==
            IF n = 0 THEN {i}
            ELSE climb[n - 1] \cup {pages[j].parent : j \in climb[n - 1] \cap Ids}
    IN  climb[Cardinality(Ids)]

(* findAncestorsUsingParentRecursively, the page itself included. *)
Chain(i) == {j \in Climbed(i) : Found(j)}

(* What PageCursorsForDescendantsFactory yields, for a page that may be gone. *)
Descendants(i) == {j \in Ids \ {i} : i \in Climbed(j)}

(* A mistake the runs must notice; no specification uses it. *)
LeafEmptiesAndLeaves(i) ==
    IF ~Found(i) THEN {}
    ELSE {j \in Chain(i) \ {Top} : Descendants(j) \subseteq Chain(i)}

(* removeLeafEmptyPagesRecursively: up from i while there are no other pages *)
(* below.                                                                    *)
LeafEmpties(i) ==
    IF ~Found(i) THEN {}
    ELSE {j \in Chain(i) : \A k \in {j} \cup Descendants(j) :
              pages[k].kind = "empty" /\ k \in Chain(i)}

Weight(page) == IF page.kind = "empty" THEN 0 ELSE 1

(* recountDescendantCount *)
Recounted(i) ==
    FoldFunctionOnSet(+, 0, [j \in Ids |-> pages[j].count + Weight(pages[j])], Children(i))

Increased(S, n) == [i \in Ids |->
    IF i \in S /\ Found(i) THEN [pages[i] EXCEPT !.count = @ + n] ELSE pages[i]]

(* Empty pages off the tree, at ancestors of one path: the shorter path first. *)
Inserted(S) ==
    LET shorter(p) == Cardinality({q \in S : Len(q) < Len(p)})
    IN  Joined(pages, [i \in {NewId(shorter(p)) : p \in S} |->
            [kind |-> "empty", path |-> CHOOSE p \in S : NewId(shorter(p)) = i,
             parent |-> NoId, count |-> 0]])

(* fromPath is unique: a redirect that is there already stays. *)
Redirected(from, to) == Joined(redirects, [p \in {from} |-> to])

-----------------------------------------------------------------------------
(* Page operations. *)

Recorded == {o \in Runs : ops[o] # NoOp}

(* Mistakes the runs must notice; no specification uses them. *)
CanOperateFromOnly(recursively, from, to) ==
    \A o \in Recorded :
        /\ from # NoPath => ~EitherOverlap(ops[o].from, from)
        /\ to # NoPath => ~AreaOverlap(ops[o].from, to)

CanOperateToOnly(recursively, from, to) ==
    \A o \in Recorded :
        /\ from # NoPath => ~EitherOverlap(ops[o].to, from)
        /\ to # NoPath => ~AreaOverlap(ops[o].to, to)

(* canOperate *)
CanOperate(recursively, from, to) ==
    \A o \in Recorded : \A p \in {ops[o].from, ops[o].to} \ {NoPath} :
        /\ from # NoPath =>
              ~(IF recursively THEN EitherOverlap(p, from) ELSE AreaOverlap(p, from))
        /\ to # NoPath => ~AreaOverlap(p, to)

-----------------------------------------------------------------------------
(* Runs. *)

InFlight == {r \in Runs : work[r].at \notin {"idle", "over"}}
Spend(event) ==
    /\ budget[event] > 0
    /\ budget' = [budget EXCEPT ![event] = @ - 1]
    /\ UNCHANGED asked

Go(r, at) == work' = [work EXCEPT ![r].at = at]
End(r) == work' = [work EXCEPT ![r] = Over]
On(r, at) == work[r].at = at

Rename(r) == work[r].kind = "rename"
Create(r) == work[r].kind = "create"
Delete(r) == work[r].kind = "delete"
Erase(r) == work[r].kind = "erase"
Removes(r) == Delete(r) \/ Erase(r)

(* An error that is thrown, in the order of the catch blocks: the main part  *)
(* of a rename and a recursive delete clean up their document; the rest of a *)
(* rename keeps it, and can be resumed; nothing else is undone.              *)
RenameMain == {"takeOff", "find", "insert", "link", "plant", "graft", "put", "bump",
               "redirect", "stage"}

Cleaned(r) ==
    (Rename(r) /\ work[r].at \in RenameMain) \/ (Removes(r) /\ work[r].op \in Recorded)

(* History: the first write of the tree is past, and no document of the run  *)
(* is there; or one that is not resumed; or that would move paths twice, as  *)
(* the target has moved below its own place.                                 *)
Dirty(r) ==
    \/ /\ work[r].op \notin Recorded
       /\ work[r].at \in {"link", "save", "recordCreate", "adopt", "trash", "signpost",
                          "shrink", "shrunk", "erase", "prune", "pruned", "recordDelete",
                          "recount", "store"}
       /\ Erase(r) /\ work[r].at \in {"shrink", "shrunk"} => work[r].parent # NoId
    \/ Rename(r) /\ work[r].at \in RenameMain \ {"takeOff"}
    \/ /\ Rename(r) /\ ~On(r, "takeOff") /\ work[r].op \in Recorded
       /\ UnderTarget(work[r].copy.path, work[r].to)

Damage == history' = [history EXCEPT !.damaged = TRUE]
Stale(changed) == history' = [history EXCEPT !.stale = @ \/ changed]
Unchanged == UNCHANGED <<up, asked, budget>>

(* History: a run begins beside one that has not recorded its operation.    *)
Unrecorded == \E s \in InFlight : work[s].op \notin Recorded

Begin(r, kind, id, to, redirect, recursively, at) ==
    /\ up /\ Spend("request")
    /\ work[r] = Idle
    /\ r = CHOOSE x \in Runs : work[x] = Idle
    /\ work' = [work EXCEPT ![r] =
          [at |-> at, kind |-> kind, op |-> r, id |-> id, to |-> to,
           copy |-> IF id = NoId THEN NoPage ELSE pages[id], parent |-> NoId,
           redirect |-> redirect, recursively |-> recursively, ids |-> {},
           todo |-> IF kind = "erase" THEN {"page", "redirects"} ELSE {},
           sum |-> 0, seen |-> Recorded, resumed |-> FALSE, ticked |-> FALSE]]
    /\ history' = [history EXCEPT !.crowded = @ \/ Unrecorded]
    /\ UNCHANGED <<pages, redirects, ops, up>>

Throw(r) ==
    /\ IF Cleaned(r) THEN Go(r, "cleanup") ELSE End(r)
    /\ history' = [history EXCEPT !.damaged = @ \/ Dirty(r), !.stopped = @ \/ ~Cleaned(r)]
    /\ UNCHANGED <<pages, redirects, ops>>

(* A mistake the runs must notice; no specification uses it. *)
CleanupKeepsOperation(r) ==
    /\ On(r, "cleanup")
    /\ End(r)
    /\ UNCHANGED <<pages, redirects, ops, history>> /\ Unchanged

Cleanup(r) ==
    /\ On(r, "cleanup")
    /\ ops' = [ops EXCEPT ![work[r].op] = NoOp]
    /\ End(r)
    /\ history' = [history EXCEPT !.damaged = @ \/ Removes(r)]
    /\ UNCHANGED <<pages, redirects>> /\ Unchanged

-----------------------------------------------------------------------------
(* A mistake the runs must notice; no specification uses it. *)

RecordCreateAsMain(r) ==
    /\ On(r, "recordCreate")
    /\ ops' = [ops EXCEPT ![r] = [stage |-> "Main", kind |-> "create", id |-> work[r].id,
          copy |-> work[r].copy, from |-> work[r].to, to |-> NoPath,
          redirect |-> FALSE, ahead |-> TRUE, order |-> 0]]
    /\ Go(r, "grow")
    /\ UNCHANGED <<pages, redirects, history>> /\ Unchanged

-----------------------------------------------------------------------------
(* Rename: the main part. *)

(* The route reads the page; pages off the tree go the way of v4.            *)
BeginRename(r, i, to, redirect) ==
    /\ pages[i].kind \in {"page", "empty"}
    /\ i # Top /\ OnTree(i)
    /\ Begin(r, "rename", i, to, redirect, TRUE, "check")

(* What canOperate does not look for: an operation below the path to rename  *)
(* to, at which there is no document.                                        *)
Covers(to) == \E o \in Recorded : \E p \in {ops[o].from, ops[o].to} \ {NoPath} : IsPrefix(to, p)

(* History: an operation began or ended since the page was read, or is below *)
(* the path; or the path is that of an empty page, which stays there.        *)
Check(r) ==
    /\ On(r, "check")
    /\ LET run == work[r]
           refused == \/ Rename(r) /\ \E i \in At(run.to) : pages[i].kind = "page"
                      \/ ~CanOperate(run.recursively, run.copy.path, run.to)
           replaced == Removes(r) /\ ~run.recursively /\ Children(run.id) # {}
       IN  /\ \/ refused /\ End(r)
              \/ ~refused /\ Rename(r) /\ Go(r, "record")
              \/ ~refused /\ replaced /\ Go(r, "replace")
              \/ ~refused /\ ~replaced /\ Delete(r) /\ Go(r, "trash")
              \/ ~refused /\ ~replaced /\ Erase(r) /\ Go(r, "shrink")
           /\ history' = [history EXCEPT
                 !.crowded = @ \/ (~refused /\ (run.seen # Recorded \/ Covers(run.to))),
                 !.doubled = @ \/ (~refused /\ Rename(r) /\ At(run.to) # {})]
    /\ UNCHANGED <<pages, redirects, ops>> /\ Unchanged

Operation(r, stage, to) ==
    [stage |-> stage, kind |-> work[r].kind, id |-> work[r].id, copy |-> work[r].copy,
     from |-> work[r].copy.path, to |-> to, redirect |-> work[r].redirect,
     ahead |-> TRUE, order |-> Max({0} \cup {ops[o].order + 1 : o \in Recorded})]

Record(r) ==
    /\ On(r, "record")
    /\ ops' = [ops EXCEPT ![r] = Operation(r, "Main", work[r].to)]
    /\ Go(r, "takeOff")
    /\ UNCHANGED <<pages, redirects, history>> /\ Unchanged

TakeOff(r) ==
    /\ On(r, "takeOff")
    /\ IF work[r].copy.kind = "empty" /\ ~Found(work[r].copy.parent) THEN Throw(r)
       ELSE /\ pages' = [pages EXCEPT ![work[r].id].parent = NoId]
            /\ Go(r, "find")
            /\ UNCHANGED <<redirects, ops, history>>
    /\ Unchanged

Missing(to) == {p \in Ancestors(to) : At(p) = {}}

(* getParentAndforceCreateEmptyTree or getParentAndFillAncestorsByUser: the  *)
(* parent is looked up, then the ancestors that are missing.                 *)
Find(r) ==
    /\ On(r, "find")
    /\ LET to == work[r].to  parents == {i \in At(Dirname(to)) : OnTree(i)}
       IN  CASE Rename(r) /\ UnderTarget(work[r].copy.path, to) ->
                   IF Found(work[r].copy.parent)
                   THEN Go(r, "plant") /\ UNCHANGED <<pages, redirects, ops, history>>
                   ELSE Throw(r)
             [] OTHER ->
                   /\ work' = [work EXCEPT ![r] =
                         IF parents # {}
                         THEN [@ EXCEPT !.at = IF Rename(r) THEN "put" ELSE "save",
                                        !.parent = Earliest(parents)]
                         ELSE [@ EXCEPT !.at = "insert",
                                        !.todo = Missing(to)]]
                   /\ UNCHANGED <<pages, redirects, ops, history>>
    /\ Unchanged

Insert(r) ==
    /\ On(r, "insert")
    /\ pages' = Inserted(work[r].todo)
    /\ work' = [work EXCEPT ![r].at = "link", ![r].todo = {}]
    /\ history' = [history EXCEPT !.doubled = @ \/ \E p \in work[r].todo : At(p) # {}]
    /\ UNCHANGED <<redirects, ops>> /\ Unchanged

(* connectPageTree, and the parent is looked up again. *)
Link(r) ==
    /\ On(r, "link")
    /\ LET to == work[r].to
           linked == {i \in Ids : i # Top /\ \E p \in Ancestors(to) : i \in At(p)}
       IN  IF \E p \in Ancestors(to) : At(p) = {} THEN Throw(r)
           ELSE /\ pages' = [i \in Ids |->
                      IF i \in linked
                      THEN [pages[i] EXCEPT !.parent = Earliest(At(Dirname(pages[i].path)))]
                      ELSE pages[i]]
                /\ work' = [work EXCEPT ![r].at = IF Rename(r) THEN "put" ELSE "save",
                                        ![r].parent = Earliest(At(Dirname(to)))]
                /\ UNCHANGED <<redirects, ops, history>>
    /\ Unchanged

(* Below its own place: empty pages take the target's place. *)
Plants(r) == {p \in Ancestors(work[r].to) : IsPrefix(work[r].copy.path, p)}

Plant(r) ==
    /\ On(r, "plant")
    /\ pages' = Inserted(Plants(r))
    /\ work' = [work EXCEPT ![r].at = "graft", ![r].ids =
          NewId(0) .. NewId(Cardinality(Plants(r)) - 1)]
    /\ UNCHANGED <<redirects, ops, history>> /\ Unchanged

Graft(r) ==
    /\ On(r, "graft")
    /\ LET first == Earliest(work[r].ids)
           last == first + Cardinality(work[r].ids) - 1
       IN  /\ pages' = [i \in Ids |->
                 IF i \notin work[r].ids \/ ~Found(i) THEN pages[i]
                 ELSE [pages[i] EXCEPT !.parent =
                          IF i = first THEN work[r].copy.parent ELSE i - 1]]
           /\ work' = [work EXCEPT ![r].at = "put", ![r].parent = last, ![r].ids = {}]
    /\ Stale(work[r].copy.parent \notin At(Dirname(work[r].copy.path)))
    /\ UNCHANGED <<redirects, ops>> /\ Unchanged

Put(r) ==
    /\ On(r, "put")
    /\ pages' = IF ~Found(work[r].id) THEN pages
                ELSE [pages EXCEPT ![work[r].id] = [@ EXCEPT !.path = work[r].to,
                                                             !.parent = work[r].parent]]
    /\ history' = [history EXCEPT !.fresh = @ \ {work[r].id},
          !.stale = @ \/ work[r].parent \notin At(Dirname(work[r].to))]
    /\ Go(r, "bump")
    /\ UNCHANGED <<redirects, ops>> /\ Unchanged

(* One more for the new parent, in case the rename is interrupted. *)
Bump(r) ==
    /\ On(r, "bump")
    /\ pages' = Increased({work[r].parent}, 1)
    /\ Go(r, IF work[r].redirect THEN "redirect" ELSE "stage")
    /\ UNCHANGED <<redirects, ops, history>> /\ Unchanged

(* fromPath is unique, and here a duplicate is an error. *)
CreateRedirect(r) ==
    /\ On(r, "redirect")
    /\ IF work[r].copy.path \in DOMAIN redirects THEN Throw(r)
       ELSE /\ redirects' = Redirected(work[r].copy.path, work[r].to)
            /\ Go(r, "stage")
            /\ UNCHANGED <<pages, ops, history>>
    /\ Unchanged

SetStage(r) ==
    /\ On(r, "stage")
    /\ IF ops[r] = NoOp THEN Throw(r)
       ELSE /\ ops' = [ops EXCEPT ![r].stage = "Sub"]
            /\ Go(r, "stream")
            /\ UNCHANGED <<pages, redirects, history>>
    /\ Unchanged

-----------------------------------------------------------------------------
(* The descendants, of a rename or a recursive removal.  A batch is written   *)
(* document by document: each is a step.                                     *)

RedirectsWithout(path) ==
    Restrict(redirects, {p \in DOMAIN redirects \ {path} : redirects[p] # path})

Stream(r) ==
    /\ On(r, "stream")
    /\ work' = [work EXCEPT ![r].at = "batch", ![r].todo =
          {<<i, pages[i].path, pages[i].kind>> : i \in Descendants(work[r].id)}]
    /\ UNCHANGED <<pages, redirects, ops, history>> /\ Unchanged

Batch(r, x) ==
    /\ On(r, "batch") /\ x \in work[r].todo
    /\ LET i == x[1]  page == x[3] = "page"
           to == IF Rename(r) THEN Moved(x[2], work[r].copy.path, work[r].to) ELSE TrashPath
       IN  /\ pages' = IF ~Found(i) THEN pages ELSE [pages EXCEPT ![i] =
                            CASE Rename(r) -> [@ EXCEPT !.path = to]
                              [] Delete(r) /\ page ->
                                    [NoPage EXCEPT !.kind = "trash", !.path = TrashPath]
                              [] OTHER -> NoPage]
           /\ redirects' = CASE Erase(r) -> RedirectsWithout(x[2])
                             [] page /\ (Delete(r) \/ (Rename(r) /\ work[r].redirect)) ->
                                   Redirected(x[2], to)
                             [] OTHER -> redirects
           /\ history' = [history EXCEPT !.fresh = @ \ {i}]
    /\ work' = [work EXCEPT ![r].todo = @ \ {x}]
    /\ UNCHANGED ops /\ Unchanged

(* A batch that fails is logged and left out. *)
BatchFails(r, x) ==
    /\ Spend("failure")
    /\ On(r, "batch") /\ x \in work[r].todo
    /\ work' = [work EXCEPT ![r].todo = @ \ {x}]
    /\ Damage
    /\ UNCHANGED <<pages, redirects, ops, up>>

ExtendExpiryDate(r) ==
    /\ On(r, "batch") /\ Rename(r) /\ ~work[r].ticked
    /\ work' = [work EXCEPT ![r].ticked = TRUE]
    /\ ops' = IF ops[work[r].op] = NoOp THEN ops
              ELSE [ops EXCEPT ![work[r].op].ahead = TRUE]
    /\ UNCHANGED <<pages, redirects, history>> /\ Unchanged

BatchesEnd(r) ==
    /\ On(r, "batch") /\ work[r].todo = {}
    /\ Go(r, IF Rename(r) THEN "unbump" ELSE "done")
    /\ UNCHANGED <<pages, redirects, ops, history>> /\ Unchanged

-----------------------------------------------------------------------------
(* Counts and empty pages.  The chain of ancestors is read, then increased. *)

Gains(r) ==
    CASE Rename(r) -> work[r].copy.count + Weight(work[r].copy)
      [] Create(r) -> 1
      [] Removes(r) -> IF work[r].recursively
                       THEN work[r].copy.count + Weight(work[r].copy) ELSE 1

Unbump(r) ==
    /\ On(r, "unbump")
    /\ pages' = Increased({work[r].parent}, -1)
    /\ Go(r, "shrink")
    /\ Stale(work[r].parent \notin At(Dirname(work[r].to)))
    /\ UNCHANGED <<redirects, ops>> /\ Unchanged

(* The former ancestors lose, the new ones gain. *)
Losers(r) == Chain(work[r].copy.parent)
Gainers(r) == Chain(work[r].id) \ {work[r].id}

Climb(r, from, to, i, S) ==
    /\ On(r, from)
    /\ IF ~Found(i) THEN Throw(r)
       ELSE /\ work' = [work EXCEPT ![r].at = to, ![r].ids = S]
            /\ UNCHANGED <<pages, redirects, ops, history>>
    /\ Unchanged

Count(r, from, to, S, n) ==
    /\ On(r, from)
    /\ pages' = Increased(work[r].ids, n)
    /\ work' = [work EXCEPT ![r].at = to, ![r].ids = {}]
    /\ Stale(\/ work[r].ids # S
             \/ Top \notin S
             \/ (Rename(r) \/ Erase(r)) /\ pages[work[r].id].count # work[r].copy.count)
    /\ UNCHANGED <<redirects, ops>> /\ Unchanged

Shrink(r) == Climb(r, "shrink", "shrunk", work[r].copy.parent, Losers(r))
Shrunk(r) ==
    Count(r, "shrunk", CASE Rename(r) -> "grow" [] Delete(r) -> "prune" [] Erase(r) -> "erase",
          Losers(r), -Gains(r))
Grow(r) == Climb(r, "grow", "grown", work[r].id, Gainers(r))
Grown(r) ==
    Count(r, "grown", IF Rename(r) THEN "prune" ELSE "done", Gainers(r), Gains(r))

(* The former parent, if it is empty now.  (A rename below its own place     *)
(* prunes as well: the path that is compared has been overwritten.)          *)
Prune(r) ==
    /\ On(r, "prune")
    /\ work' = [work EXCEPT ![r].at = "pruned", ![r].ids = LeafEmpties(work[r].copy.parent)]
    /\ UNCHANGED <<pages, redirects, ops, history>> /\ Unchanged

Pruned(r) ==
    /\ On(r, "pruned")
    /\ pages' = [i \in Ids |-> IF i \in work[r].ids THEN NoPage ELSE pages[i]]
    /\ work' = [work EXCEPT ![r].ids = {}, ![r].at =
          IF Removes(r) /\ work[r].recursively THEN "recordDelete"
          ELSE IF Removes(r) THEN "answered" ELSE "done"]
    /\ Stale(work[r].ids # LeafEmpties(work[r].copy.parent))
    /\ UNCHANGED <<redirects, ops>> /\ Unchanged

(* The document of the operation is deleted; a resumed rename recounts the   *)
(* ancestors of both paths, the longest path first.  History: beside another *)
(* run, which nothing keeps from changing the counts meanwhile.              *)
Done(r) ==
    /\ work[r].at \in {"done", "answered"}
    /\ ops' = IF On(r, "done") THEN [ops EXCEPT ![work[r].op] = NoOp] ELSE ops
    /\ IF work[r].resumed
       THEN /\ work' = [work EXCEPT ![r].at = "recount", ![r].todo =
                  UNION {At(p) : p \in Ancestors(work[r].copy.path) \cup Ancestors(work[r].to)}]
            /\ history' = [history EXCEPT !.stale = @ \/ InFlight # {r}]
       ELSE End(r) /\ UNCHANGED history
    /\ UNCHANGED <<pages, redirects>> /\ Unchanged

Recount(r) ==
    /\ On(r, "recount")
    /\ IF work[r].todo = {} THEN End(r)
       ELSE \E i \in work[r].todo :
              /\ \A j \in work[r].todo : Len(pages[j].path) <= Len(pages[i].path)
              /\ work' = [work EXCEPT ![r].at = "store", ![r].todo = @ \ {i},
                                      ![r].ids = {i}, ![r].sum = Recounted(i)]
    /\ UNCHANGED <<pages, redirects, ops, history>> /\ Unchanged

Store(r) ==
    /\ On(r, "store")
    /\ pages' = [i \in Ids |->
          IF i \in work[r].ids /\ Found(i)
          THEN [pages[i] EXCEPT !.count = work[r].sum] ELSE pages[i]]
    /\ work' = [work EXCEPT ![r].at = "recount", ![r].ids = {}]
    /\ UNCHANGED <<redirects, ops, history>> /\ Unchanged

-----------------------------------------------------------------------------
(* Create. *)

(* canProcessCreate *)
BeginCreate(r, path) ==
    /\ CanOperate(FALSE, NoPath, path)
    /\ \A i \in At(path) : pages[i].kind # "page"
    /\ Begin(r, "create", NoId, path, FALSE, FALSE, "clear")

(* The redirect from the path goes first. *)
ClearRedirect(r) ==
    /\ On(r, "clear")
    /\ redirects' = Restrict(redirects, DOMAIN redirects \ {work[r].to})
    /\ Go(r, "prepare")
    /\ UNCHANGED <<pages, ops, history>> /\ Unchanged

(* An empty page at the path becomes the page, with its descendants counted. *)
Prepare(r) ==
    /\ On(r, "prepare")
    /\ LET empties == {i \in At(work[r].to) : pages[i].kind = "empty"}
           i == Earliest(empties)
       IN  /\ work' = [work EXCEPT ![r] =
                 IF empties = {} THEN [@ EXCEPT !.at = "find"]
                 ELSE [@ EXCEPT !.at = "find", !.id = i, !.copy = pages[i],
                                !.sum = Recounted(i)]]
           /\ Stale(empties # {} /\ InFlight # {r})
    /\ UNCHANGED <<pages, redirects, ops>> /\ Unchanged

(* The save writes the fields that differ from what was read. *)
Save(r) ==
    /\ On(r, "save")
    /\ LET run == work[r]
           id == IF run.id = NoId THEN NewId(0) ELSE run.id
           old == IF run.id = NoId
                  THEN [kind |-> "page", path |-> run.to, parent |-> run.parent, count |-> 0]
                  ELSE pages[id]
           page == [old EXCEPT
               !.kind = "page",
               !.parent = IF run.parent = run.copy.parent THEN @ ELSE run.parent,
               !.count = IF run.sum = run.copy.count THEN @ ELSE run.sum]
       IN  IF run.id # NoId /\ ~Found(id) THEN Throw(r)
           ELSE /\ pages' = Joined([i \in {id} |-> page], pages)
                /\ work' = [work EXCEPT ![r].at = "recordCreate", ![r].id = id,
                                        ![r].copy = page]
                /\ history' = [history EXCEPT !.fresh = @ \cup {id},
                      !.stale = @ \/ run.parent \notin At(Dirname(run.to)),
                      !.doubled = @ \/ At(run.to) \ {run.id} # {}]
                /\ UNCHANGED <<redirects, ops>>
    /\ Unchanged

RecordCreate(r) ==
    /\ On(r, "recordCreate")
    /\ ops' = [ops EXCEPT ![r] = Operation(r, "Sub", NoPath)]
    /\ Go(r, "grow")
    /\ UNCHANGED <<pages, redirects, history>> /\ Unchanged

-----------------------------------------------------------------------------
(* Delete. *)

BeginDelete(r, i, recursively) ==
    /\ pages[i].kind \in {"page", "empty"}
    /\ i # Top /\ OnTree(i)
    /\ pages[i].kind = "empty" => recursively
    /\ Begin(r, "delete", i, NoPath, FALSE, recursively, "check")

(* replaceTargetWithPage: an empty page, then its children. *)
Replace(r) ==
    /\ On(r, "replace")
    /\ IF ~Found(work[r].copy.parent) THEN Throw(r)
       ELSE /\ pages' = Joined(pages, [i \in {NewId(0)} |-> [work[r].copy EXCEPT !.kind = "empty"]])
            /\ work' = [work EXCEPT ![r].at = "adopt", ![r].parent = NewId(0)]
            /\ Stale(pages[work[r].id] # work[r].copy \/ Children(work[r].id) = {})
            /\ UNCHANGED <<redirects, ops>>
    /\ Unchanged

Adopt(r) ==
    /\ On(r, "adopt")
    /\ pages' = [i \in Ids |->
          IF pages[i].parent = work[r].id THEN [pages[i] EXCEPT !.parent = work[r].parent]
          ELSE pages[i]]
    /\ Go(r, IF Delete(r) THEN "trash" ELSE "shrink")
    /\ UNCHANGED <<redirects, ops, history>> /\ Unchanged

(* deleteNonEmptyTarget *)
TrashTarget(r) ==
    /\ On(r, "trash")
    /\ pages' = IF ~Found(work[r].id) THEN pages ELSE [pages EXCEPT ![work[r].id] =
          CASE work[r].copy.kind = "page" ->
                  [NoPage EXCEPT !.kind = "trash", !.path = TrashPath]
            [] work[r].copy.kind = "empty" -> IF @.kind = "empty" THEN NoPage ELSE @]
    /\ Go(r, IF work[r].copy.kind = "page" THEN "signpost" ELSE "shrink")
    /\ history' = [history EXCEPT !.fresh = @ \ {work[r].id}, !.stale = @
          \/ pages[work[r].id] # work[r].copy
          \/ (~work[r].recursively /\ Children(work[r].id) # {})]
    /\ UNCHANGED <<redirects, ops>> /\ Unchanged

(* Here a redirect that is there already is no error. *)
Signpost(r) ==
    /\ On(r, "signpost")
    /\ redirects' = Redirected(work[r].copy.path, TrashPath)
    /\ Go(r, "shrink")
    /\ UNCHANGED <<pages, ops, history>> /\ Unchanged

RecordDelete(r) ==
    /\ On(r, "recordDelete")
    /\ ops' = [ops EXCEPT ![r] = Operation(r, "Main", NoPath)]
    /\ Go(r, "stream")
    /\ UNCHANGED <<pages, redirects, history>> /\ Unchanged

-----------------------------------------------------------------------------
(* Complete deletion: the counts first, then the target, then the rest as    *)
(* with delete.                                                              *)

BeginErase(r, i, recursively) ==
    /\ pages[i].kind \in {"page", "empty"}
    /\ i # Top /\ OnTree(i)
    /\ pages[i].kind = "empty" => recursively
    /\ Begin(r, "erase", i, NoPath, FALSE, recursively, "check")

(* deleteCompletelyOperation: two removals in any order, awaited together.   *)
ErasePage(r) ==
    /\ On(r, "erase") /\ "page" \in work[r].todo
    /\ pages' = [pages EXCEPT ![work[r].id] = NoPage]
    /\ work' = [work EXCEPT ![r].todo = @ \ {"page"}]
    /\ history' = [history EXCEPT !.fresh = @ \ {work[r].id}, !.stale = @
          \/ pages[work[r].id] # work[r].copy
          \/ (~work[r].recursively /\ Children(work[r].id) # {})]
    /\ UNCHANGED <<redirects, ops>> /\ Unchanged

EraseRedirects(r) ==
    /\ On(r, "erase") /\ "redirects" \in work[r].todo
    /\ redirects' = RedirectsWithout(work[r].copy.path)
    /\ work' = [work EXCEPT ![r].todo = @ \ {"redirects"}]
    /\ UNCHANGED <<pages, ops, history>> /\ Unchanged

Erased(r) ==
    /\ On(r, "erase") /\ work[r].todo = {}
    /\ Go(r, "prune")
    /\ UNCHANGED <<pages, redirects, ops, history>> /\ Unchanged

-----------------------------------------------------------------------------
(* Resumption. *)

Resumable == {o \in Recorded : ops[o].kind = "rename" /\ ops[o].stage = "Sub"}

Resumed(o) ==
    [at |-> "stream", kind |-> "rename", op |-> o, id |-> ops[o].id, to |-> ops[o].to,
     copy |-> ops[o].copy, parent |-> pages[ops[o].id].parent,
     redirect |-> ops[o].redirect, recursively |-> TRUE, ids |-> {}, todo |-> {},
     sum |-> 0, seen |-> {}, resumed |-> TRUE, ticked |-> FALSE]

(* History: a run that is not over.                                          *)
Redone(o) ==
    [history EXCEPT
        !.crowded = @ \/ \E r \in InFlight : work[r].op \in o]

(* The route resume-rename. *)
Resume(o, r) ==
    /\ up /\ Spend("resume")
    /\ o \in Resumable /\ Found(ops[o].id) /\ ~ops[o].ahead
    /\ \/ work[o] = Over /\ r = o
       \/ work[o] # Over /\ work[r] = Idle /\ r = CHOOSE x \in Runs : work[x] = Idle
    /\ work' = [work EXCEPT ![r] = Resumed(o)]
    /\ history' = Redone({o})
    /\ UNCHANGED <<pages, redirects, ops, up>>

TimePasses(o) ==
    /\ o \in Resumable /\ ops[o].ahead
    /\ \A r \in InFlight : work[r].op = o => ~(On(r, "batch") /\ work[r].ticked)
    /\ ops' = [ops EXCEPT ![o].ahead = FALSE]
    /\ UNCHANGED <<pages, redirects, work, history>> /\ Unchanged

(* afterExpressServerReady: the renames in the order of their recording, up  *)
(* to the first whose expiry date is ahead.  init() is not called.           *)
Boot ==
    /\ ~up /\ up' = TRUE
    /\ LET due == {o \in Resumable : Found(ops[o].id)}
           resumed == {o \in due : \A p \in due :
                          ops[p].order <= ops[o].order => ~ops[p].ahead}
       IN  /\ work' = [r \in Runs |-> IF r \in resumed THEN Resumed(r) ELSE work[r]]
           /\ history' = Redone(resumed)
    /\ UNCHANGED <<pages, redirects, ops, asked, budget>>

Crash ==
    /\ up /\ Spend("crash")
    /\ up' = FALSE
    /\ work' = [r \in Runs |-> IF r \in InFlight THEN Over ELSE work[r]]
    /\ history' = [history EXCEPT !.stopped = TRUE,
          !.damaged = @ \/ \E r \in InFlight : Dirty(r) \/ On(r, "cleanup")]
    /\ UNCHANGED <<pages, redirects, ops>>

-----------------------------------------------------------------------------

Advance(r) ==
    \/ Check(r) \/ Record(r) \/ TakeOff(r) \/ Find(r) \/ Insert(r) \/ Link(r)
    \/ Plant(r) \/ Graft(r) \/ Put(r) \/ Bump(r) \/ CreateRedirect(r) \/ SetStage(r)
    \/ Stream(r) \/ BatchesEnd(r) \/ Unbump(r) \/ Shrink(r) \/ Shrunk(r)
    \/ Grow(r) \/ Grown(r) \/ Prune(r) \/ Pruned(r) \/ Done(r)
    \/ Recount(r) \/ Store(r) \/ Cleanup(r)
    \/ ClearRedirect(r) \/ Prepare(r) \/ Save(r) \/ RecordCreate(r)
    \/ Replace(r) \/ Adopt(r) \/ TrashTarget(r) \/ Signpost(r) \/ RecordDelete(r)
    \/ ErasePage(r) \/ EraseRedirects(r) \/ Erased(r)
    \/ On(r, "batch") /\ \E x \in work[r].todo : Batch(r, x)

AwaitFails(r) ==
    /\ Spend("failure")
    /\ r \in InFlight /\ work[r].at \notin {"batch", "cleanup"}
    /\ Throw(r)
    /\ UNCHANGED up

Request(r) ==
    \/ \E i \in Ids, renaming \in asked.renames : BeginRename(r, i, renaming[1], renaming[2])
    \/ \E path \in asked.creates : BeginCreate(r, path)
    \/ \E i \in Ids, recursively \in asked.deletes : BeginDelete(r, i, recursively)
    \/ \E i \in Ids, recursively \in asked.erasures : BeginErase(r, i, recursively)

Next ==
    \/ \E r \in Runs : Request(r) \/ Advance(r) \/ ExtendExpiryDate(r) \/ AwaitFails(r)
    \/ \E r \in Runs : On(r, "batch") /\ \E x \in work[r].todo : BatchFails(r, x)
    \/ \E o \in Runs : TimePasses(o) \/ \E r \in Runs : Resume(o, r)
    \/ Crash \/ Boot

Spec == Init /\ [][Next]_vars
FairSpec == Spec /\ \A r \in Runs : WF_vars(Advance(r))

-----------------------------------------------------------------------------
(* Properties. *)

TypeOK ==
    /\ IsCollection(pages)
    /\ \A o \in Recorded :
          /\ ops[o].id \in Ids \ {Top}
          /\ ops[o].stage \in [rename |-> {"Main", "Sub"}, create |-> {"Sub"},
                              delete |-> {"Main"}, erase |-> {"Main"}][ops[o].kind]
    /\ history.fresh \subseteq Ids

(* A tree: each page below the page of its parent path, one page a path, no  *)
(* empty page without pages below it, and descendantCount what it says.      *)
Live == {i \in Ids : pages[i].kind \in {"page", "empty"}}

WellFormed ==
    /\ \A i \in Live \ {Top} :
          /\ pages[i].parent \in Live
          /\ pages[i].path = Append(pages[pages[i].parent].path, Last(pages[i].path))
          /\ pages[i].kind = "empty" => Children(i) # {}
          /\ At(pages[i].path) = {i}
    /\ \A i \in Live :
          pages[i].count = Cardinality({j \in Descendants(i) : pages[j].kind = "page"})

(* What history records can break the tree: a run that began beside one      *)
(* without a recorded operation or one that nothing keeps apart from it, a   *)
(* decision on a read that was no longer true when it was written, a second  *)
(* document at a path, a step whose rest was lost.                           *)
Undisturbed ==
    ~history.crowded /\ ~history.stale /\ ~history.doubled /\ ~history.damaged

(* When nothing runs and no operation is recorded, the tree is well formed:  *)
(* after any sequence of requests, of renames, creations and removals that   *)
(* run side by side, and after a restart that resumes the renames            *)
(* interrupted anywhere in their background part.                            *)
RestIsWellFormed ==
    Undisturbed /\ InFlight = {} /\ Recorded = {} => WellFormed

(* A page that was created is not hidden by a redirect from its own path,    *)
(* whatever renames and deletions leave redirects meanwhile, and however     *)
(* often a rename is interrupted in its background part and resumed.         *)
CreatedIsReachable ==
    Undisturbed => \A i \in history.fresh : pages[i].path \notin DOMAIN redirects

(* A page that is not empty is trashed at most, never removed: not by the    *)
(* pruning of empty pages nor by the deletion of those below a deleted page; *)
(* and a complete deletion removes no page but its target and, recursively,  *)
(* those that are still below it.  Unless the decision was stale or a run    *)
(* began beside an unrecorded one.                                           *)
AskedToErase(i) ==
    \E r \in InFlight : Erase(r) /\
        \/ i = work[r].id
        \/ work[r].recursively /\
              (UnderTarget(work[r].copy.path, pages[i].path) \/ history.damaged
                 \/ history.doubled)

PagesKept ==
    [][history.crowded \/ history'.stale \/
          \A i \in Ids : pages[i].kind = "page" =>
              pages'[i].kind \in {"page", "trash"} \/ AskedToErase(i)]_vars

(* The same of the pruning alone, without exception: what                    *)
(* removeLeafEmptyPagesRecursively removes is empty when it is removed.      *)
PruningRemovesEmptyPages ==
    [][\A r \in Runs : On(r, "pruned") /\ work[r]' # work[r] /\ work'[r].at # "over"
           => \A i \in work[r].ids : pages[i].kind # "page"]_vars

(* A recorded operation keeps others off its paths.  It gives them free in   *)
(* the end, whether it succeeds or throws, unless the process dies or an     *)
(* error leaves a part that nothing cleans up: when nothing runs, none of    *)
(* the operations is left.                                                   *)
AreasFreed ==
    InFlight = {} => Recorded = {} \/ history.stopped
==============================================================================
