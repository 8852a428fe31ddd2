# TLA+ models of GROWI Vault and of the page tree it replicates

The repository is GROWI, a wiki, together with the programs around it. This
project specifies two parts of it in which the order of steps decides whether
the data stay right:

* **GROWI Vault** replicates the pages of the wiki into git repositories, so
  that every user can `git clone` the pages that he may read: two kinds of
  processes, an outbox collection between them, a change stream, retries,
  resumable bulk jobs, and a store that several asynchronous writers share
  without locks.
* **The page tree** is what the vault replicates: renames, creations and
  deletions that answer first and move the descendants in the background, with
  recorded page operations to keep them apart and to resume them after a crash.

The rest of the repository (the editor, search, the Slack proxy, the PDF
converter) is outside the project.

In the paths below `A/` is `src/apps/app/src/features/growi-vault/server/`,
`V/` is `src/apps/growi-vault-manager/src/` and `S/` is
`src/apps/app/src/server/`.

## 1. The system

```
 routes ──► page service ◄──records, resumes── page operation service
              │  events
              ▼
         subscriptions ──► dispatcher ──create──────────┐
          (A/index.ts)                                  │
 startup / admin ──► bootstrap runner ──reset-all, bulk─┤
 user / admin ──► reconcile ──bulk-upsert───────────────┤
 timer ──► drift detector ──bulk-upsert─────────────────┤
                                                        ▼
                vault_sync_state                vault_instructions
                 ▲         ▲                            │ change stream,
        bootstrap, drift   │ resumeToken                ▼ drain
                           └─────────────────── instruction watcher
                                                        │ one at a time
 git clone ──► gateway ──compose-view──► view composer  ▼
                                           │  reads   namespace builder
                                           ▼            │ writes
                              view refs  ◄── namespace refs + vault_namespace_state
                              vault_user_views          ▲
                                                squash track of the scheduler
```

| component | state | operations | runs concurrently with |
|---|---|---|---|
| page service (`S/service/page/index.ts`, `S/models/page.ts`) | `pages` with parent, path, isEmpty and descendantCount; `pageredirects` | rename, create, delete, complete deletion, each with a background part | itself: nothing but recorded operations keeps requests apart |
| page operations (`S/service/page-operation.ts`, `S/models/page-operation.ts`) | `pageoperations`: paths, stage, expiry date | canOperate, record, extend, resume at start and by the route | all requests |
| dispatcher and subscriptions (`A/index.ts`, `A/services/vault-dispatcher.ts`, `vault-namespace-mapper.ts`) | coalesce buffer and timer per namespace, writes in flight | page events, timer, retry of a write | itself, the page operations, other app processes |
| bootstrap and resilience (`A/services/resilience/*`, `A/routes/vault-admin.ts`) | `vault_sync_state`: state, cursor, heartbeat, attempts; the page buffers of a run | trigger, resume, stream, verify, wipe, abort, normalize | other app processes, the manager |
| reconcile (`A/services/reconcile/*`) | slots per user and process (in memory), `vault_reconcile_log`, the buffers of a run | submit, accept, stream, flush, log, normalize at start | itself, saves, the drift detector |
| drift detector (`A/services/resilience/drift-detector.ts`) | `driftLastWatermark` | tick: query, write, save the watermark | itself (`setInterval`), saves, reconcile |
| outbox (`vault_instructions`) | instructions, `processedAt` | insert, mark | – |
| instruction watcher (`V/services/vault-instruction-watcher.ts`, `V/server-runtime.ts`) | change stream, pipeline, drain cursor, resume token | start, drain, handle event, stop | inserts, stream errors |
| namespace builder (`V/services/vault-namespace-builder.ts`, `vault-path-mapper.ts`) | refs, `vault_namespace_state` | upsert, remove, bulk-upsert, rename-prefix, grant-change-prefix, reset-all | the squash track |
| maintenance scheduler (`V/services/vault-maintenance-scheduler.ts`) | squashes in flight | squash, gc | the builder |
| view composer (`V/services/vault-view-composer.ts`) | view refs, `vault_user_views` | compose | itself, the builder, the squash track |
| merge and tree normalizer (`V/services/vault-view-composer.ts`, `vault-tree-normalizer.ts`) | none: pure functions | merge, build, normalize | – |
| gateway and git endpoints (`A/routes/vault-gateway.ts`, `V/controllers/git-proxy-controller.ts`, `V/services/vault-want-guard.ts`) | none: each request composes and then reads the view ref | info/refs, git-upload-pack with the want guard | itself, the composer, the builder, the squash track |
| authentication, state guard, wire format, health | – | – | not modelled, see section 7 |

What is hard here: awaits between a read and the write that depends on it, in
the builder, the squash, the composer, the bootstrap and every step of the page
service; two writes that belong together (ref and state document; view ref and
cache document; cursor and buffered pages; a page and the counts of its
ancestors) with a crash between them; two sources of the same instruction
(drain and stream); an order that the coalesce buffer and parallel writes
change; several app processes that share a document without compare-and-swap;
timestamps that are taken before the write they describe is visible.
`PROJECT.json` lists each hazard at its line together with the properties that
would notice it.

What makes the components correct, in one line each:

* page tree: at rest every page hangs below the page of its parent path, one
  page a path, counts that say what they mean, and no page lost;
* page operations: a recorded operation keeps others off its paths, and sets
  them free in the end;
* builder: whole trees, no lost update, no page in a namespace it was not sent
  to, acknowledged only when visible and recorded;
* watcher: every instruction is processed, in causal order, and never again
  once it is marked;
* composer: a view is at least as new as what was recorded when it was asked for,
  as long as nothing undoes that;
* gateway and want guard: a client is served the commit it was told, and what it
  was told is as new as its view;
* merge and normalizer: every file of every namespace is in the view once, under
  a name that can be checked out, whatever the order of the merge;
* dispatcher: the vault follows the pages, and holds only what a page called for;
* bootstrap: done means seeded; a run in flight has somebody who runs it;
* reconcile: completed means repaired; slots and log follow the runs;
* drift detector: the watermark passes no update that was not swept.

## 2. Modules

Read them in this order.

| module | code | what it is |
|---|---|---|
| `VaultTree` | path mapper, tree functions of the builder | a git tree as a file map; the pure operations |
| `VaultInstruction` | `V/models/vault-instruction.ts`, the six handlers | the instruction type and `Effect`, what each does to a tree |
| `VaultContents` | none: abstract | the promise of the builder: whole trees, one instruction at a time |
| `VaultNamespaceBuilder` | builder, squash track | one step per await on a ref or state document |
| `VaultFileTree` | the recursive tree functions, path mapper | real nested trees next to the file maps of `VaultTree` |
| `VaultViewTree` | merge functions of the composer, tree normalizer | what a user clones, made of the trees of `VaultFileTree` |
| `VaultInstructionWatcher` | watcher, `server-runtime.ts` | delivery: stream, drain, token, failures, restarts |
| `VaultViewComposer` | composer | composing against a moving set of namespaces |
| `VaultCloneSession` | gateway routes, git endpoints, want guard | the two requests of a clone or fetch, with the chain of commits behind a view |
| `VaultDispatcher` | dispatcher, subscriptions, page events | from page operations to instructions |
| `VaultBootstrap` | bootstrap runner and its helpers, admin routes, normalization | seeding by several processes |
| `VaultRepair` | reconcile, drift detector | the two repairs of a vault that has fallen behind |
| `PageTree` | page service, page operation service | rename, create, delete, complete deletion and their background parts |
| `MC*` | – | small instances for TLC |
| `*_proofs` | – | theorems and their proofs |

Composition. `VaultNamespaceBuilder` composes the two writers of namespace
refs, builder and squash track, and `VaultViewComposer` composes the readers
with the writes of both, as far as a reader can see them; `VaultCloneSession`
extends it by what goes on to git after a compose has returned, every step of the composer with its effect on the commits
of the view; `VaultViewTree` extends `VaultFileTree`, so that the views it merges are
made of the trees that instructions make. `VaultContents` abstracts the builder;
both modules take the meaning of instructions from `VaultInstruction`, so the
trees and the process steps are separated. The order of instructions is left open in the builder (any
unprocessed instruction may be next) and is the subject of the watcher. The
dispatcher, the bootstrap and the repairs use the watcher's result:
instructions take effect in the order of their insertion. `VaultRepair`
composes reconcile, drift detector and the saves they race with. `PageTree`
stands beside the vault: the events it ends in are the page operations of
`VaultDispatcher`.

### State and code

* **Builder.** `ref` is the ref file, `nsState` the document with `commitOid`
  and `version`, `job` the call in progress with its local variables, `squash`
  the squashes in flight, `processed` the instructions with `processedAt`. A
  handler is: read the root tree and compute (`Begin*`), `updateRef`
  (`WriteRef`, line 324), `upsertNamespace` (`WriteState`, line 325), for a
  grant change the second half (`ReadDestination`), `markProcessed`
  (`Acknowledge`). `Fail` is any await that rejects, `Crash` the end of the
  process. A commit carries a number, so that equal trees in different commits
  differ, as the parent and date make them differ in git.
* **Watcher.** `oplog` is the insertion order, the instruction's number the
  order of `issuedAt`. `handled` and `delivered` are positions of the pipeline
  and of the stream. `current` is where `processInstruction` is. The buffer
  that the code keeps for events during the drain is never used: every event
  chains behind the drain on one promise, which is what the model does.
  `FetchBatch` is a batch of the drain's cursor: at most `BatchSize` documents,
  fewer when their bytes limit it. `PassedBy` is what clocks that disagree have
  put behind the cursor meanwhile; it stays for the stream or the next start,
  and the history variable `deferred` remembers it. `LookupFails` is the
  `findById` of an event that rejects (`V/services/vault-instruction-watcher.ts:234`):
  the catch of the pipeline (lines 274-279) logs it and the next event goes on,
  so that the instruction is neither tried nor recorded as failed and a newer
  token passes it by until the next start drains it. A read that rejects in
  `start()` or in the drain's cursor ends the startup and with it the process,
  which is `Crash`.
* **Composer.** The content of a view is the tree at which each namespace was
  read, numbered by the commit of the builder that first shows it. `GetVersions`
  reads the documents, `ReadRef` the refs, one await each. The builder's side is
  its two writes, a reset and an await that rejects; the squash's is `Squash*`,
  as in the builder's module: the document's commit is read (`SquashBegin`), its
  tree put under the ref in a new commit (`SquashRef`), the document written
  (`SquashState`). Neither waits for the other. `undone` remembers, for each
  namespace, up to which commit a reset or a squash has taken its ref back.
* **Clone session.** The two requests of a clone, info/refs and git-upload-pack,
  share no state in the gateway; `want` ties the second to the answer that the
  client follows up. Each composes first (`Ask` to `Finish`) and is then passed
  to git, which reads the view ref once more. A commit of a view is named by the
  request that made it; `parent` is `existing?.viewCommitOid` as the compose
  read it, `reach` what `git merge-base --is-ancestor` finds behind a commit.
  `answer` is "told" after info/refs, "served" or "refused" after the guard.
  `firm` is a history variable: what was told while ref and document agreed and
  no compose was between reading the document and writing it.
* **Merge and normalizer.** A merged file map takes a full path to the namespace
  and the oid that won it, as the `Map` of `collectLeafBlobs` does; `Build` is
  `buildTreeNodes`, `Normalize` is `normalizeTree`. A node of a normalized tree
  also has the name it was made of (`of`), which only the properties read.
  `DeltaMerge` reads everything again with the changed namespaces last, as
  `applyNamespaceDeltas` does. A name is a sequence of tokens of one or two
  bytes; the eight hexadecimal digits of a hash are one token that names the
  path it was computed from, so that hashes never collide.
* **Dispatcher.** `buffer` is `coalesceMap`, `writing` the calls of
  `writeWithRetry`. An insertion is modelled by its effect on `vault`. The
  events of the page service are read off the places that emit them in
  `S/service/page/index.ts`.
* **Bootstrap.** `run[r].at` names the next await of `bootstrap()` in process
  `r`; `sync` is the shared document. `fresh` abstracts `bootstrapHeartbeatAt`
  against the stale threshold: true while some run refreshes it, and it may
  turn false only when none does.
* **Repair.** `work[r].at` names the next await of `submit()` and then of
  `run()` for request `r`; a request that is over or refused is `Over`.
  `userCount` and `systemCount` are the two maps of `reconcile-concurrency-controller.ts`, one
  pair per process; `log` is `vault_reconcile_log`. `Release` is the `finally`
  block, `LogFailed` the hard cap or the `catch` block, `AwaitFails` any await
  that rejects, with what the surrounding block then does. `sweep[s]` is a tick
  of the drift detector; ticks overlap. A save is two steps: `Save` stamps
  `updatedAt` in the app process, `Land` makes the document visible, and its
  event may reach the vault or be lost. An entry without a revision id writes a
  file without a body (`V/services/vault-namespace-builder.ts:502`).
* **Page tree.** `pages` is the collection, a document per id; `kind` is
  `page`, `empty` (`isEmpty`), `trash` (moved under `/trash`) or `none`
  (removed). `redirects` takes a `fromPath` to its `toPath`, `ops` the page operations with
  stage, paths and the copy of the page they hold. `work[r].at` names the next
  await of a request `r` and its other fields are the local variables, among
  them `copy`, the document as it was read. A step ends at an await that
  writes; where the code reads a set and writes it in a later await, reading
  and writing are two steps (`Shrink`/`Shrunk`, `Grow`/`Grown`,
  `Prune`/`Pruned`, `Recount`/`Store`). `Throw` takes the way of the catch
  blocks: the main part of a rename and a recursive deletion delete their
  operation (`Cleanup`), the rest of a rename keeps it to be resumed.

Variables called history in a comment are not read by any guard; they name the
documented exceptions of a property. For the page tree they are `crowded` (a
run began, passed its check or was resumed beside one that nothing keeps apart
from it: beside an operation that is not recorded, or above the path of one
that is, for which `canOperate` does not look, `Covers`), `stale` (a step wrote
what followed from a read that had changed), `doubled` (a document was put at
the path of another), `damaged` (the rest of a change is lost by a crash or an
error) and `stopped` (a recorded operation was left behind). Each is a situation
that the code permits and section 4 describes; `Undisturbed` is the absence of
the first four.

### Abstractions of the page tree

Every page is public and has been migrated to the tree; the v4 process, grants,
comments, tags, bookmarks, subscriptions, activities and the search index are
left out. Descendants are read at once and then written document by document,
in any order. The code writes a batch's pages and then its redirects, with an
ordered `bulkWrite` that stops at a duplicate `fromPath`; the model leaves at
least those redirects. The paths under `/trash` that a deletion records keep no
other request off, because `from` covers them already. The second save in
`pushRevision` is folded into the first. A complete deletion removes a page and
its redirects in one `Promise.all`: two steps in either order, and the next step
waits for both; when one throws, the other may still be written later, which the
model leaves out. The 10 s of an expiry date and the
5 s of its extension are `TimePasses` and `ExtendExpiryDate`: an operation that
a run extends does not expire.

## 3. Runs

`expect: pass` unless noted. Sizes are distinct states.

| run | question | bounds | size |
|---|---|---|---|
| `builder` | do bodies stay in their namespaces; is no update lost, is an acknowledged one recorded, is `VaultContents` implemented, beside squashes at any time? | 2 namespaces, 4 paths, 7 instructions (one of each kind, one skipped, one rejected), 4 commits, squash by threshold and by age | 1 391 000 |
| `watcher` | is each instruction delivered, once, in order? | 3 instructions in any order, batches of up to 2, 1 rejected await, 1 restart, 1 stream error | 823 000 |
| `composer` | how old may a view be, and what a client is told of it; is the client served what it was told? | 3 requests of either kind, 2 namespaces, up to 3 commits, 1 reset, squashes, access lost or gained, `Bounded` | 1 257 000 |
| `dispatcher` | what may the vault hold; which paths mirror their pages; does the dispatcher come to rest? | 2 pages, 2 paths, 2 namespaces, 3 operations of 9 kinds, 1 failure | 180 000 |
| `file_tree` | do nested trees and file maps agree; is a view complete, can it be checked out, do names stay? | 10 paths of up to 3 segments, reserved names, names equal but for case, overlong names, 2 rankings of the namespaces, sequences of any length | 14 000 |
| `bootstrap` | is done seeded, is no run left to nobody? | 2 processes, 2 pages and 1 more, chunks of 2, 1 attempt, 1 fault, 1 input | 1 450 000 |
| `repair` | do slots and log follow the runs, is completed repaired, what does the watermark pass? | 2 requests of a user and an administrator, 2 processes, 3 pages, 2 namespaces, 2 sweeps, the mixtures of events in `MCBudgets` | 872 000 |
| `pages` | is the tree well formed at rest, is a created page reachable, are areas freed, is no page removed? | 2 runs, 7 worlds of an initial tree and a mixture of requests, resumptions, a crash and an error (`MCWorlds`) | 1 037 000 |
| `squash_race` | violation: a squash keeps the HEAD's tree | 3 upserts to one namespace | |
| `late_upsert` | violation: a deletion is reflected | 1 page, 3 operations | |
| `prune_race` | violation: pruning removes empty pages only | the instance of `pages` | |
| `bootstrap_resume` | violation: done after a resume is complete | 1 process, 2 pages, 1 crash | |

Why the bounds are enough. Interference in the builder needs two writers of one
namespace and one further commit; a grant change needs two namespaces, and a
third would only be a bystander. The watcher's faults need an instruction
before, in and after the drain: three. Batches of up to two make the cursor return
both a full and a partial batch, and let a third instruction be inserted behind
its position between two batches; without `EventuallyProcessed` four
instructions have been checked as well. `ChunkSize` 2 and 2 pages let a bootstrap end
with full, partial and empty buffers. One fault in each place where it can
happen is what distinguishes the code's paths; a second one of the same kind
repeats the situation that the first has left.

In `composer` three requests are an info/refs, its git-upload-pack, and another
client's request that overlaps with either or falls between them: what it takes
to move the view ref away from a commit that was told. `Bounded`
is a constraint on the instance: beside three requests one namespace moves, makes
one commit and is not squashed; beside two, either both namespaces do so, or
one is squashed and has three commits, two of which are the builder's and one the
squash's, what it takes for a squash to put the older of two recorded trees
back; a reset and a squash occur together beside one request. A second
namespace matters for what a merge reads between two writes of the builder, and
two requests show that. Requests are symmetric: no formula tells them apart.

In `repair` three pages are one more than the limit of an administrator, so
that a subtree may be within the limit when it is accepted and beyond it when
it is streamed; a chunk of 2 makes a buffer full in the middle and not empty at
the end; limits of 1 make the second request of a user, and of a process, the
one that is refused. Two sweeps are what overlap takes. Events that matter to
each other are budgeted together: competing requests with a save; requests with
a failure; a run beside a restart; sweeps that overlap, fail or meet saves;
reconcile and sweep at once.

In `file_tree` names that differ in case, names one over the budget of 4 bytes
that fit with a hash, with and without an extension, and a page below each of two
directories of one name but for case are what the normalizer distinguishes; two
namespaces in both orders of priority, or in equal priority, are what a merge
compares.

In `pages` interference needs two runs. A page with a page below it is the
least that has descendants in the background, an inner page to prune, and an
ancestor to count; a second tree has the inner page empty, a third has two
pages side by side, so that two requests may be apart and still lack the same
parent. A rename goes to a sibling with a missing parent or below its own place;
a creation goes to the path of an empty page or below a path that a rename is
moving to.

Every property of a passing run has a mutant, an operator under "Mistakes" in
its module: the definition as a plausible bug would have it. With it TLC
refutes the property.

`CHECK_DEADLOCK FALSE` everywhere: each system stops when its bounded inputs
are used up and everything is settled.

### What the properties say beyond a unit test

* `BodiesStayInTheirNamespace` quantifies over every assignment of allowed
  bodies to namespaces that the instructions respect: information flow, not a
  type.
* `NoLostUpdate`, `AcknowledgedIsRecorded` and `ImplementsContents` speak of
  builder and squashes in every interleaving, and make one exception: a
  namespace in `overtaken`. It enters when a squash takes a commit from the
  document whose tree is not the ref's, or the builder moves or deletes the ref
  under a squash in flight, and leaves when the builder has recorded the commit
  that the ref shows and no squash is in flight. That is finding 1 and no more:
  a squash that runs before, after, or across the other steps of an instruction
  is not an exception. `ImplementsContents` is a refinement; the mapping is
  `Contents` in `VaultNamespaceBuilder`, and `VaultContents` is told `overtaken`
  only to leave the contents of such a namespace open (`Overwrite`).
* `NothingMissed`, `CausalOrder`, `EventuallyProcessed` relate the drain to the
  stream over restarts. Their exceptions are the code's: a failed instruction,
  and an event whose look-up has rejected, is retried by the next start only, a
  stream that has ended is not opened
  again, a first stream without a token begins after inserts that the
  drain may have been too early for, and an instruction inserted behind the
  drain's cursor is applied after what the cursor still had to fetch.
* `ViewHoldsFiles` compares the view, through merge, tree building and renaming,
  with the files of all the namespaces: none lost, none doubled, none from
  elsewhere. The exception is the code's: a page `/a` of one namespace hides the
  pages below a page `/a.md` of another, as `buildTreeNodes` has it. `DeltaIsFull`
  says that the incremental merge makes no other tree than the full one, but
  for files that two namespaces of one priority dispute. `Cloneable` and
  `NamesStay` are the two sides of renaming: names are kept apart on any file
  system, and a user's working copy does not see renames without a reason.
* `FreshView` compares an answer with what was recorded when it was asked for,
  through cache hits, overlapping requests, resets and squashes. A version
  that a reset or a squash undid is its exception, and `ToldIsFresh`'s: a squash
  undoes a tree when it puts an older one under the ref (finding 1).
* `ToldIsServed` relates what two HTTP requests of a client see of a ref that
  other requests move: the chain of parents must lead from every later tip back
  to what was told, through composes that overlap, fail after they have moved
  the ref, or die. `ToldIsFresh` carries `FreshView` over to what git reads
  after the compose has returned. Both exceptions are the code's and are
  described in section 4.
* `CalmPathsMirror` relates every path of the vault to the page at it, while
  other paths are still buffered, written, retried or lost: coalescing and
  parallel writes mix up no two paths and no two namespaces. A path counts as
  unsure from an event that crowds an earlier one, from a lost write, and from
  an operation whose event the subscriptions do not carry over.
* `SeededWhenDone` relates the page set before the run to the vault after it;
  `NobodyLeftRunning` relates the shared state to all the processes.
* `SlotsMatchRuns` relates counters to runs through every refusal, failure and
  crash; `ClosedWhenOver` and `LogMovesForward` relate the persisted log to
  them. `RepairedMirrors` is the promise of reconcile: what it has completed
  shows the pages, unless they were saved since.
* `SweepMissesNothing` says that the watermark, which only one timestamp
  carries from tick to tick, passes no update without an instruction in each of
  the page's namespaces, with sweeps that overlap and fail half-way.
* `RestIsWellFormed` is the invariant of the page tree, which no single step
  keeps: each request breaks it and restores it many awaits later, beside
  another request, or after a crash in a resumed one. `CreatedIsReachable`
  relates redirects, which live in a collection of their own, to pages.
  `PagesKept` says that of all the removals by id none meets a page but those
  that a complete deletion was asked for.
  `AreasFreed` says that a recorded operation, which blocks its paths for
  everybody, is gone when its request is.

### Fairness

* Watcher: weak fairness of `OpenStream`, `Deliver` and `Work`: the server opens
  the stream and delivers events, awaits settle, and a process that is down is
  started again (the container restarts it). Inserts, failures, errors and
  restarts are not fair.
* Dispatcher: weak fairness of `Dispatch`: `setTimeout` fires and a write
  resolves or rejects.
* Repair: weak fairness of `Reconcile`, the steps of accepted requests: awaits
  settle. `SlotsReturned` needs it.
* Page tree: `prune_race` is stated under weak fairness of each run's
  `Advance`: awaits settle. The passing run needs none.

No other property needs fairness.

## 4. Findings

Four runs end in a counterexample against what a comment or requirement of the
repository says; `PROJECT.json` quotes the lines.

1. **Squash against instruction** (`squash_race`). The builder writes the ref
   and later the document; the squash takes its tree from the document. In
   between it puts the namespace back to the older tree, and the instruction is
   acknowledged without being visible. The serialization the header describes
   does not exist. The next commit of the builder records what the ref shows
   again, but what the squash has taken back stays lost. A view that is composed
   in between is older than what was recorded before. The properties of the
   builder and of the composer except exactly these namespaces and versions.
2. **Late upsert** (`late_upsert`). A deletion overtakes the buffered upsert of
   the same page.
3. **Pruning against creation** (`prune_race`). The empty pages above a page
   that has left are read, and removed by id in a later await without asking
   whether they are still empty (`S/models/page.ts:1229`). A page created at
   the path of one of them in between is removed.
4. **Resume behind the cursor** (`bootstrap_resume`). The cursor is saved while
   entries of earlier pages are only in memory.

Observations that no run claims as a finding:

* builder: a grant change interrupted between its halves
  (`V/services/vault-namespace-builder.ts:617`) finds nothing to mount when it
  is tried again, and its pages are in neither namespace; no subscription emits
  this instruction at present;
* bootstrap: the completeness check fails needlessly when a page is created
  during the stream, or when the last page is deleted, or when a resume finds
  no page; a restart before the heartbeat is stale, and an await that rejects
  before the `try`, leave `running` behind; nothing excludes two runs; with two
  runs the attempts may exceed their maximum;
* watcher: `EventuallyProcessed` names what waits for a restart; an event whose
  look-up rejects (`V/services/vault-instruction-watcher.ts:234`) leaves no trace
  but a line in the log, as `recordFailure` is not reached;
* squash: one that was in flight during a reset-all recreates the document of a
  deleted namespace (`V/services/vault-maintenance-scheduler.ts:268`);
* composer: the parent of a view's commit is the commit in the cache document
  (`V/services/vault-view-composer.ts:495-496`), not "the view ref's current
  tip" as the comment at line 493 says. Two overlapping composes of a user start
  from the same document: the second takes the view ref to a commit that does
  not reach the first one's. A client that was told the first is refused by the
  want guard, although a test is called "allows an ancestor of the advertised
  commit, so a view that moved between advertisement and fetch still serves"
  (`V/services/vault-want-guard.spec.ts:213`), and has to start again. All
  anonymous clients share one view (line 445), so such overlaps need nothing
  unusual. A reset, which drops the document, has the same effect. Overlapping
  composes may also leave the view ref at the older of their two views while the
  document names the newer one: requests then hit the cache and clients are told
  the older tip until a namespace changes. `ToldIsServed` and `ToldIsFresh` make
  exceptions of these; without `firm`, TLC finds the refusal with three
  requests;
* dispatcher: a change of grant by `updatePage` emits only `update`, so the page
  stays in the old namespaces; descendants of a renamed page are sent with the
  text of a regular expression; deleted descendants are not sent; a change of
  grants that leaves a descendant in a namespace races the remove with the
  upsert there, which the subscription calls atomic (`A/index.ts:503-506`).
  These operations are in the run, and `CalmPathsMirror` names them as
  exceptions;
* drift detector: it sends entries with an empty revision id, with the comment
  that the manager then fetches the latest revision
  (`A/services/resilience/drift-detector.ts:250-251`), but the builder writes
  an empty file (`V/services/vault-namespace-builder.ts:502`); a page that is
  reconciled before it has a revision ends the same way. A save that was stamped
  before a sweep's query and lands after it is not swept, and so is one that
  moves a page out of the scope of the query;
* reconcile: the revision of a page waits in a buffer, and may overwrite that
  of an edit in between or bring a deleted page back; a process that starts
  fails the entries of every process, and the live run then writes `completed`
  over `failed`, where `A/models/vault-reconcile-log.ts:27` has a single
  direction;
* page operations: `init()`, which would remove the operations that cannot be
  resumed, has no caller, so that one left by a crash keeps its paths blocked;
  paths that a creation, a deletion or a rename touches before it records them,
  and the empty pages above them, are not kept apart by `canOperate`; a rename
  may be resumed by the route while it is still before its first tick;
  `executeAll` at start stops at the first operation whose expiry date is
  ahead;
* rename: one to the path of an empty page leaves two documents there; a
  redirect that is already there makes it throw after the page has moved; an
  await that rejects between taking the page off the tree and putting it back
  leaves it off the tree; a rename below its own place moves twice when it is
  resumed; renaming back leaves a redirect from the path of the page; a batch
  that fails is only logged; the recount of a resumed rename runs after its
  operation is deleted (`S/service/page/index.ts:879-952`), beside new
  requests;
* two requests at once: two renames, or a rename and a creation, to paths that
  lack the same parent insert an empty page for it each, or an empty page beside
  the created one; a parent that was looked up may be pruned, replaced or
  deleted before the page is put below it, which then hangs below a document
  that is gone; a rename counts its page up at the parent it found, and down
  again by the id of that parent, which a deletion may have replaced by an empty
  page meanwhile; `canOperate` lets a rename go to a path above the target of
  another in flight, whose descendants it then finds below it;
* what an earlier error leaves: a page that a failed batch left at its old path
  is still below the renamed page by its parent, and goes with a recursive
  complete deletion of that page, though its path is elsewhere; a page whose
  rename was thrown between its put and its redirects may hide a page created
  at its former path later;
* create and delete: a creation at an empty page recounts its children while a
  rename below it may be under way; a recursive deletion removes the empty
  pages below by id; its count is a copy from before; the redirect of a
  deletion may follow the creation that had cleared it.

## 5. Theorems

| theorem | module | says |
|---|---|---|
| `TypeCorrect` | `VaultNamespaceBuilder_proofs` | `Spec => []TypeOK` |
| `BodiesConfined` | `VaultNamespaceBuilder_proofs` | `Spec => []BodiesStayInTheirNamespace` |
| `AcknowledgedRecorded` | `VaultNamespaceBuilder_proofs` | `Spec => []AcknowledgedIsRecorded` |
| `NothingLost` | `VaultNamespaceBuilder_proofs` | `Spec => NoLostUpdate` |
| `Refinement` | `VaultNamespaceBuilder_proofs` | `Spec => ImplementsContents` |
| `NeverMissed` | `VaultInstructionWatcher_proofs` | `Spec => []NothingMissed` |
| `NeverAgain` | `VaultInstructionWatcher_proofs` | `Spec => ProcessedOnce` |
| `TypesHold` | `VaultInstructionWatcher_proofs` | `Spec => []TypeOK` of the watcher |
| `OrderHolds` | `VaultInstructionWatcher_proofs` | `Spec => CausalOrder` |
| `SlotsHold` | `VaultRepair_proofs` | `Spec => []SlotsMatchRuns` |
| `EntriesClosed` | `VaultRepair_proofs` | `Spec => []ClosedWhenOver` |
| `LogForward` | `VaultRepair_proofs` | `Spec => LogMovesForward` |
| `NothingUnswept` | `VaultRepair_proofs` | `Spec => []SweepMissesNothing` |
| `TypesHold` | `VaultRepair_proofs` | `Spec => []TypeOK` of `VaultRepair` |
| `RepairsHold` | `VaultRepair_proofs` | `Spec => []RepairedMirrors` |
| `TypesHold` | `VaultViewComposer_proofs` | `Spec => []TypeOK` of the composer |
| `ViewsAreFresh` | `VaultViewComposer_proofs` | `Spec => []FreshView` |
| `TipReturned` | `VaultViewComposer_proofs` | `Spec => ReturnsTheTip` |
| `ToldCommitsServed` | `VaultViewComposer_proofs` | `SessionSpec => []ToldIsServed` |
| `ToldTipsFresh` | `VaultViewComposer_proofs` | `SessionSpec => ToldIsFresh` |
| `TypesHold` | `VaultBootstrap_proofs` | `Spec => []TypeOK` of the bootstrap |
| `NobodyLeft` | `VaultBootstrap_proofs` | `Spec => []NobodyLeftRunning` |
| `SeededHolds` | `VaultBootstrap_proofs` | `Spec => SeededWhenDone` |
| `TypeCorrect` | `VaultDispatcher_proofs` | `Spec => []TypeOK` of the dispatcher |
| `NothingInvented` | `VaultDispatcher_proofs` | `Spec => []EntriesOnceHeld` |
| `CalmPathsAgree` | `VaultDispatcher_proofs` | `Spec => []CalmPathsMirror` |
| `SessionsCompose` | `VaultViewComposer_proofs` | `SessionSpec => Spec` of the composer |
| `AreasSetFree` | `PageTree_proofs` | `Spec => []AreasFreed` |
| `PagesAreTyped` | `PageTree_proofs` | `Spec => []TypeOK` of the page tree |
| `PagesAreKept` | `PageTreeNest_proofs` | `Spec => PagesKept` |
| `PathsFollow` | `PageTreeNest_proofs` | `Spec => []Follows`: paths follow parents, at any time |
| `AreasStayApart` | `PageTreeNest_proofs` | `Spec => []StayApart`: no operation in another's area |

The first five hold for every value of the constants under the assumptions
`TreeAssumption`, `InstructionAssumption` and `BuilderAssumption`: excluded
paths are paths, lost revisions are revisions, the markers for "nothing" are no
values, a grant change names two different namespaces, and there is a
namespace. TLC evaluates the assumptions in every run of the module. The bound
`MaxCommits` is any natural number. Those of the watcher hold for any number
of instructions, failures, stream errors and restarts and any positive batch
size (`WatcherAssumption`). Those of the repairs hold for any sets of users,
processes and namespaces, any positive limits and any finite sets of
requests and pages (`RepairAssumption`). Those of the composer hold for any
namespaces, requests, commits and resets (`ComposerAssumption`), those of the
clone sessions also under `SessionAssumption` (the marker for "no view" is no
request, view or document), those of the
bootstrap for any processes, namespaces, grants, positive chunk size, retries,
faults and length of the queue (`BootstrapAssumption`), those of the dispatcher
for any pages, namespaces, thresholds, failures and sets of namespaces a grant
may map to (`DispatcherAssumption`). Those of the page tree hold for any number
of runs, requests, resumptions, crashes and errors and any collection to begin
with, whose documents have the fields of the schema and ids counted from the
root's (`PageTreeAssumption`), and whose pages on the tree are each below the
page of their parent path (`WorldAssumption` of `PageTree`: what the migration
to the v5 tree leaves; pages that were never migrated are off the tree and may
have any path). Nothing is assumed of `descendantCount`, nor that there is one
page a path.

**Types.** `TypeOK` is inductive. The only step that is not immediate is that
`Effect` returns a tree; that is the lemma `EffectIsTree`, one case per
operation.

**Confinement.** For a fixed family `A` that the instructions allow, the
property is not inductive: `job.tree`, `job.src` and `squash[ns].tree` carry
bodies from one await to the next. The invariant adds that each of them is
confined, to the namespace it will be written to and, for `src`, to the source
of the grant change. `EffectIsConfined` shows that an instruction keeps trees
confined; the invariant then follows action by action, and `A` is
generalized at the end.

**Two writers.** `AcknowledgedRecorded`, `NothingLost` and `Refinement` rest on
one invariant (`SInv`), which holds of a namespace that is not `overtaken` in
every interleaving of builder and squashes. While `job.at` is "ref" the tree to
be written is the effect on the ref's present tree, although a squash may have
written the ref in between; while it is "state" the tree to be recorded is the
ref's; a recorded source half stays recorded until the acknowledgement. The
squash needs a part of its own (`SquashIsCurrent`): what it carries is the tree
that the ref shows and that is recorded. That is why it makes no difference
whether it falls before or after the builder's steps; the builder's write under
a squash in flight, and a squash begun between the builder's two writes, break
it, and these two are what `overtaken` records. `RecordingSettles` shows that a
namespace comes back when the builder has recorded a commit of it: what is then
recorded is what the ref shows, and no squash of it is in flight.

**Refinement.** The mapping hides the commits, the squash and the local tree.
`Begin*` maps to `Begin`, `WriteRef` and `DeleteRef` to `Apply`, `WriteState` to
`Publish`, `DeleteStates` to `Forget`, `Acknowledge` to itself, `Fail` and
`Crash` to `Abandon` or a stutter, and the other steps stutter, the squash's
included. In a namespace that is overtaken a write of either is `Overwrite`, and
an instruction that touches one ends by `AcknowledgeOvertaken`.

**Watcher.** `NothingMissed` speaks of a live process on an open stream only,
and is not inductive. The invariant `WInv` says for every phase where an
unprocessed instruction is: in the drain's batch or still after the drain's
`position`, in progress, tried by this process, inserted before a first stream
opened, passed by because its look-up rejected, or among the inserts the stream
has not brought to the pipeline; while
the stream is opening the last means behind the stored token, where every
insert of that time is. `CurrentIsNext`
ties the instruction in progress to the event the pipeline stands at. When the
drain completes, `position` has passed every insert it could see, and what
remains is the stream's. `NeverAgain` needs only the part `Unmarked`: between
the look-up of `processedAt` and `Apply` nobody else marks the instruction,
because one process handles one instruction at a time.

`OrderHolds` adds to `WInv` what is ripe: processed, or left for later. A
drained instruction is the least of its batch, so those before it are ripe or
were passed by; an event comes after the events before it. What ties the two
together is `Passed`: an event that the pipeline has been through, or that a
stream began after, is ripe or still with the drain, and `Saved`: a restarted
stream begins after ripe events only. Proving it showed an overtaking that the
first bounds of the run had not reached, the instruction behind the cursor.

**Repairs.** `SlotsMatchRuns` compares a number with the cardinality of a set of
runs, and needs two things beside itself (`Slotted`): a request is new, over, or
a record of all the local variables of its run (`WorkShape`), so that a step
that changes one of them leaves process and user as they are; and the counters
are natural numbers (`SlotsShape`), so that the guard against negative counters
in `Release` never acts. Every action is then one of four: steady (the runs in
flight stay what they are), taken (one run more, within the limits just
checked), freed (one less), or a crash, which empties both sides for one
process and leaves the others.

*The log* (`Booked`). Where a request stands fixes the status of its entry: none
before the entry is created, pending while it waits, running while it works;
unless a start has normalized the entry, in which case nothing is known until
the request is over. A request that is over has no open entry, unless it went
unrecorded. `ClosedWhenOver` and `LogMovesForward` both follow: the first is a
part of it, the second compares the status before a write with the one the
write records.

*The watermark* (`Swept`). An update is covered up to a time if each of its
namespaces has an instruction, among those inserted or those a tick still has to
insert. Every tick starts at a watermark up to which all is covered; after its
query its own remaining instructions cover the rest, up to its next watermark.
So the watermark may be written when they are all inserted. A save that lands
later is stamped after every query so far or counted among the late ones: the
invariant keeps all watermarks up to the greatest time queried. That `Max`
returns a greatest stamp is a lemma from the well-foundedness of `<`.

*The types and caps* (`Typed`) put both together with the types of documents and
of what a run carries: nothing is read before the stream, nothing beyond the
plan, and a run behind the gate has planned no more than its role allows.

*The repaired pages* (`Mirrored`). `RepairedMirrors` speaks of runs that are
over. The invariant says what an active run still has to do for each page it may
promise: it matches the query of the run; once read, it is in a buffer of the
run or its file is current; when the stream has ended, it has been read. And no
active run, this one or another, carries the page in a revision it no longer
has, so that no buffer that is written later undoes the repair.

**Composer.** `FreshView` speaks of requests that are through. What makes it
true is older: every version a request has read, every recorded one, and every
one that may still be recorded, because the builder or a squash carries it
(`AtHand`), has a tree that its ref has not gone back behind, or one that a reset
or a squash undid (`Known`); so a ref that is read later is at least as new. The
numbers of trees need not grow with those of commits: a squash makes a newer
commit of an older tree, and may record it after the builder has recorded a
newer one, which `Known` allows. A lemma for both writers (`WritersKeep`) shows
that they keep what is known. `Sound` carries this from the reads
through the merge to the result, `Kept` through the cached document, whose
content is as new as the versions it is stored with, so that a hit is as good
as a merge. `ReturnsTheTip` needs two facts more: a compose that has not been
overlapped is the only one, and the view ref is where it put it (`Lone`); and
while nothing is torn and nobody is between the two writes, ref and cached
document agree (`Together`).

*Clone sessions.* `ToldIsServed` speaks of the moment of the refusal; the
invariant `SInv` says what keeps it away. A request that has made a commit
reaches it (`Made`), and what was told firmly is behind all that can become the
tip: the tip itself, the commit in the document, and the parent of every compose
that has read the document (`FirmHeld`). It is the last part that an answer
given beside such a compose would not have, and a reset takes away all three.
`ToldIsFresh` is a step property: `Onward` says that neither the cached document
nor a compose in progress goes back behind the versions of a lone finished
compose: what either has read of a ref is as new, as its versions are still
`Known`. So the tip, wherever it has moved, is as new as long as it is the
document's. `SessionsCompose` shows that the
sessions are the composer: every step of a session is one of the composer or
leaves its variables alone, so that the composer's theorems hold of sessions.

**Bootstrap.** `Held` finds for each document in flight a process that minds it:
one at work between `SetRunning` and the end, one about to normalize it, or one
that is down and will look at it when it starts. Every await that rejects
without a handler, and a start while the heartbeat of a dead run is still
fresh, is recorded in `abandoned`; the proof shows that there is no third way.
`Sown` says where a page is that a run has read, in each of its namespaces: in
the buffer; in an instruction of the run that is in the queue, not behind the
run's last one and not before a reset-all; or in the vault with no reset-all to
come. The completeness check at the end has emptied the first two places. The
step that carries the weight is the application of an instruction, which shifts
all places in the queue at once (`QueueMoves`).

**Dispatcher.** What waits for a namespace and a path, in the buffer or in a
write in flight, is `Pending`; a timer and a full chunk leave it as it is, a
handler adds to it what it removes and posts, a write takes one instruction out
of it. `Mirrored` says of a path that is not unsure: all that waits for it
agrees with the pages, and where nothing waits the vault does. So it is of no
consequence in which order the writes for the path end, nor which entry of a
bulk-upsert wins. Two lemmas carry the weight: `Effect`, that an instruction
sets what it says and nothing else, and `ChangeKeeps`, that an event which
reports its change keeps the invariant. Proving it for every set of grants
showed that a change of grants must be an exception whenever old and new grant
share a namespace, where the run has disjoint or equal ones only.

**Page tree.** `AreasFreed` says that a recorded operation is gone when no
request is at work. The invariant `Held` finds for each recorded operation a run
that will delete it: the phases of a run are `Early` (it has not recorded its
operation), `Holding` (its operation is there, and it is the run that deletes
it) and `Late` (deleted, the recount of a rename goes on). A resumed rename
takes over the operation that it was started for. What a crash, or an error on a
way that deletes nothing, leaves behind is in `history.stopped`; the proof shows
that there is no other way.

*The types of the page tree* (`Typed`). The ids of a collection are the numbers
below its size, and it only grows: `Inserted` gives its documents the next ids
in the order of their paths' lengths, so the proof ranks the paths of a set that
are prefixes of one path (`InsertedIsCollection`). What a run carries from one
await to the next are ids (`RunTyped`, `StageTyped`), the documents among them
copies that were in the collection, and an operation names an id that is not the
root's (`OpTyped`). The climb to the ancestors of a page never leaves the ids:
any set that is closed under parents and holds the page holds its climb, by
first-order induction over the steps (from the well-foundedness of `<` on the
naturals).

*The operations stay apart* (`Ordered`). A run claims paths when it passes the
check, and its operation claims them from its recording until it is deleted:
the page's path and, for a rename, the path it goes to. `Apart` says that no
claimed path is in the area of another claim, `Outside` the same of what a
creation or a removal of one page touches. They hold because only one run at a
time is `Open`, from its beginning until it records its operation (the exception
is `crowded`), and because what such a run has seen of the operations only shrinks
until it records (`SeenShrinks`): so the refusal of `canOperate`, made on a read
that is awaits old, still counts. `DeeperHeld` keeps a rename below its own
place, which must not be resumed, with the run that began it.

*What an operation has taken nests in the tree* (`Nested`). Parents and paths do
not agree while a rename moves a target and then, batch by batch, its
descendants. The invariant gives each claim a family of pages, `fam`, and the
part of it that has not moved yet, `left`; both are existentially quantified,
as the code stores neither. A family is closed under children; each member's
path is the path of its place below the target, with the old prefix as long as
it is in `left` and the new one afterwards; the pages of a family, its target
and the empty pages planted for it are its house. `Coherent` says that outside
the houses each page on the tree is below the page of its parent path;
`Formers` that the former parent of a target is in nobody's house; `Stands`
what each run has read and will write from: the parent to put a page under, the
page a creation fills, the empty page that replaces a target, the batch. A step
of one run then disturbs its own house only, and a lemma for each action
(`...Nests`) shows that the house stays well formed, or is given back to the
tree at the end, when `left` is empty. The steps that write from a read that no
longer holds are the exceptions that `Undisturbed` names; without them the
invariant is inductive. Above a page in no house there are pages at all paths
(`PrefixesLive`, by the shortest of the pages with that prefix); so a rename that passes its
check to a path at which there is no page finds none below that path either,
and what it moves there stays apart from what others move. `PathsFollow` and
`AreasStayApart` read this invariant off, at any time and not only at rest.

*The pages are kept* (`KindsKept`, `Removing`). `PagesKept` holds in disturbed
trees too, so its invariant is another: a page that a deletion's batch will
remove, because it was empty when the batch was read, is empty still. The only
step that makes an empty page a page is the save of a creation that found it
empty; the invariant says that no such creation and no deletion are at work
together (only `crowded` could bring them together), that the page to fill is
not in the trash, and that a removal that goes on to descendants is a recursive
one. Each step walks (`Walks`) within these bounds or ends. What a complete
deletion's batch removes was below its target when it was read; that it still is
when it is removed, unless the tree is damaged or doubled, is again `Nested`.

Only model-checked: the properties of the file tree and the view tree; of the
page tree the rest of the shape at rest (`RestIsWellFormed`: one page a path,
no page left off the tree, no childless empty page, the counts) and
`CreatedIsReachable`, which needs that there is one page a path;
`PruningRemovesEmptyPages`, which the code violates; `NamesStay`. `Nested` says
nothing of two pages at one path: an empty page that a link has not connected
yet may stand beside the page that others moved there, and no part of the
invariant counts them. Out of the
prover's reach altogether: liveness (`EventuallyProcessed`, `Settles`,
`SlotsReturned`) and `ENABLED`; induction over data and `RECURSIVE` operators,
so that `SameFiles`, `NoEmptyDirectory` and the properties of views, which speak
of recursive trees, stay with TLC. The modules with theorems use no recursive
operator: `VaultTree` describes a tree by its file map for that reason, and the
run `file_tree` connects it to the recursive code.

## 6. Plan

1. `CreatedIsReachable` of the page tree as a theorem: beside `Nested` it needs
   that no two pages have one path, which must be carried through the moments at
   which empty pages are inserted off the tree and linked later.
2. More page operations in `PageTree`: duplicate and revert. Revert needs the
   paths under `/trash` and the look-up of a page through its redirect: a
   reverted page leaves the redirect that its deletion made to the route
   `unlink` (`S/service/page/index.ts:2797-2965`).
3. `VaultReplication`: the dispatcher and the bootstrap composed on one outbox,
   for the stale entries of a page stream that an edit has overtaken.
4. The gateway's state guard composed with the bootstrap.

## 7. Not modelled

* **git's wire format, filters, HTTP, authentication, storage of objects**: byte
  formats and I/O, with no state of their own that the properties speak of.
* **gc**: changes no ref; an object that is reachable stays.
* **state guard of the gateway**: item 4 of the plan.
* **page service beyond rename, create, delete and complete deletion**:
  duplicate, revert, emptying the trash, update, changes of grants,
  normalization of v4 pages, user pages and exports are not part of `PageTree`.
* **process info of page operations**: what the client shows; no decision
  depends on it.
* **retry schedule**: `bootstrapRetryNextAt` is never set within a running
  process, a retry happens at the next start; the model has that.
* **MongoDB**: reads and writes of one document are atomic; the change stream
  delivers inserts in the oplog's order and resumes behind its token.
* **time**: windows, intervals, expiry dates and the stale threshold are
  modelled by the freedom to fire; `fresh` in `VaultBootstrap` and `ahead` in
  `PageTree` are the two abstractions of a clock.
* **the rest of the repository**: four thousand files of routes, components,
  packages and tests around the parts above, most of them stateless or
  presentation. The models cover a small share of it by lines, and of the code
  in `A/`, `V/` and the background part of the page service most of what changes
  state.
