--------------------------- MODULE VaultDispatcher ---------------------------
(***************************************************************************)
(* How changes of pages reach the outbox collection vault_instructions:    *)
(* the page events of PageService, the subscriptions of the vault feature  *)
(* (growi-vault/server/index.ts) and the dispatcher (vault-dispatcher.ts)  *)
(* with its per-namespace coalesce buffer and its retried writes.          *)
(*                                                                         *)
(* The vault applies instructions in the order of their insertion (see     *)
(* VaultInstructionWatcher), so an insertion is modelled by its effect on  *)
(* what the vault holds.  One step is one page operation with the          *)
(* synchronous part of its event handler, one timer, or one write.         *)
(***************************************************************************)
EXTENDS Naturals, Sequences, FiniteSets, SequencesExt

CONSTANTS
    Pages, Paths, Namespaces,
    Grants,        \* the namespace sets a grant can map to (derivePageNamespaces)
    Operations,    \* the page operations that occur
    Threshold,     \* COALESCE_THRESHOLD
    ChunkSize,     \* CHUNK_SIZE
    MaxOps,        \* bound: page operations
    MaxFailures    \* bound: failing writes

ASSUME DispatcherAssumption ==
    /\ Grants \subseteq SUBSET Namespaces
    /\ "none" \notin Paths
    /\ Threshold \in Nat /\ ChunkSize \in Nat /\ 0 < Threshold /\ Threshold <= ChunkSize
    /\ MaxOps \in Nat /\ MaxFailures \in Nat

VARIABLES
    pages,     \* the page documents that are not in the trash
    buffer,    \* coalesceMap: namespace -> entries waiting for the timer
    writing,   \* the writes in flight
    vault,     \* namespace -> path -> revision, after the writes so far
    clock,     \* page operations so far; a new revision has its number
    held,      \* history: the entries the pages have called for
    unsure,    \* history: the paths whose events crowded, failed or are not sent
    failures   \* counter of the bounded failures

vars == <<pages, buffer, writing, vault, clock, held, unsure, failures>>

NoRevision == 0
Absent == [rev |-> NoRevision, grant |-> {}, path |-> "none"]
Page == [rev : 0 .. MaxOps, grant : Grants, path : Paths]
Entry == [path : Paths, rev : 1 .. MaxOps]

Init ==
    /\ pages = [p \in Pages |-> Absent]
    /\ buffer = [ns \in Namespaces |-> <<>>]
    /\ writing = {}
    /\ vault = [ns \in Namespaces |-> [path \in Paths |-> NoRevision]]
    /\ clock = 0
    /\ held = {}
    /\ unsure = {}
    /\ failures = 0

-----------------------------------------------------------------------------
(* Instructions, as far as the dispatcher builds them. *)

(* One upsert, or a bulk-upsert of several entries. *)
Upsert(ns, entries) == [op |-> "upsert", ns |-> ns, entries |-> entries]
RemovePage(ns, path) == [op |-> "remove", ns |-> ns, path |-> path]

(* PageService passes the RegExp it replaces paths with as the old prefix:   *)
(* its text is stored, and no directory of the vault has that name.          *)
RenameRegExp(ns) == [op |-> "rename-prefix", ns |-> ns]

(* The last entry for a path wins. *)
After(v, i) ==
    CASE i.op = "upsert" ->
            [v EXCEPT ![i.ns] = [path \in Paths |->
                LET ks == {k \in DOMAIN i.entries : i.entries[k].path = path}
                IN  IF ks = {} THEN @[path] ELSE i.entries[Max(ks)].rev]]
      [] i.op = "remove" -> [v EXCEPT ![i.ns][i.path] = NoRevision]
      [] i.op = "rename-prefix" -> v

(* at tells equal instructions of different operations apart. *)
Write(at, i) == [at |-> at, tries |-> 1, instr |-> i]

RemoveFrom(nss, path) == {Write(clock + 1, RemovePage(ns, path)) : ns \in nss}

(* Without a revision there is nothing to upsert. *)
UpsertInto(nss, path, rev) ==
    IF rev = NoRevision THEN {}
    ELSE {Write(clock + 1, Upsert(ns, <<[path |-> path, rev |-> rev]>>)) : ns \in nss}

Quiet == writing = {} /\ \A ns \in Namespaces : buffer[ns] = <<>>

(* The paths an instruction writes. *)
Writes(i) ==
    CASE i.op = "upsert" -> {e.path : e \in ToSet(i.entries)}
      [] i.op = "remove" -> {i.path}
      [] i.op = "rename-prefix" -> {}

(* The paths with an entry in a buffer or a write in flight. *)
Unsettled ==
    (UNION {Writes(w.instr) : w \in writing})
        \cup (UNION {{e.path : e \in ToSet(buffer[ns])} : ns \in Namespaces})

(* The operations whose event carries everything that they change. *)
Carried == {"create", "edit", "rename", "delete", "descendant-grant"}

Wants(page, ns, path) == page.path = path /\ ns \in page.grant

(* What the vault is to hold for the pages as they are. *)
Expected ==
    [ns \in Namespaces |-> [path \in Paths |->
        LET there == {p \in Pages : Wants(pages[p], ns, path)}
        IN  IF there = {} THEN NoRevision
            ELSE pages[CHOOSE p \in there : TRUE].rev]]

(* The page operation changes page p to page. *)
Change(operation, p, page) ==
    /\ operation \in Operations
    /\ clock < MaxOps
    /\ pages' = [pages EXCEPT ![p] = page]
    /\ clock' = clock + 1
    /\ held' = held \cup {<<ns, page.path, page.rev>> : ns \in page.grant}
    /\ LET touched == {pages[p].path, page.path} \cap Paths
       IN  unsure' = unsure \cup
              IF operation \in Carried THEN touched \cap Unsettled ELSE touched
    /\ UNCHANGED <<vault, failures>>

Live(p) == pages[p] # Absent
Free(path) == \A p \in Pages : pages[p].path # path

-----------------------------------------------------------------------------
(* Mistakes the runs must notice; no specification uses these definitions.   *)

(* A full chunk is not flushed before the timer. *)
EnqueueUnbounded(nss, path, rev) ==
    /\ buffer' = [ns \in Namespaces |->
                    IF ns \in nss /\ rev # NoRevision
                    THEN Append(buffer[ns], [path |-> path, rev |-> rev])
                    ELSE buffer[ns]]
    /\ UNCHANGED writing

(* The buffer is not kept per namespace. *)
EnqueueShared(nss, path, rev) ==
    /\ buffer' = [ns \in Namespaces |->
                    IF rev # NoRevision /\ Len(buffer[ns]) + 1 < ChunkSize
                    THEN Append(buffer[ns], [path |-> path, rev |-> rev])
                    ELSE buffer[ns]]
    /\ UNCHANGED writing

(* The timer leaves its entry in coalesceMap. *)
TimerFiresKeepsEntry(ns) ==
    /\ buffer[ns] # <<>>
    /\ writing' = writing \cup {Write(buffer[ns][1].rev, Upsert(ns, buffer[ns]))}
    /\ UNCHANGED <<pages, buffer, vault, clock, held, unsure, failures>>

(* A rename is dispatched as an upsert alone. *)
RenameUpsertOnly(p, path) ==
    /\ Live(p) /\ Free(path)
    /\ Change("rename", p, [pages[p] EXCEPT !.path = path])
    /\ writing' = writing \cup UpsertInto(pages[p].grant, path, pages[p].rev)
    /\ UNCHANGED buffer

-----------------------------------------------------------------------------
(* The coalesce buffer. *)

(* enqueueUpsert for every namespace of the page; a full chunk is flushed at *)
(* once, as a bulk-upsert.                                                   *)
Enqueue(nss, path, rev) ==
    LET entry == [path |-> path, rev |-> rev]
        into == IF rev = NoRevision THEN {} ELSE nss
        full == {ns \in into : Len(buffer[ns]) + 1 >= ChunkSize}
    IN  /\ buffer' = [ns \in Namespaces |->
                        CASE ns \in full -> <<>>
                          [] ns \in into \ full -> Append(buffer[ns], entry)
                          [] OTHER -> buffer[ns]]
        /\ writing' = writing \cup
              {Write(clock + 1, Upsert(ns, Append(buffer[ns], entry))) : ns \in full}

(* The coalesce window ends: one bulk-upsert, or an upsert for every entry.  *)
TimerFires(ns) ==
    /\ buffer[ns] # <<>>
    /\ buffer' = [buffer EXCEPT ![ns] = <<>>]
    /\ writing' = writing \cup
          IF Len(buffer[ns]) >= Threshold
          THEN {Write(clock, Upsert(ns, buffer[ns]))}
          ELSE {Write(clock, Upsert(ns, <<e>>)) : e \in ToSet(buffer[ns])}
    /\ UNCHANGED <<pages, vault, clock, held, unsure, failures>>

(* VaultInstruction.create resolves. *)
WriteDone(w) ==
    /\ w \in writing
    /\ vault' = After(vault, w.instr)
    /\ writing' = writing \ {w}
    /\ UNCHANGED <<pages, buffer, clock, held, unsure, failures>>

(* It rejects, with or without having inserted the document.  It is tried    *)
(* once more; then a warning is logged and the instruction is dropped.       *)
WriteFails(w) ==
    /\ w \in writing
    /\ failures < MaxFailures
    /\ failures' = failures + 1
    /\ vault' \in {vault, After(vault, w.instr)}
    /\ writing' = (writing \ {w}) \cup
          IF w.tries = 1 THEN {[w EXCEPT !.tries = 2]} ELSE {}
    /\ unsure' = unsure \cup Writes(w.instr)
    /\ UNCHANGED <<pages, buffer, clock, held>>

(* The process dies with its buffer and its writes. *)
Crash ==
    /\ ~Quiet
    /\ failures < MaxFailures
    /\ failures' = failures + 1
    /\ writing' = {}
    /\ buffer' = [ns \in Namespaces |-> <<>>]
    /\ unsure' = unsure \cup Unsettled
    /\ UNCHANGED <<pages, vault, clock, held>>

-----------------------------------------------------------------------------
(* Page operations and the handlers of their events. *)

(* 'create'; an auto-generated page has no revision yet. *)
Create(p, path, grant, rev) ==
    /\ ~Live(p) /\ Free(path)
    /\ rev \in {NoRevision, clock + 1}
    /\ Change("create", p, [rev |-> rev, grant |-> grant, path |-> path])
    /\ Enqueue(grant, path, rev)

(* 'update' after a new revision. *)
Edit(p) ==
    /\ Live(p)
    /\ Change("edit", p, [pages[p] EXCEPT !.rev = clock + 1])
    /\ Enqueue(pages[p].grant, pages[p].path, clock + 1)

(* updatePage with another grant emits 'update' as well. *)
ChangeGrant(p, grant) ==
    /\ Live(p) /\ grant # pages[p].grant
    /\ Change("grant", p, [pages[p] EXCEPT !.grant = grant])
    /\ Enqueue(grant, pages[p].path, pages[p].rev)

(* 'rename': remove at the old path and upsert at the new one, concurrently. *)
Rename(p, path) ==
    /\ Live(p) /\ Free(path)
    /\ Change("rename", p, [pages[p] EXCEPT !.path = path])
    /\ writing' = writing \cup RemoveFrom(pages[p].grant, pages[p].path)
                          \cup UpsertInto(pages[p].grant, path, pages[p].rev)
    /\ UNCHANGED buffer

(* 'delete': the page moves under /trash, which the vault leaves out. *)
Delete(p) ==
    /\ Live(p)
    /\ Change("delete", p, Absent)
    /\ writing' = writing \cup RemoveFrom(pages[p].grant, pages[p].path)
    /\ UNCHANGED buffer

(* 'descendantsGrantChanged': an acl-change for every page, those that had   *)
(* the grant before included.  A namespace of both grants gets the remove    *)
(* and the upsert, concurrently.                                             *)
ChangeDescendantGrant(p, grant) ==
    /\ Live(p)
    /\ Change(IF grant \cap pages[p].grant = {} THEN "descendant-grant"
                                               ELSE "descendant-overlapping-grant",
              p, [pages[p] EXCEPT !.grant = grant])
    /\ writing' = writing \cup RemoveFrom(pages[p].grant, pages[p].path)
                          \cup UpsertInto(grant, pages[p].path, pages[p].rev)
    /\ UNCHANGED buffer

(* 'updateMany' after a rename of an ancestor. *)
RenameDescendant(p, path) ==
    /\ Live(p) /\ Free(path)
    /\ Change("descendant-rename", p, [pages[p] EXCEPT !.path = path])
    /\ writing' = writing \cup
          {Write(clock + 1, RenameRegExp(ns)) : ns \in pages[p].grant}
    /\ UNCHANGED buffer

(* 'syncDescendantsDelete' after a recursive deletion only logs. *)
DeleteDescendant(p) ==
    /\ Live(p)
    /\ Change("descendant-delete", p, Absent)
    /\ UNCHANGED <<buffer, writing>>

PageOperation ==
    \E p \in Pages :
        \/ \E path \in Paths, grant \in Grants, rev \in 0 .. MaxOps :
              Create(p, path, grant, rev)
        \/ Edit(p) \/ Delete(p) \/ DeleteDescendant(p)
        \/ \E path \in Paths : Rename(p, path) \/ RenameDescendant(p, path)
        \/ \E grant \in Grants :
              ChangeGrant(p, grant) \/ ChangeDescendantGrant(p, grant)

Dispatch ==
    \/ \E ns \in Namespaces : TimerFires(ns)
    \/ \E w \in writing : WriteDone(w) \/ WriteFails(w)

Next == PageOperation \/ Dispatch \/ Crash

Spec == Init /\ [][Next]_vars

(* Timers fire and writes settle. *)
FairSpec == Spec /\ WF_vars(Dispatch)

-----------------------------------------------------------------------------
(* Properties. *)

(* A buffer never reaches the chunk size, and a write is never tried a third *)
(* time.                                                                     *)
TypeOK ==
    /\ pages \in [Pages -> Page \cup {Absent}]
    /\ \A ns \in Namespaces :
          buffer[ns] \in Seq(Entry) /\ Len(buffer[ns]) < ChunkSize
    /\ \A w \in writing : w.tries \in {1, 2} /\ w.instr.ns \in Namespaces
    /\ vault \in [Namespaces -> [Paths -> 0 .. MaxOps]]

(* Whatever is coalesced, overtaken, lost or written twice, an entry of the  *)
(* vault is one that some page once called for: that revision, at that path, *)
(* in that namespace.                                                        *)
EntriesOnceHeld ==
    \A ns \in Namespaces, path \in Paths :
        vault[ns][path] # NoRevision => <<ns, path, vault[ns][path]>> \in held

(* When the pages stay as they are the dispatcher comes to rest: no entry is *)
(* left in a buffer and no write is tried for ever.                          *)
Settles == <>[]Quiet

(* A path whose events never crowded shows in every namespace what the pages *)
(* call for as soon as its own entries are written, whatever is still        *)
(* buffered, failing or overtaken for other paths: coalescing and parallel   *)
(* writes mix up no two paths and no two namespaces.  Exceptions: a path     *)
(* that changed while an entry for it was waiting, a lost write, and the     *)
(* operations whose events the subscriptions do not carry over.              *)
CalmPathsMirror ==
    \A path \in Paths \ (unsure \cup Unsettled) :
        \A ns \in Namespaces : vault[ns][path] = Expected[ns][path]

(* When the dispatcher is at rest the vault holds the pages as they are, each *)
(* in the namespaces of its grant and nowhere else.                          *)
MirrorsPages == Quiet => vault = Expected
==============================================================================
