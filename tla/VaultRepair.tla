------------------------------ MODULE VaultRepair ------------------------------
(***************************************************************************)
(* The two ways the app repairs a vault that has fallen behind its pages:  *)
(*                                                                         *)
(*   - reconcile: a user or an administrator has a page or a subtree       *)
(*     written again (services/reconcile): acceptance, slots per user      *)
(*     and process, the stream of the orchestrator, the log of the runs;   *)
(*   - the drift detector (resilience/drift-detector.ts): a timer sweeps   *)
(*     the pages updated since a watermark.                                *)
(*                                                                         *)
(* Pages are saved meanwhile, and the upsert of a save may be lost (see    *)
(* VaultDispatcher).  Instructions take effect in the order of their       *)
(* insertion, so an insertion is modelled by its effect on what the vault  *)
(* holds.  An entry without a revision id becomes a file without a body    *)
(* (applyBulkUpsert).  A step is the code between two awaits.              *)
(***************************************************************************)
EXTENDS Integers, Sequences, FiniteSets, SequencesExt

CONSTANTS
    Pages, Root,       \* the pages of the subtree; its top page is the target
    Namespaces, Grants,
    Processes, Requests, Sweeps,
    Users, Admins, Sees,   \* Sees[u]: the namespaces user u may read
    UserLimit, AdminLimit, \* vaultReconcileMaxPagesPer(User|Admin)Request
    MaxPerUser, MaxSystem, \* vaultReconcileMaxConcurrent(PerUser|System)
    AdminBypass,           \* vaultReconcileAdminBypassCapacityLimit
    ChunkSize,             \* vaultReconcileChunkSize
    MaxPagesPerTick,       \* vaultDriftMaxPagesPerTick
    Budgets                \* bound: how often each kind of event may happen

Events == {"request", "save", "tick", "crash", "failure", "bootstrap"}

ASSUME RepairAssumption ==
    /\ Root \in Pages /\ Admins \subseteq Users
    /\ Grants \subseteq SUBSET Namespaces /\ Sees \in [Users -> SUBSET Namespaces]
    /\ {UserLimit, AdminLimit, MaxPerUser, MaxSystem, ChunkSize, MaxPagesPerTick}
          \subseteq Nat \ {0}
    /\ AdminBypass \in BOOLEAN
    /\ Budgets \subseteq [Events -> Nat]
    /\ IsFiniteSet(Requests) /\ IsFiniteSet(Pages)

VARIABLES
    pages, saving,     \* the page documents; the saves stamped but not landed
    descendants,       \* descendantCount of the target, which lags behind
    vault,             \* namespace -> page -> revision, or None
    done,              \* bootstrapState = 'done'
    up,                \* the app processes that are running
    userCount, systemCount,  \* the slots, in the memory of each process
    work,              \* request -> its submit() and run() with local variables
    log,               \* request -> status in vault_reconcile_log
    sweep,             \* sweep -> a tick of the drift detector
    watermark,         \* driftLastWatermark; 0 is bootstrapCompletedAt
    clock,             \* numbers the saves
    budget,            \* the bounded events that are left
    history            \* what the properties compare with; no guard reads it

docs == <<pages, saving, descendants>>
slots == <<userCount, systemCount>>
vars == <<docs, vault, done, up, slots, work, log, sweep, watermark,
          clock, budget, history>>

None == -1
NoRevision == 0    \* an empty page; in the vault, a file without a body
Absent == [rev |-> None, grant |-> {}, updatedAt |-> 0]
Idle == [at |-> "idle"]
Over == [at |-> "over"]

Terminal == {"completed", "failed", "rejected"}
Open == {"pending", "running"}

Init ==
    /\ pages = [q \in Pages |->
                  IF q = Root
                  THEN [rev |-> NoRevision, grant |-> Namespaces, updatedAt |-> 0]
                  ELSE Absent]
    /\ saving = [q \in Pages |-> Absent]
    /\ descendants = 0
    /\ vault = [ns \in Namespaces |-> [q \in Pages |-> None]]
    /\ done = TRUE
    /\ up = Processes
    /\ userCount = [p \in Processes |-> [u \in Users |-> 0]]
    /\ systemCount = [p \in Processes |-> 0]
    /\ work = [r \in Requests |-> Idle]
    /\ log = [r \in Requests |-> "none"]
    /\ sweep = [s \in Sweeps |-> Idle]
    /\ watermark = 0
    /\ clock = 0
    /\ budget \in Budgets
    /\ history = [steady |-> [r \in Requests |-> {}], repaired |-> {},
                  unrecorded |-> {}, normalized |-> {},
                  swept |-> {}, queried |-> 0, late |-> {}]

Spend(event) ==
    /\ budget[event] > 0
    /\ budget' = [budget EXCEPT ![event] = @ - 1]

(* Ids are interchangeable. *)
Fresh(f) == CHOOSE x \in DOMAIN f : f[x] = Idle

(* One entry of a bulk-upsert, and all of them. *)
Written(v, ns, entries) ==
    [v EXCEPT ![ns] = [q \in Pages |->
        LET ks == {k \in DOMAIN entries : entries[k].page = q}
        IN  IF ks = {} THEN @[q] ELSE entries[CHOOSE k \in ks : TRUE].rev]]

-----------------------------------------------------------------------------
(* Pages are saved. *)

(* Mongoose stamps updatedAt in the app process; the write lands later.      *)
Save(q, doc) ==
    /\ Spend("save")
    /\ saving[q] = Absent
    /\ saving' = [saving EXCEPT ![q] = doc]
    /\ clock' = clock + 1
    /\ UNCHANGED <<pages, descendants, vault, done, up, slots, work, log, sweep,
                   watermark, history>>

Stale(r, q) ==
    /\ work[r].at \in {"stream", "drain"}
    /\ \E ns \in Namespaces : \E k \in DOMAIN work[r].buf[ns] :
          /\ work[r].buf[ns][k].page = q
          /\ work[r].buf[ns][k].rev # pages[q].rev

(* The write lands and its event is dispatched, or lost. *)
Land(q) ==
    /\ saving[q] # Absent
    /\ pages' = [pages EXCEPT ![q] = saving[q]]
    /\ saving' = [saving EXCEPT ![q] = Absent]
    /\ vault' \in {vault,
          [ns \in Namespaces |->
              IF ns \in saving[q].grant
              THEN [vault[ns] EXCEPT ![q] = saving[q].rev] ELSE vault[ns]]}
    /\ history' = [history EXCEPT
          !.steady = [r \in Requests |-> {x \in @[r] : x[1] # q}],
          !.repaired = {x \in @ : x[1] # q},
          !.late = IF saving[q].updatedAt <= history.queried
                   THEN @ \cup {q} ELSE @ \ {q}]
    /\ UNCHANGED <<descendants, done, up, slots, work, log, sweep, watermark,
                   clock, budget>>

(* descendantCount is brought up to date after the page has been written.    *)
CountDescendants ==
    /\ descendants' = Cardinality({q \in Pages \ {Root} : pages[q] # Absent})
    /\ descendants' # descendants
    /\ UNCHANGED <<pages, saving, vault, done, up, slots, work, log, sweep,
                   watermark, clock, budget, history>>

(* A wipe, or the end of a bootstrap: the subject of VaultBootstrap. *)
BootstrapChanges ==
    /\ Spend("bootstrap")
    /\ done' = ~done
    /\ UNCHANGED <<docs, vault, up, slots, work, log, sweep, watermark, clock,
                   history>>

Environment ==
    \/ \E q \in Pages, grant \in Grants :
          Save(q, [rev |-> clock + 1, grant |-> grant, updatedAt |-> clock + 1])
    \/ \E q \in Pages : Land(q)
    \/ CountDescendants \/ BootstrapChanges

-----------------------------------------------------------------------------
(* Requests and sweeps, and what they leave alone. *)

Holding(r) == work[r].at \in {"queued", "stream", "drain", "cap", "catch"}

(* The slot is given back in the finally block of the background work. *)
Release(r) ==
    LET p == work[r].proc  u == work[r].user
    IN  /\ userCount' = [userCount EXCEPT ![p][u] = IF @ > 0 THEN @ - 1 ELSE @]
        /\ systemCount' = [systemCount EXCEPT ![p] = IF @ > 0 THEN @ - 1 ELSE @]

Step(r, at) == work' = [work EXCEPT ![r].at = at]
End(r) == work' = [work EXCEPT ![r] = Over]
Record(r, status) == log' = [log EXCEPT ![r] = status]

Elsewhere == <<docs, done, up, sweep, watermark, clock>>
SweepElsewhere == <<docs, done, up, slots, work, log, clock>>

(* What eligibleQuery matches, with the pages as they are now. *)
Eligible(r) ==
    {q \in Pages :
        /\ pages[q] # Absent
        /\ work[r].kind = "page" => q = Root
        /\ work[r].user \in Admins \/ pages[q].grant \cap Sees[work[r].user] # {}}

Unread(r) == Eligible(r) \ work[r].seen

FullBuffers(r) == {ns \in Namespaces : Len(work[r].buf[ns]) >= ChunkSize}
NonEmpty(r) == {ns \in Namespaces : work[r].buf[ns] # <<>>}

-----------------------------------------------------------------------------
(* Mistakes the runs must notice; no specification uses these definitions.   *)

(* The hard cap is off by one. *)
StreamPageOneMore(r, q) ==
    /\ work[r].at = "stream" /\ FullBuffers(r) = {}
    /\ q \in Unread(r)
    /\ Cardinality(work[r].seen) <= work[r].planned
    /\ work' = [work EXCEPT ![r].seen = @ \cup {q}]
    /\ UNCHANGED <<Elsewhere, vault, slots, log, budget, history>>

(* The hard cap returns without a word in the log. *)
StreamOverCapSilent(r) ==
    /\ work[r].at = "stream" /\ FullBuffers(r) = {}
    /\ Unread(r) # {}
    /\ Cardinality(work[r].seen) = work[r].planned
    /\ End(r) /\ Release(r)
    /\ UNCHANGED <<Elsewhere, vault, log, budget, history>>

(* The buffer is written and kept. *)
FlushKeepsBuffer(r, ns) ==
    /\ \/ work[r].at = "stream" /\ ns \in FullBuffers(r)
       \/ work[r].at = "drain" /\ ns \in NonEmpty(r)
    /\ vault' = Written(vault, ns, work[r].buf[ns])
    /\ UNCHANGED <<Elsewhere, work, slots, log, budget, history>>

(* The rest of the buffers is not flushed. *)
LogCompletedUnflushed(r) ==
    /\ work[r].at = "drain"
    /\ Record(r, "completed")
    /\ End(r) /\ Release(r)
    /\ history' = [history EXCEPT !.repaired = @ \cup history.steady[r],
                                  !.steady[r] = {}]
    /\ UNCHANGED <<Elsewhere, vault, budget>>

(* The slot is not released when the work throws. *)
LogFailedKeepsSlot(r) ==
    /\ work[r].at \in {"cap", "catch"}
    /\ Record(r, "failed")
    /\ End(r)
    /\ history' = [history EXCEPT !.steady[r] = {}]
    /\ UNCHANGED <<Elsewhere, vault, slots, budget>>

(* The watermark is the time of the sweep. *)
SaveWatermarkNow(s) ==
    /\ sweep[s].at = "write" /\ sweep[s].left = {}
    /\ watermark' = clock
    /\ sweep' = [sweep EXCEPT ![s] = Over]
    /\ UNCHANGED <<SweepElsewhere, vault, budget, history>>

(* The normalization has no filter on the status. *)
BootFailsEvery(p) ==
    /\ p \notin up
    /\ up' = up \cup {p}
    /\ log' = [r \in Requests |-> IF log[r] = "none" THEN "none" ELSE "failed"]
    /\ history' = [history EXCEPT !.unrecorded = {},
          !.normalized = @ \cup {r \in Requests : log[r] \in Open}]
    /\ UNCHANGED <<docs, vault, done, slots, work, sweep, watermark, clock, budget>>

-----------------------------------------------------------------------------
(* Reconcile: acceptance. *)

(* submit(): the bootstrap state is read first; a refusal leaves no entry.   *)
Submit(r, p, u, kind) ==
    /\ Spend("request")
    /\ work[r] = Idle
    /\ p \in up /\ r = Fresh(work)
    /\ work' = [work EXCEPT ![r] =
          IF done
          THEN [at |-> "gate", proc |-> p, user |-> u, kind |-> kind, planned |-> 0,
                seen |-> {}, buf |-> [ns \in Namespaces |-> <<>>]]
          ELSE Over]
    /\ UNCHANGED <<Elsewhere, vault, slots, log, history>>

(* The target page is read: its descendantCount decides, not a count.        *)
Gate(r) ==
    /\ work[r].at = "gate"
    /\ LET planned == IF work[r].kind = "page" THEN 1 ELSE 1 + descendants
           limit == IF work[r].user \in Admins THEN AdminLimit ELSE UserLimit
       IN  work' = [work EXCEPT ![r].at = IF planned > limit THEN "limit" ELSE "create",
                                ![r].planned = planned]
    /\ UNCHANGED <<Elsewhere, vault, slots, log, budget, history>>

LogOverLimit(r) ==
    /\ work[r].at = "limit"
    /\ Record(r, "rejected")
    /\ End(r)
    /\ UNCHANGED <<Elsewhere, vault, slots, budget, history>>

HasSlot(p, u) ==
    /\ userCount[p][u] < MaxPerUser
    /\ (u \in Admins /\ AdminBypass) \/ systemCount[p] < MaxSystem

(* The entry is created as pending; then, without another await, the slot is *)
(* checked and taken.                                                        *)
LogPending(r) ==
    /\ work[r].at = "create"
    /\ Record(r, "pending")
    /\ LET p == work[r].proc  u == work[r].user
       IN  IF HasSlot(p, u)
           THEN /\ userCount' = [userCount EXCEPT ![p][u] = @ + 1]
                /\ systemCount' = [systemCount EXCEPT ![p] = @ + 1]
                /\ Step(r, "queued")
           ELSE UNCHANGED slots /\ Step(r, "refused")
    /\ UNCHANGED <<Elsewhere, vault, budget, history>>

LogRefused(r) ==
    /\ work[r].at = "refused"
    /\ Record(r, "rejected")
    /\ End(r)
    /\ UNCHANGED <<Elsewhere, vault, slots, budget, history>>

-----------------------------------------------------------------------------
(* Reconcile: the orchestrator. *)

(* The run begins.  History: what it may promise is a page that no other run *)
(* carries in an older revision.                                             *)
LogRunning(r) ==
    /\ work[r].at = "queued"
    /\ Record(r, "running")
    /\ Step(r, "stream")
    /\ history' = [history EXCEPT !.steady[r] =
          UNION {{q} \X pages[q].grant :
                    q \in {x \in Eligible(r) : \A o \in Requests : ~Stale(o, x)}}]
    /\ UNCHANGED <<Elsewhere, vault, slots, budget>>

(* The cursor brings the next page, in no particular order. *)
StreamPage(r, q) ==
    /\ work[r].at = "stream" /\ FullBuffers(r) = {}
    /\ q \in Unread(r)
    /\ Cardinality(work[r].seen) < work[r].planned
    /\ work' = [work EXCEPT
          ![r].seen = @ \cup {q},
          ![r].buf = [ns \in Namespaces |->
              IF ns \in pages[q].grant
              THEN Append(@[ns], [page |-> q, rev |-> pages[q].rev]) ELSE @[ns]]]
    /\ UNCHANGED <<Elsewhere, vault, slots, log, budget, history>>

(* One page more than planned: the run gives up, what is written stays. *)
StreamOverCap(r) ==
    /\ work[r].at = "stream" /\ FullBuffers(r) = {}
    /\ Unread(r) # {}
    /\ Cardinality(work[r].seen) = work[r].planned
    /\ Step(r, "cap")
    /\ UNCHANGED <<Elsewhere, vault, slots, log, budget, history>>

(* The cursor is exhausted, or has reached its own limit. *)
StreamEnds(r) ==
    /\ work[r].at = "stream" /\ FullBuffers(r) = {}
    /\ Unread(r) = {}
    /\ Step(r, "drain")
    /\ UNCHANGED <<Elsewhere, vault, slots, log, budget, history>>

(* A full buffer while streaming, each that is not empty at the end. *)
Flush(r, ns) ==
    /\ \/ work[r].at = "stream" /\ ns \in FullBuffers(r)
       \/ work[r].at = "drain" /\ ns \in NonEmpty(r)
    /\ vault' = Written(vault, ns, work[r].buf[ns])
    /\ work' = [work EXCEPT ![r].buf[ns] = <<>>]
    /\ UNCHANGED <<Elsewhere, slots, log, budget, history>>

LogCompleted(r) ==
    /\ work[r].at = "drain" /\ NonEmpty(r) = {}
    /\ Record(r, "completed")
    /\ End(r) /\ Release(r)
    /\ history' = [history EXCEPT !.repaired = @ \cup history.steady[r],
                                  !.steady[r] = {}]
    /\ UNCHANGED <<Elsewhere, vault, budget>>

(* The hard cap, or the catch block. *)
LogFailed(r) ==
    /\ work[r].at \in {"cap", "catch"}
    /\ Record(r, "failed")
    /\ End(r) /\ Release(r)
    /\ history' = [history EXCEPT !.steady[r] = {}]
    /\ UNCHANGED <<Elsewhere, vault, budget>>

(* An await rejects: inside the try block the catch block records it; before *)
(* it, and in the catch block itself, the entry stays as it is.              *)
AwaitFails(r) ==
    /\ Spend("failure")
    /\ \/ /\ work[r].at \in {"stream", "drain", "cap"}
          /\ Step(r, "catch")
          /\ UNCHANGED <<slots, history>>
       \/ /\ work[r].at \in {"gate", "limit", "create", "refused", "queued", "catch"}
          /\ End(r)
          /\ IF Holding(r) THEN Release(r) ELSE UNCHANGED slots
          /\ history' = [history EXCEPT !.steady[r] = {}, !.unrecorded = @ \cup {r}]
    /\ UNCHANGED <<Elsewhere, vault, log>>

Run(r) ==
    \/ Gate(r) \/ LogOverLimit(r) \/ LogPending(r) \/ LogRefused(r)
    \/ LogRunning(r) \/ StreamOverCap(r) \/ StreamEnds(r)
    \/ \E q \in Pages : StreamPage(r, q)
    \/ \E ns \in Namespaces : Flush(r, ns)
    \/ LogCompleted(r) \/ LogFailed(r) \/ AwaitFails(r)

Reconcile == \E r \in Requests : Run(r)

-----------------------------------------------------------------------------
(* The drift detector.  setInterval starts a tick whether or not the one     *)
(* before it has ended.                                                      *)

(* The state is read: no sweep unless the bootstrap is done. *)
Tick(s, p) ==
    /\ Spend("tick")
    /\ sweep[s] = Idle
    /\ p \in up /\ s = Fresh(sweep)
    /\ done
    /\ sweep' = [sweep EXCEPT ![s] =
          [at |-> "query", proc |-> p, from |-> watermark, upTo |-> watermark,
           left |-> {}]]
    /\ UNCHANGED <<SweepElsewhere, vault, watermark, history>>

Updated(since) == {q \in Pages : pages[q].updatedAt > since}

(* Too many pages are left for an administrator to see to; otherwise each    *)
(* namespace of each page gets an instruction of its own.                    *)
Query(s) ==
    /\ sweep[s].at = "query"
    /\ LET found == Updated(sweep[s].from)
           upTo == Max({sweep[s].from} \cup {pages[q].updatedAt : q \in found})
       IN  /\ sweep' = [sweep EXCEPT ![s] =
                 IF Cardinality(found) > MaxPagesPerTick THEN Over
                 ELSE [@ EXCEPT !.at = "write", !.upTo = upTo,
                          !.left = UNION {{<<q, pages[q].updatedAt>>} \X pages[q].grant :
                                             q \in found}]]
           /\ history' = [history EXCEPT !.queried = Max({@, upTo})]
    /\ UNCHANGED <<SweepElsewhere, vault, watermark, budget>>

(* The instruction carries no revision id. *)
WriteSwept(s, x) ==
    /\ x \in sweep[s].left
    /\ sweep' = [sweep EXCEPT ![s].left = @ \ {x}]
    /\ LET q == x[1][1]  ns == x[2]
       IN  /\ vault' = [vault EXCEPT ![ns][q] = NoRevision]
           /\ history' = [history EXCEPT
                 !.swept = @ \cup {x},
                 !.steady = [r \in Requests |-> @[r] \ {<<q, ns>>}],
                 !.repaired = @ \ {<<q, ns>>}]
    /\ UNCHANGED <<SweepElsewhere, watermark, budget>>

SaveWatermark(s) ==
    /\ sweep[s].at = "write" /\ sweep[s].left = {}
    /\ watermark' = sweep[s].upTo
    /\ sweep' = [sweep EXCEPT ![s] = Over]
    /\ UNCHANGED <<SweepElsewhere, vault, budget, history>>

(* The query or an instruction fails: the watermark stays where it is. *)
SweepFails(s) ==
    /\ Spend("failure")
    /\ sweep[s].at \in {"query", "write"}
    /\ sweep' = [sweep EXCEPT ![s] = Over]
    /\ UNCHANGED <<SweepElsewhere, vault, watermark, history>>

Drift ==
    \E s \in Sweeps :
        \/ Query(s) \/ SaveWatermark(s) \/ SweepFails(s)
        \/ sweep[s].at = "write" /\ \E x \in sweep[s].left : WriteSwept(s, x)

-----------------------------------------------------------------------------
(* Processes. *)

(* Slots, runs and sweeps are in memory; the log stays. *)
Crash(p) ==
    /\ Spend("crash")
    /\ p \in up
    /\ up' = up \ {p}
    /\ LET lost == {r \in Requests : work[r].at \notin {"idle", "over"} /\ work[r].proc = p}
       IN  /\ work' = [r \in Requests |-> IF r \in lost THEN Over ELSE work[r]]
           /\ history' = [history EXCEPT
                 !.steady = [r \in Requests |-> IF r \in lost THEN {} ELSE @[r]],
                 !.unrecorded = @ \cup lost]
    /\ sweep' = [s \in Sweeps |->
          IF sweep[s].at \in {"query", "write"} /\ sweep[s].proc = p
          THEN Over ELSE sweep[s]]
    /\ userCount' = [userCount EXCEPT ![p] = [u \in Users |-> 0]]
    /\ systemCount' = [systemCount EXCEPT ![p] = 0]
    /\ UNCHANGED <<docs, vault, done, log, watermark, clock>>

(* normalizeStaleLifecycle: every entry that is open, of whatever process.   *)
Boot(p) ==
    /\ p \notin up
    /\ up' = up \cup {p}
    /\ LET open == {r \in Requests : log[r] \in Open}
       IN  /\ log' = [r \in Requests |-> IF r \in open THEN "failed" ELSE log[r]]
           /\ history' = [history EXCEPT
                 !.unrecorded = {}, !.normalized = @ \cup open]
    /\ UNCHANGED <<docs, vault, done, slots, work, sweep, watermark, clock, budget>>

Next ==
    \/ Environment
    \/ \E r \in Requests, p \in Processes, u \in Users, kind \in {"page", "sub-tree"} :
          Submit(r, p, u, kind)
    \/ Reconcile
    \/ \E s \in Sweeps, p \in Processes : Tick(s, p)
    \/ Drift
    \/ \E p \in Processes : Crash(p) \/ Boot(p)

Spec == Init /\ [][Next]_vars

(* Awaits settle. *)
FairSpec == Spec /\ WF_vars(Reconcile)

-----------------------------------------------------------------------------
(* Properties. *)

(* In particular a run never reads more pages than planned, and planned is   *)
(* within the limit of the role.                                             *)
TypeOK ==
    /\ DOMAIN vault = Namespaces
    /\ \A r \in Requests :
          /\ log[r] \in {"none"} \cup Open \cup Terminal
          /\ Holding(r) =>
                /\ Cardinality(work[r].seen) <= work[r].planned
                /\ work[r].planned <=
                      IF work[r].user \in Admins THEN AdminLimit ELSE UserLimit
                /\ \A ns \in Namespaces : Len(work[r].buf[ns]) <= ChunkSize
    /\ watermark \in 0 .. clock

(* The counters of a process are the runs it has in flight, whatever fails,  *)
(* and the limits hold: nobody has more runs than he may, and those who do   *)
(* not bypass it keep to the limit of the process.                           *)
Runs(p) == {r \in Requests : Holding(r) /\ work[r].proc = p}
RunsOf(p, u) == {r \in Runs(p) : work[r].user = u}
Bypasses(u) == u \in Admins /\ AdminBypass

SlotsMatchRuns ==
    \A p \in Processes :
        /\ systemCount[p] = Cardinality(Runs(p))
        /\ \A u \in Users :
              /\ userCount[p][u] = Cardinality(RunsOf(p, u))
              /\ userCount[p][u] <= MaxPerUser
        /\ Cardinality({r \in Runs(p) : ~Bypasses(work[r].user)}) <= MaxSystem

(* A status goes forward only: pending, running, a terminal one.  Exception: *)
(* a process that starts fails the entries of every process, and the live    *)
(* run goes on to overwrite it.                                              *)
Rank(status) ==
    CASE status = "none" -> 0 [] status = "pending" -> 1
      [] status = "running" -> 2 [] status \in Terminal -> 3

LogMovesForward ==
    [][\A r \in Requests :
          (log'[r] # log[r] /\ r \notin history.normalized) =>
              Rank(log[r]) < Rank(log'[r])]_vars

(* When a request is through, its entry is not left open: only a crash, or a *)
(* write of the log that fails, leaves one, and the next start closes it.    *)
ClosedWhenOver ==
    \A r \in Requests \ history.unrecorded :
        work[r] = Over => log[r] \notin Open

(* A completed run has repaired what it was to repair: a page that was not   *)
(* saved since the run began shows its revision in each of its namespaces,   *)
(* however many of its events had been lost before and whatever other runs   *)
(* write meanwhile.  Exceptions: pages another run carries in an older       *)
(* revision, and pages the drift detector writes over.                       *)
RepairedMirrors ==
    \A x \in history.repaired : vault[x[2]][x[1]] = pages[x[1]].rev

(* The watermark passes no update that was not swept, in any of the page's   *)
(* namespaces, whatever sweeps overlap or fail.  Exception: a save that      *)
(* landed after a query had met a later stamp.                               *)
SweepMissesNothing ==
    \A q \in Pages \ history.late :
        (pages[q].updatedAt > 0 /\ pages[q].updatedAt <= watermark) =>
            \A ns \in pages[q].grant :
                <<<<q, pages[q].updatedAt>>, ns>> \in history.swept

(* Every slot is given back in the end. *)
SlotsReturned == <>[](\A p \in Processes : systemCount[p] = 0)
==============================================================================
