---------------------------- MODULE VaultBootstrap ----------------------------
(***************************************************************************)
(* Seeding of the vault from the existing pages (the resilience layer of   *)
(* growi-vault: bootstrap-runner.ts and the modules it coordinates), with  *)
(* its trigger at the start of an app process, the administrator's wipe    *)
(* and abort, and the normalization of abandoned runs (index.ts).          *)
(*                                                                         *)
(* Several app processes share the document vault_sync_state; none of the  *)
(* writes to it is conditional.  A step is the code up to an await on the  *)
(* database.  Pages are numbered by their _id, which is also the order in  *)
(* which the stream returns them.  A run is the record of the locals of    *)
(* one call of bootstrap().                                                *)
(*                                                                         *)
(* The vault-manager applies the instructions in the order of their        *)
(* insertion (VaultInstructionWatcher); what page events send meanwhile is *)
(* VaultDispatcher's subject and is left out.                              *)
(***************************************************************************)
EXTENDS Naturals, Sequences, FiniteSets

CONSTANTS
    Runners,       \* app processes; each has at most one run in progress
    Namespaces,
    NamespacesOf,  \* page -> namespaces of its grant; none without a revision
    FirstPages,    \* the wiki begins with the pages 1 .. FirstPages
    ChunkSize,     \* CHUNK_SIZE
    MaxAttempts,   \* VAULT_BOOTSTRAP_RETRY_MAX
    Envs,          \* the values of VAULT_BOOTSTRAP_ON_START that occur
    MaxQueue,      \* bound: unprocessed instructions
    MaxInputs,     \* bound: wipes, aborts, pages created or deleted
    ManagerFails,  \* whether the vault-manager may fail on an instruction
    MaxFaults      \* bound: crashes, rejected awaits, failed instructions

PageIds == 1 .. FirstPages + MaxInputs

ASSUME BootstrapAssumption ==
    /\ {FirstPages, MaxAttempts, MaxQueue, MaxInputs, MaxFaults} \subseteq Nat
    /\ ChunkSize \in Nat \ {0}
    /\ NamespacesOf \in [PageIds -> SUBSET Namespaces]
    /\ Envs \subseteq {"true", "false", "force"}
    /\ ManagerFails \in BOOLEAN

VARIABLES
    sync,       \* vault_sync_state: state, cursor (0: null), fresh, attempts, aborted
    run,        \* the run of a process, or "up" or "down" without one
    abort,      \* abortAutoRetry: the state it has read
    queue,      \* the unprocessed instructions
    vault,      \* <<namespace, page>>: the pages the vault holds
    pages,      \* the page documents
    newest,     \* the last page created
    inputs, faults,   \* counters of the bounded events
    abandoned   \* history: a live process has left a run in flight to nobody

environment == <<pages, newest>>
manager == <<queue, vault>>
counters == <<inputs, faults>>
vars == <<sync, run, abort, manager, environment, counters, abandoned>>

States == {"pending", "running", "verifying", "done", "failed", "retrying", "escalated"}
InFlight(state) == state \in {"running", "verifying"}

Down == [at |-> "down"]
Up == [at |-> "up"]
Call(at, env) == [at |-> at, env |-> env]

NoEntries == [ns \in Namespaces |-> {}]

(* waiting: the place in the queue of the run's last instruction, 0 when it  *)
(* has left it; broken: it left it unprocessed; spoilt: history, see below.  *)
Stream(wipe) ==
    [at |-> "snapshot", wipe |-> wipe, snapshot |-> 0, from |-> 0, pos |-> 0,
     buffer |-> NoEntries, emitted |-> FALSE, waiting |-> 0, broken |-> FALSE,
     spoilt |-> FALSE]

Starting == {"normalize", "read", "stale", "escalate", "acquire", "start",
             "retrying", "running", "reset", "snapshot"}
Streaming == {"cursor", "stream", "page", "flush", "check", "failed"}

Init ==
    /\ sync = [state |-> "pending", cursor |-> 0, fresh |-> FALSE, attempts |-> 0,
               aborted |-> FALSE]
    /\ run = [r \in Runners |-> Down]
    /\ abort = "none"
    /\ queue = <<>> /\ vault = {}
    /\ pages = 1 .. FirstPages /\ newest = FirstPages
    /\ inputs = 0 /\ faults = 0
    /\ abandoned = FALSE

At(r, stage) == run[r].at = stage
Goto(r, stage) == run' = [run EXCEPT ![r].at = stage]
Finish(r) == run' = [run EXCEPT ![r] = Up]
InProgress(r) == run[r].at \in Starting \cup Streaming
Owns(r) == run[r].at \in {"reset", "snapshot"} \cup Streaming

-----------------------------------------------------------------------------
(* Start of a process, and the administrator. *)

(* Mistake, in no specification: only "running" is normalized, not "verifying". *)
StartupForgetsVerifying(r, env) ==
    /\ At(r, "down")
    /\ LET stale == sync.state = "running" /\ ~sync.fresh
       IN  run' = [run EXCEPT ![r] =
                     CASE stale -> Call("normalize", env)
                       [] ~stale /\ env # "false" -> Call("read", env)
                       [] OTHER -> Up]
    /\ abandoned' = (abandoned \/ (sync.fresh /\ ~\E other \in Runners : Owns(other)))
    /\ UNCHANGED <<sync, abort, manager, environment, counters>>

(* runVaultSyncStateMigration reads the document: an in-flight state without *)
(* a fresh heartbeat is to be normalized.  Then the environment decides.     *)
Startup(r, env) ==
    /\ At(r, "down")
    /\ LET stale == InFlight(sync.state) /\ ~sync.fresh
       IN  run' = [run EXCEPT ![r] =
                     CASE stale -> Call("normalize", env)
                       [] ~stale /\ env # "false" -> Call("read", env)
                       [] OTHER -> Up]
    /\ abandoned' = (abandoned \/ (sync.fresh /\ ~\E other \in Runners : Owns(other)))
    /\ UNCHANGED <<sync, abort, manager, environment, counters>>

Normalize(r) ==
    /\ At(r, "normalize")
    /\ sync' = [sync EXCEPT !.state = "failed"]
    /\ IF run[r].env = "false" THEN Finish(r) ELSE Goto(r, "read")
    /\ UNCHANGED <<abort, manager, environment, counters, abandoned>>

Input == inputs < MaxInputs /\ inputs' = inputs + 1

(* POST /wipe: the route does not look at the state. *)
Wipe(r) ==
    /\ At(r, "up")
    /\ Input
    /\ run' = [run EXCEPT ![r] = Call("read", "force")]
    /\ UNCHANGED <<sync, abort, manager, environment, faults, abandoned>>

(* POST /retry/abort: the guard and abortAutoRetry read the state, ... *)
AbortReads ==
    /\ abort = "none"
    /\ sync.state \in {"failed", "retrying", "escalated"}
    /\ Input
    /\ abort' = sync.state
    /\ UNCHANGED <<sync, run, manager, environment, faults, abandoned>>

(* ... an await later it writes. *)
AbortWrites ==
    /\ abort # "none"
    /\ sync' = [sync EXCEPT !.attempts = 0, !.aborted = TRUE,
                  !.state = IF abort = "escalated" THEN "failed" ELSE @]
    /\ abort' = "none"
    /\ UNCHANGED <<run, manager, environment, counters, abandoned>>

-----------------------------------------------------------------------------
(* bootstrap(): what is to be done. *)

Read(r) ==
    /\ At(r, "read")
    /\ run' = [run EXCEPT ![r] =
                 [at |-> "stale", env |-> @.env, state |-> sync.state,
                  attempts |-> sync.attempts, aborted |-> sync.aborted]]
    /\ UNCHANGED <<sync, abort, manager, environment, counters, abandoned>>

(* resolveAction *)
Resolve(env, state, retryAllowed, stale) ==
    CASE env = "force" -> "forceWipe"
      [] env # "force" /\ state = "pending" -> "startNew"
      [] env # "force" /\ state = "running" /\ stale -> "resumeFromCursor"
      [] env # "force" /\ state \in {"failed", "retrying", "escalated"} /\ retryAllowed ->
            "resumeFromCursor"
      [] OTHER -> "skip"

(* detectStaleRunning reads the document again.  A skipped run escalates when *)
(* it has used up its attempts.                                              *)
Decide(r) ==
    /\ At(r, "stale")
    /\ LET my == run[r]
           stale == sync.state = "running" /\ ~sync.fresh
           exhausted == my.attempts >= MaxAttempts
           action == Resolve(my.env, my.state, ~my.aborted /\ ~exhausted, stale)
           escalates == ~my.aborted /\ exhausted /\ my.state \in {"failed", "retrying"}
       IN  run' = [run EXCEPT ![r] =
                     CASE action # "skip" ->
                            [at |-> "acquire", wipe |-> action = "forceWipe",
                             resume |-> action = "resumeFromCursor" /\ stale,
                             attempts |-> my.attempts]
                       [] action = "skip" /\ escalates -> [at |-> "escalate"]
                       [] OTHER -> Up]
    /\ UNCHANGED <<sync, abort, manager, environment, counters, abandoned>>

(* failed -> retrying -> escalated in one write. *)
Escalate(r) ==
    /\ At(r, "escalate")
    /\ sync' = [sync EXCEPT !.state = "escalated"]
    /\ Finish(r)
    /\ UNCHANGED <<abort, manager, environment, counters, abandoned>>

-----------------------------------------------------------------------------
(* executeBootstrap(): from the state that is found to "running". *)

AcquireInstance(r) ==
    /\ At(r, "acquire")
    /\ sync' = [sync EXCEPT !.fresh = TRUE]
    /\ Goto(r, "start")
    /\ UNCHANGED <<abort, manager, environment, counters, abandoned>>

(* The state is read a third time; only now do the transitions of the state  *)
(* machine decide.  A retry counts as an attempt, the resumption of a stale  *)
(* run does not.  "start" is rejected in every other state.                  *)
ReadState(r) ==
    /\ At(r, "start")
    /\ LET my == run[r]
           stale == ~my.wipe /\ my.resume /\ sync.state = "running"
           retry == ~my.wipe /\ sync.state \in {"failed", "retrying"}
       IN  run' = [run EXCEPT ![r] =
                     CASE stale \/ (retry /\ sync.state = "failed") ->
                            [my EXCEPT !.at = "retrying",
                                       !.attempts = IF retry THEN @ + 1 ELSE @]
                       [] retry /\ sync.state = "retrying" ->
                            [my EXCEPT !.at = "running", !.attempts = @ + 1]
                       [] my.wipe \/ sync.state = "pending" ->
                            [my EXCEPT !.at = "running"]
                       [] OTHER -> Up]
    /\ UNCHANGED <<sync, abort, manager, environment, counters, abandoned>>

SetRetrying(r) ==
    /\ At(r, "retrying")
    /\ sync' = [sync EXCEPT !.state = "retrying"]
    /\ Goto(r, "running")
    /\ UNCHANGED <<abort, manager, environment, counters, abandoned>>

(* A wipe clears the cursor in the same write. *)
SetRunning(r) ==
    /\ At(r, "running")
    /\ sync' = [sync EXCEPT !.state = "running", !.attempts = run[r].attempts,
                  !.cursor = IF run[r].wipe THEN 0 ELSE @]
    /\ run' = [run EXCEPT ![r] = IF run[r].wipe THEN [@ EXCEPT !.at = "reset"]
                                 ELSE Stream(FALSE)]
    /\ abandoned' = FALSE
    /\ UNCHANGED <<abort, manager, environment, counters>>

(* A run whose entries are in the queue or the vault loses them to the       *)
(* reset-all of another one.                                                 *)
ResetAll(r) ==
    /\ At(r, "reset")
    /\ Len(queue) < MaxQueue
    /\ queue' = Append(queue, [by |-> r, op |-> "reset-all"])
    /\ run' = [o \in Runners |->
                 CASE o = r -> Stream(TRUE)
                   [] o # r /\ run[o].at \in Streaming ->
                        [run[o] EXCEPT !.spoilt = @ \/ run[o].emitted]
                   [] OTHER -> run[o]]
    /\ UNCHANGED <<sync, abort, vault, environment, counters, abandoned>>

MaxOf(S) == IF S = {} THEN 0 ELSE CHOOSE p \in S : \A q \in S : q <= p
MinOf(S) == CHOOSE p \in S : \A q \in S : p <= q

(* The highest page id; then the heartbeat is refreshed periodically. *)
Snapshot(r) ==
    /\ At(r, "snapshot")
    /\ run' = [run EXCEPT ![r].at = "cursor", ![r].snapshot = MaxOf(pages)]
    /\ UNCHANGED <<sync, abort, manager, environment, counters, abandoned>>

-----------------------------------------------------------------------------
(* The page stream.  pos is the last page it has returned. *)

(* The query begins behind the saved cursor. *)
OpenCursor(r) ==
    /\ At(r, "cursor")
    /\ LET from == IF run[r].wipe THEN 0 ELSE sync.cursor
       IN  run' = [run EXCEPT ![r].at = "stream", ![r].from = from, ![r].pos = from]
    /\ UNCHANGED <<sync, abort, manager, environment, counters, abandoned>>

NextPages(r) == {p \in pages : p > run[r].pos}

(* The page goes into the buffer of each of its namespaces. *)
NextPage(r) ==
    /\ At(r, "stream")
    /\ NextPages(r) # {}
    /\ LET p == MinOf(NextPages(r))
       IN  run' = [run EXCEPT ![r].at = "page", ![r].pos = p,
                     ![r].buffer = [ns \in Namespaces |->
                        IF ns \in NamespacesOf[p] THEN @[ns] \cup {p} ELSE @[ns]]]
    /\ UNCHANGED <<sync, abort, manager, environment, counters, abandoned>>

BulkUpsert(r, ns) ==
    /\ Len(queue) < MaxQueue
    /\ queue' = Append(queue, [by |-> r, op |-> "bulk-upsert",
                               entries |-> {ns} \X run[r].buffer[ns]])
    /\ run' = [run EXCEPT ![r].buffer[ns] = {}, ![r].emitted = TRUE,
                          ![r].waiting = Len(queue) + 1, ![r].broken = FALSE]
    /\ UNCHANGED <<sync, abort, vault, environment, counters, abandoned>>

FullChunks(r) == {ns \in Namespaces : Cardinality(run[r].buffer[ns]) >= ChunkSize}

FlushChunk(r, ns) ==
    /\ At(r, "page")
    /\ ns \in FullChunks(r)
    /\ BulkUpsert(r, ns)

(* Mistake, in no specification: the cursor points at the page to come. *)
SaveCursorOfNext(r) ==
    /\ At(r, "page")
    /\ FullChunks(r) = {}
    /\ sync' = [sync EXCEPT !.cursor = run[r].pos + 1]
    /\ Goto(r, "stream")
    /\ UNCHANGED <<abort, manager, environment, counters, abandoned>>

(* The cursor is saved; buffers that are not full stay in memory. *)
SaveCursor(r) ==
    /\ At(r, "page")
    /\ FullChunks(r) = {}
    /\ sync' = [sync EXCEPT !.cursor = run[r].pos]
    /\ Goto(r, "stream")
    /\ UNCHANGED <<abort, manager, environment, counters, abandoned>>

EndOfStream(r) ==
    /\ At(r, "stream")
    /\ NextPages(r) = {}
    /\ Goto(r, "flush")
    /\ UNCHANGED <<sync, abort, manager, environment, counters, abandoned>>

FlushBuffer(r, ns) ==
    /\ At(r, "flush")
    /\ run[r].buffer[ns] # {}
    /\ BulkUpsert(r, ns)

SetVerifying(r) ==
    /\ At(r, "flush")
    /\ run[r].buffer = NoEntries
    /\ sync' = [sync EXCEPT !.state = "verifying"]
    /\ Goto(r, "check")
    /\ UNCHANGED <<abort, manager, environment, counters, abandoned>>

-----------------------------------------------------------------------------
(* The completeness check and the end of a run. *)

(* finalCursor is null when the stream has returned no page. *)
ReachedSnapshot(r) ==
    run[r].snapshot # 0 =>
        run[r].pos = run[r].snapshot /\ run[r].pos # run[r].from

Processed(r) == run[r].waiting = 0 /\ ~run[r].broken

(* At once, or when the last instruction is not processed in time. *)
CheckFails(r) ==
    /\ At(r, "check")
    /\ ~ReachedSnapshot(r) \/ (run[r].emitted /\ ~Processed(r))
    /\ Goto(r, "failed")
    /\ UNCHANGED <<sync, abort, manager, environment, counters, abandoned>>

(* Mistake, in no specification: does not wait for the vault-manager. *)
SetDoneUnprocessed(r) ==
    /\ At(r, "check")
    /\ ReachedSnapshot(r)
    /\ sync' = [sync EXCEPT !.state = "done", !.cursor = 0, !.attempts = 0,
                            !.aborted = FALSE]
    /\ Finish(r)
    /\ UNCHANGED <<abort, manager, environment, counters, abandoned>>

(* An instruction that is processed stays so: nothing can come between the   *)
(* successful poll and the write.                                            *)
SetDone(r) ==
    /\ At(r, "check")
    /\ ReachedSnapshot(r)
    /\ run[r].emitted => Processed(r)
    /\ sync' = [sync EXCEPT !.state = "done", !.cursor = 0, !.attempts = 0,
                            !.aborted = FALSE]
    /\ Finish(r)
    /\ UNCHANGED <<abort, manager, environment, counters, abandoned>>

SetFailed(r) ==
    /\ At(r, "failed")
    /\ sync' = [sync EXCEPT !.state = "failed"]
    /\ Finish(r)
    /\ UNCHANGED <<abort, manager, environment, counters, abandoned>>

Step(r) ==
    \/ Normalize(r) \/ Read(r) \/ Decide(r) \/ Escalate(r)
    \/ AcquireInstance(r) \/ ReadState(r) \/ SetRetrying(r) \/ SetRunning(r)
    \/ ResetAll(r) \/ Snapshot(r) \/ OpenCursor(r) \/ NextPage(r)
    \/ \E ns \in Namespaces : FlushChunk(r, ns) \/ FlushBuffer(r, ns)
    \/ SaveCursor(r) \/ EndOfStream(r) \/ SetVerifying(r)
    \/ CheckFails(r) \/ SetDone(r) \/ SetFailed(r)

-----------------------------------------------------------------------------
(* Failures. *)

Fault == faults < MaxFaults /\ faults' = faults + 1

(* An await rejects.  Only from the page stream on is there a handler that   *)
(* records the failure; it may reject as well.                               *)
Throw(r) ==
    /\ InProgress(r)
    /\ Fault
    /\ IF run[r].at \in Streaming \ {"failed"} THEN Goto(r, "failed") ELSE Finish(r)
    /\ abandoned' = (abandoned \/ run[r].at \notin Streaming \ {"failed"})
    /\ UNCHANGED <<sync, abort, manager, environment, inputs>>

Crash(r) ==
    /\ run[r] # Down
    /\ Fault
    /\ run' = [run EXCEPT ![r] = Down]
    /\ UNCHANGED <<sync, abort, manager, environment, inputs, abandoned>>

(* The interval of a run refreshes the heartbeat; without one it expires. *)
Beats(r) == run[r].at \in Streaming

Heartbeat ==
    /\ sync.fresh # \E r \in Runners : Beats(r)
    /\ sync' = [sync EXCEPT !.fresh = ~@]
    /\ UNCHANGED <<run, abort, manager, environment, counters, abandoned>>

-----------------------------------------------------------------------------
(* The vault-manager and the wiki. *)

Advance(r) ==
    IF run[r].at \in Streaming /\ run[r].waiting > 0
    THEN [run[r] EXCEPT !.waiting = @ - 1] ELSE run[r]

ApplyNext ==
    /\ queue # <<>>
    /\ queue' = Tail(queue)
    /\ vault' = IF Head(queue).op = "reset-all" THEN {} ELSE vault \cup Head(queue).entries
    /\ run' = [r \in Runners |-> Advance(r)]
    /\ UNCHANGED <<sync, abort, environment, counters, abandoned>>

(* A failed instruction stays unprocessed; those behind it are processed. *)
ApplyFails ==
    /\ ManagerFails
    /\ queue # <<>>
    /\ Fault
    /\ queue' = Tail(queue)
    /\ run' = [r \in Runners |->
                 IF run[r].at \in Streaming
                 THEN [Advance(r) EXCEPT !.broken = @ \/ run[r].waiting = 1,
                                         !.spoilt = @ \/ Head(queue).by = r]
                 ELSE run[r]]
    /\ UNCHANGED <<sync, abort, vault, environment, inputs, abandoned>>

CreatePage ==
    /\ Input
    /\ newest' = newest + 1
    /\ pages' = pages \cup {newest + 1}
    /\ UNCHANGED <<sync, run, abort, manager, faults, abandoned>>

(* Complete deletion. *)
DeletePage(p) ==
    /\ p \in pages
    /\ Input
    /\ pages' = pages \ {p}
    /\ UNCHANGED <<sync, run, abort, manager, newest, faults, abandoned>>

Next ==
    \/ \E r \in Runners :
          (\E env \in Envs : Startup(r, env)) \/ Wipe(r) \/ Step(r) \/ Throw(r) \/ Crash(r)
    \/ AbortReads \/ AbortWrites
    \/ Heartbeat \/ ApplyNext \/ ApplyFails
    \/ CreatePage \/ \E p \in pages : DeletePage(p)

Spec == Init /\ [][Next]_vars

-----------------------------------------------------------------------------
(* Properties. *)

(* The document and the runs are what the code takes them for.               *)
TypeOK ==
    /\ sync \in [state : States, cursor : 0 .. newest, fresh : BOOLEAN,
                 attempts : Nat, aborted : BOOLEAN]
    /\ \A r \in Runners : run[r] \in {Up, Down} \/ InProgress(r)
    /\ abort \in States \cup {"none"}
    /\ Len(queue) <= MaxQueue
    /\ vault \subseteq Namespaces \X PageIds
    /\ pages \subseteq 1 .. newest

(* A run that ends as done has put every page behind its resume point that   *)
(* existed when it began, and still exists, into the vault, in each of its   *)
(* namespaces: the completeness check has waited for the last instruction,   *)
(* which the vault-manager handles after all the others.  The exceptions     *)
(* (spoilt) are an instruction of the run that failed without being the last *)
(* one, and the reset-all of another run after the first entries.            *)
SeededWhenDone ==
    [][\A r \in Runners :
          (At(r, "check") /\ At(r, "up")' /\ ~run[r].spoilt) =>
              \A p \in pages \cap (run[r].from + 1) .. run[r].snapshot :
                  \A ns \in NamespacesOf[p] : <<ns, p>> \in vault]_vars

(* A run in flight is never left to nobody, whatever dies or interferes on   *)
(* the way: while no process is down, one of them is at work on it.  A       *)
(* process that dies normalizes it when it comes back.  The exceptions       *)
(* (abandoned) last until the next run: the process came back before the     *)
(* heartbeat of the dead run had expired, or lives on after an await that    *)
(* nobody handles has rejected.                                              *)
NobodyLeftRunning ==
    (InFlight(sync.state) /\ \A r \in Runners : At(r, "up")) => abandoned

(* "done" means that the vault holds the wiki: pages that were there from    *)
(* the start are in each of their namespaces, however often the run was      *)
(* interrupted and resumed from its cursor.                                  *)
DoneIsComplete ==
    sync.state = "done" =>
        \A p \in pages \cap 1 .. FirstPages :
            \A ns \in NamespacesOf[p] : <<ns, p>> \in vault
==============================================================================
