----------------------- MODULE VaultInstructionWatcher -----------------------
(***************************************************************************)
(* Delivery of instructions to the namespace builder                       *)
(* (vault-instruction-watcher.ts): a change stream on the outbox           *)
(* collection vault_instructions, a drain of the unprocessed instructions  *)
(* at startup, and the bookkeeping that makes delivery at-least-once.      *)
(*                                                                         *)
(* Instructions are numbered in the order of their issuedAt; the oplog     *)
(* holds them in the order they were inserted.  The oplog, the cursor of   *)
(* the drain and the change stream are MongoDB's: they are modelled from   *)
(* how the watcher uses them.  What the builder does with an instruction   *)
(* is VaultNamespaceBuilder's subject; here it resolves or rejects.        *)
(***************************************************************************)
EXTENDS Naturals, Sequences, FiniteSets, SequencesExt

CONSTANTS
    N,                \* bound: the instructions are 1 .. N
    Skew,             \* BOOLEAN: instructions may be inserted out of issuedAt order
    BatchSize,        \* documents in a batch of the drain's cursor, at most
    NoToken,          \* no resume token is stored
    MaxFailures,      \* bound: failed instructions and failed look-ups
    MaxRestarts,      \* bound: crashes and shutdowns
    MaxStreamErrors   \* bound: errors that end the change stream

ASSUME WatcherAssumption ==
    /\ N \in Nat /\ BatchSize \in Nat \ {0}
    /\ {MaxFailures, MaxRestarts, MaxStreamErrors} \subseteq Nat
    /\ Skew \in BOOLEAN
    /\ NoToken \notin Nat

VARIABLES
    oplog,      \* the inserts into vault_instructions, in order
    done,       \* instructions whose processedAt is set
    token,      \* vault_sync_state.resumeToken: a position in the oplog
    phase,      \* "down", "drain" (start has not resolved) or "live"
    stopping,   \* stop() has been called
    stream,     \* "none", "opening", "open" or "ended"
    missed,     \* history: instructions this process will not come to again
    delivered,  \* last event the stream has handed to the listener
    handled,    \* last event the pipeline has been through
    position,   \* the last instruction the drain's cursor has fetched
    batch,      \* fetched by the cursor and not yet processed
    exhausted,  \* the cursor has returned its last batch
    current,    \* processInstruction's argument and where it is
    applied,    \* history: the builder's work, in order
    failed,     \* history: instructions that have failed in this process
    deferred,   \* history: instructions that were left for later
    failures, restarts, streamErrors   \* counters of the bounded events

store == <<oplog, done, token>>
process == <<phase, stopping, position, batch, exhausted>>
events == <<stream, missed, delivered, handled>>
counters == <<failures, restarts, streamErrors>>
history == <<applied, failed, deferred>>
vars == <<store, process, events, current, history, counters>>

Ids == 1 .. N
Inserted == ToSet(oplog)
Idle == [at |-> "idle"]
Processing == [at : {"apply", "mark", "token", "record"}, id : Ids,
               event : Nat]

Init ==
    /\ oplog = <<>> /\ done = {} /\ token = NoToken
    /\ phase = "down" /\ stopping = FALSE /\ position = 0 /\ batch = {}
    /\ exhausted = FALSE
    /\ stream = "none" /\ missed = {} /\ delivered = 0 /\ handled = 0
    /\ current = Idle
    /\ applied = <<>> /\ failed = {} /\ deferred = {}
    /\ failures = 0 /\ restarts = 0 /\ streamErrors = 0

Begin(i, event) == current' = [at |-> "apply", id |-> i, event |-> event]

Unfetched == {i \in Inserted \ done : i > position}

CanHandle == phase = "live" /\ ~stopping /\ current = Idle /\ handled < delivered

Failure == failures < MaxFailures /\ failures' = failures + 1

-----------------------------------------------------------------------------
(* Mistakes the runs must notice; no specification uses these definitions.   *)

(* The stream is opened without resumeAfter. *)
OpenStreamAtEnd ==
    /\ stream = "opening"
    /\ stream' = "open"
    /\ delivered' = Len(oplog) /\ handled' = Len(oplog)
    /\ missed' = {}
    /\ UNCHANGED <<store, process, current, history, counters>>

(* The cursor's documents are processed without the sort on issuedAt. *)
DrainOneUnsorted ==
    /\ phase = "drain"
    /\ current = Idle
    /\ \E i \in batch : Begin(i, 0) /\ batch' = batch \ {i}
    /\ UNCHANGED <<store, phase, stopping, position, exhausted, events, history,
                   counters>>

(* The buffer of the drain phase is cleared without being flushed. *)
DrainCompleteDropsEvents ==
    /\ phase = "drain"
    /\ current = Idle
    /\ batch = {} /\ exhausted
    /\ phase' = "live"
    /\ handled' = delivered
    /\ UNCHANGED <<store, stopping, position, batch, exhausted, stream, missed, delivered,
                   current, history, counters>>

(* processedAt is read from the event's document, where it is always null. *)
HandleEventFromStream ==
    /\ CanHandle
    /\ Begin(oplog[handled + 1], handled + 1)
    /\ UNCHANGED <<store, process, events, history, counters>>

(* A drained instruction is counted as an event of the stream. *)
ReturnCountsDrained ==
    /\ current' = Idle
    /\ handled' = handled + 1
    /\ UNCHANGED <<stream, missed, delivered>>

-----------------------------------------------------------------------------
(* MongoDB and the gateway. *)

(* The gateway inserts an instruction. *)
Insert(i) ==
    /\ i \notin Inserted
    /\ ~Skew => i = Len(oplog) + 1
    /\ oplog' = Append(oplog, i)
    /\ UNCHANGED <<done, token, process, events, current, history, counters>>

(* The unprocessed instructions that the drain has passed by. *)
Undrained ==
    {i \in Inserted \ (done \cup batch) :
        /\ exhausted \/ i <= position
        /\ current # Idle => current.id # i}

(* start() does not wait until the server has opened the change stream; with *)
(* no token to resume after, the stream begins where the oplog ends then.    *)
OpenStream ==
    /\ stream = "opening"
    /\ stream' = "open"
    /\ LET from == IF token = NoToken THEN Len(oplog) ELSE token
       IN  delivered' = from /\ handled' = from
    /\ missed' = IF token = NoToken THEN Undrained ELSE {}
    /\ deferred' = deferred \cup missed'
    /\ UNCHANGED <<store, process, current, applied, failed, counters>>

(* The listener chains the event onto the pipeline. *)
Deliver ==
    /\ stream = "open"
    /\ ~stopping
    /\ delivered < Len(oplog)
    /\ delivered' = delivered + 1
    /\ UNCHANGED <<store, process, stream, missed, handled, current, history,
                   counters>>

(* The error listener only logs; nobody opens the stream again.  A resume    *)
(* token that has left the oplog is such an error.                           *)
StreamError ==
    /\ stream \in {"opening", "open"}
    /\ streamErrors < MaxStreamErrors
    /\ stream' = "ended"
    /\ streamErrors' = streamErrors + 1
    /\ UNCHANGED <<store, process, missed, delivered, handled, current, history,
                   failures, restarts>>

-----------------------------------------------------------------------------
(* The life of the process. *)

(* start(): read the token, open the stream, attach the listener, drain. *)
Start ==
    /\ phase = "down"
    /\ phase' = "drain" /\ stopping' = FALSE /\ position' = 0 /\ batch' = {}
    /\ exhausted' = FALSE
    /\ stream' = "opening" /\ missed' = {} /\ delivered' = 0 /\ handled' = 0
    /\ UNCHANGED <<store, current, history, counters>>

Down ==
    /\ phase' = "down" /\ stopping' = FALSE /\ position' = 0 /\ batch' = {}
    /\ exhausted' = FALSE
    /\ stream' = "none" /\ missed' = {} /\ delivered' = 0 /\ handled' = 0
    /\ current' = Idle
    /\ failed' = {}

(* A signal; the handler is installed when startServer has resolved. *)
Stop ==
    /\ phase = "live"
    /\ ~stopping
    /\ restarts < MaxRestarts
    /\ stopping' = TRUE
    /\ restarts' = restarts + 1
    /\ UNCHANGED <<store, phase, position, batch, exhausted, events, current,
                   history, failures, streamErrors>>

(* stop() resolves when the instruction in progress has been dealt with. *)
Stopped ==
    /\ stopping
    /\ current = Idle
    /\ Down
    /\ UNCHANGED <<store, applied, deferred, counters>>

Crash ==
    /\ phase # "down"
    /\ restarts < MaxRestarts
    /\ restarts' = restarts + 1
    /\ Down
    /\ UNCHANGED <<store, applied, deferred, failures, streamErrors>>

-----------------------------------------------------------------------------
(* The drain and the event pipeline. *)

(* Inserted behind the cursor, which will not come to it. *)
PassedBy == {i \in Inserted \ done : i <= position}

(* The drain's cursor returns the next batch in the order of issuedAt.  Its  *)
(* documents or its bytes limit a batch; one that reaches the end with fewer *)
(* documents is the last.                                                    *)
FetchBatch ==
    /\ phase = "drain"
    /\ current = Idle
    /\ batch = {} /\ ~exhausted
    /\ \E b \in SUBSET Unfetched :
          /\ Cardinality(b) <= BatchSize
          /\ b = {} => Unfetched = {}
          /\ \A i \in b, j \in Unfetched \ b : i < j
          /\ batch' = b
          /\ position' \in b \cup {position}
          /\ \A i \in b \cup {position} : i <= position'
          /\ exhausted' = (b = Unfetched /\ Cardinality(b) < BatchSize)
          /\ deferred' = IF b = {} THEN deferred ELSE deferred \cup PassedBy
    /\ UNCHANGED <<store, phase, stopping, events, current, applied, failed,
                   counters>>

DrainOne ==
    /\ phase = "drain"
    /\ current = Idle
    /\ \E i \in batch :
          /\ \A j \in batch : i <= j
          /\ Begin(i, 0)
          /\ batch' = batch \ {i}
    /\ UNCHANGED <<store, phase, stopping, position, exhausted, events, history,
                   counters>>

(* The events delivered meanwhile are on the pipeline behind the drain. *)
DrainComplete ==
    /\ phase = "drain"
    /\ current = Idle
    /\ batch = {} /\ exhausted
    /\ phase' = "live"
    /\ UNCHANGED <<store, stopping, position, batch, exhausted, events, current,
                   history, counters>>

(* handleChangeEvent looks the live document up: one that is processed is    *)
(* skipped.  When the TTL index has removed it the token is not saved.       *)
SkipEvent ==
    /\ CanHandle
    /\ oplog[handled + 1] \in done
    /\ handled' = handled + 1
    /\ token' \in {token, handled + 1}
    /\ UNCHANGED <<oplog, done, process, stream, missed, delivered, current, history,
                   counters>>

(* The look-up of the live document rejects: the pipeline's catch logs it,   *)
(* the instruction is neither tried nor recorded as failed, and the token of *)
(* a later event passes it by.                                               *)
LookupFails ==
    /\ CanHandle
    /\ Failure
    /\ handled' = handled + 1
    /\ missed' = missed \cup {oplog[handled + 1]}
    /\ deferred' = deferred \cup {oplog[handled + 1]}
    /\ UNCHANGED <<store, process, stream, delivered, current, applied, failed,
                   restarts, streamErrors>>

HandleEvent ==
    /\ CanHandle
    /\ oplog[handled + 1] \notin done
    /\ Begin(oplog[handled + 1], handled + 1)
    /\ UNCHANGED <<store, process, events, history, counters>>

-----------------------------------------------------------------------------
(* processInstruction. *)

(* Back to the drain, or on to the next event of the pipeline. *)
Return ==
    /\ current' = Idle
    /\ handled' = IF current.event = 0 THEN handled ELSE current.event
    /\ UNCHANGED <<stream, missed, delivered>>

(* A drained instruction saves no token. *)
SaveToken == token' = IF current.event = 0 THEN token ELSE current.event

Apply ==
    /\ current.at = "apply"
    /\ applied' = Append(applied, current.id)
    /\ current' = [current EXCEPT !.at = "mark"]
    /\ UNCHANGED <<store, process, events, failed, deferred, counters>>

(* The builder rejects, before or after it has moved the ref. *)
ApplyFails ==
    /\ current.at = "apply"
    /\ Failure
    /\ applied' \in {applied, Append(applied, current.id)}
    /\ current' = [current EXCEPT !.at = "record"]
    /\ failed' = failed \cup {current.id}
    /\ deferred' = deferred \cup {current.id}
    /\ UNCHANGED <<store, process, events, restarts, streamErrors>>

MarkProcessed ==
    /\ current.at = "mark"
    /\ done' = done \cup {current.id}
    /\ current' = [current EXCEPT !.at = "token"]
    /\ UNCHANGED <<oplog, token, process, events, history, counters>>

(* markProcessed or updateWatcherFields rejects. *)
MarkFails ==
    /\ current.at \in {"mark", "token"}
    /\ Failure
    /\ current' = [current EXCEPT !.at = "record"]
    /\ failed' = failed \cup {current.id}
    /\ deferred' = deferred \cup {current.id}
    /\ UNCHANGED <<store, process, events, applied, restarts, streamErrors>>

UpdateWatcherFields ==
    /\ current.at = "token"
    /\ SaveToken
    /\ Return
    /\ UNCHANGED <<oplog, done, process, history, counters>>

(* recordFailure leaves processedAt null; the caller saves the token of the  *)
(* event all the same.                                                       *)
RecordFailure ==
    /\ current.at = "record"
    /\ SaveToken
    /\ Return
    /\ UNCHANGED <<oplog, done, process, history, counters>>

(* recordFailure rejects: the pipeline catches it and goes on to the next    *)
(* event, but it makes the drain reject, and with it the startup.  It happens *)
(* to failed instructions only, whose number is bounded.                     *)
RecordFails ==
    /\ current.at = "record"
    /\ IF current.event = 0 THEN Down ELSE Return /\ UNCHANGED <<process, failed>>
    /\ UNCHANGED <<store, applied, deferred, counters>>

ProcessInstruction ==
    \/ Apply \/ ApplyFails \/ MarkProcessed \/ MarkFails
    \/ UpdateWatcherFields \/ RecordFailure \/ RecordFails

Work ==
    \/ Start \/ Stopped
    \/ FetchBatch \/ DrainOne \/ DrainComplete
    \/ SkipEvent \/ LookupFails \/ HandleEvent
    \/ ProcessInstruction

Next ==
    \/ \E i \in Ids : Insert(i)
    \/ OpenStream \/ Deliver \/ Work
    \/ StreamError \/ Stop \/ Crash

Spec == Init /\ [][Next]_vars

(* The process is restarted when it is down, the server opens the stream and *)
(* delivers its events, and an await settles.                                *)
FairSpec ==
    /\ Spec
    /\ WF_vars(OpenStream) /\ WF_vars(Deliver) /\ WF_vars(Work)

-----------------------------------------------------------------------------
(* Properties. *)

Times(i, s) == Cardinality({k \in DOMAIN s : s[k] = i})

(* Where instruction i is in the oplog. *)
PositionOf(i) == CHOOSE k \in DOMAIN oplog : oplog[k] = i

(* The watcher's variables are what the code takes them for; in particular   *)
(* the pipeline is never ahead of the stream, nor the stream of the oplog.   *)
TypeOK ==
    /\ oplog \in Seq(Ids) /\ IsInjective(oplog)
    /\ done \subseteq Inserted
    /\ token \in {NoToken} \cup 0 .. Len(oplog)
    /\ phase \in {"down", "drain", "live"} /\ stopping \in BOOLEAN
    /\ stream \in {"none", "opening", "open", "ended"}
    /\ handled <= delivered /\ delivered <= Len(oplog)
    /\ missed \cup deferred \subseteq Inserted
    /\ position \in 0 .. N /\ batch \subseteq Inserted
    /\ exhausted \in BOOLEAN
    /\ current \in Processing \cup {Idle}
    /\ applied \in Seq(Inserted) /\ failed \subseteq Inserted

(* An instruction whose processedAt is set is never applied again, however   *)
(* often the drain and the stream bring it up: the check of the live         *)
(* document is what makes at-least-once delivery safe.                       *)
ProcessedOnce == [][\A i \in done : Times(i, applied') = Times(i, applied)]_vars

(* While the watcher is live on an open stream, an instruction is processed, *)
(* being processed, still to be handled, or was tried by this very process:  *)
(* nothing falls between the drain and the stream ("attach the listener      *)
(* before drain so no events are missed").  There are two exceptions: at a   *)
(* first start, which does not wait for the stream, the stream begins after  *)
(* inserts that the drain may have been too early for; and the look-up of an *)
(* event may have rejected.                                                  *)
NothingMissed ==
    (phase = "live" /\ stream = "open") =>
        \A i \in Inserted \ (done \cup failed) :
            \/ PositionOf(i) > handled
            \/ current # Idle /\ current.id = i
            \/ i \in missed

(* The drain, the stream, a stop or a crash never swap two instructions where *)
(* one was both issued and inserted before the other ("instructions must be   *)
(* processed in arrival order to preserve causal ordering").  What is applied *)
(* late has failed before, or its look-up had, or a first stream opened too   *)
(* late for it, or it was inserted behind the drain's cursor while that had   *)
(* more to fetch.                                                             *)
CausalOrder ==
    [][applied' # applied =>
          LET i == Last(applied')
          IN  \A j \in ToSet(applied) :
                 (i < j /\ PositionOf(i) < PositionOf(j)) => i \in deferred']_vars

(* Every instruction is processed in the end, unless it has failed, its       *)
(* look-up has rejected, or the change stream has ended or never heard of it, *)
(* and then until the next restart: no run of the process retries the one or  *)
(* opens the other again.                                                     *)
EventuallyProcessed ==
    \A i \in Ids :
        i \in Inserted ~> \/ i \in done \cup failed
                          \/ stream = "ended"
                          \/ i \in missed
==============================================================================
