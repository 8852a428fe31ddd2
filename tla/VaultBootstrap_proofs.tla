------------------------- MODULE VaultBootstrap_proofs -------------------------
(***************************************************************************)
(* Proofs about the seeding of the vault, for any processes, namespaces,   *)
(* grants, chunk sizes, retries and faults: a run that ends as done has    *)
(* seeded what it read, and a run in flight is never left to nobody.       *)
(***************************************************************************)
EXTENDS VaultBootstrap, Integers, WellFoundedInduction, TLAPS

-----------------------------------------------------------------------------
(* The inductive invariant. *)

Environments == Envs \cup {"force"}

(* The locals of a run, stage by stage. *)
Calls == [at : {"normalize", "read"}, env : Environments]
Readings == [at : {"stale"}, env : Environments, state : States, attempts : Nat,
             aborted : BOOLEAN]
Escalations == [at : {"escalate"}]
Executions == [at : {"acquire", "start", "retrying", "running", "reset"},
               wipe : BOOLEAN, resume : BOOLEAN, attempts : Nat]
Streams == [at : {"snapshot"} \cup Streaming, wipe : BOOLEAN, snapshot : Nat,
            from : Nat, pos : Nat, buffer : [Namespaces -> SUBSET PageIds],
            emitted : BOOLEAN, waiting : Nat, broken : BOOLEAN, spoilt : BOOLEAN]

Runs == {Up, Down} \cup Calls \cup Readings \cup Escalations \cup Executions
        \cup Streams

Seeds == Namespaces \X PageIds
Resets == [by : Runners, op : {"reset-all"}]
Upserts == [by : Runners, op : {"bulk-upsert"}, entries : SUBSET Seeds]
Instructions == Resets \cup Upserts

Documents == [state : States, cursor : Nat, fresh : BOOLEAN, attempts : Nat,
              aborted : BOOLEAN]

(* A stream stands between where it began and the newest page. *)
InRange(w) ==
    w.at \in {"snapshot"} \cup Streaming => w.from <= w.pos /\ w.pos <= newest

SyncTypes == sync \in Documents /\ sync.cursor <= newest
RunTypes == run \in [Runners -> Runs] /\ \A r \in Runners : InRange(run[r])
QueueTypes ==
    /\ queue \in Seq(Instructions) /\ Len(queue) <= MaxQueue
    /\ vault \subseteq Seeds
PageTypes ==
    /\ newest \in Nat /\ inputs \in Nat /\ inputs <= MaxInputs
    /\ newest <= FirstPages + inputs
    /\ pages \subseteq 1 .. newest

Types ==
    /\ SyncTypes /\ RunTypes /\ QueueTypes /\ PageTypes
    /\ abort \in States \cup {"none"}

(* A run in flight has a process at work on it, or one that will normalize   *)
(* it when it comes back.                                                    *)
Minds(w) == w.at \in {"down", "normalize", "reset", "snapshot"} \cup Streaming

Held ==
    (InFlight(sync.state) /\ ~abandoned) => \E r \in Runners : Minds(run[r])

Reading == {"stream", "page", "flush", "check"}

NoResetAfter(k) == \A m \in 1 .. Len(queue) : m > k => queue[m].op # "reset-all"

(* An instruction of the run, not behind its last one, brings the page; no   *)
(* reset-all comes after it.                                                 *)
Queued(r, ns, p) ==
    \E k \in 1 .. Len(queue) :
        /\ k <= run[r].waiting
        /\ queue[k].by = r /\ queue[k].op = "bulk-upsert"
        /\ <<ns, p>> \in queue[k].entries
        /\ NoResetAfter(k)

(* Where a page that the run has read is.  Before the first chunk it is in   *)
(* the buffer, and the reset-all of another run does no harm.                *)
Carried(r, ns, p) ==
    \/ p \in run[r].buffer[ns]
    \/ /\ run[r].emitted
       /\ Queued(r, ns, p) \/ (<<ns, p>> \in vault /\ NoResetAfter(0))

PagesRead(r) == {p \in pages : run[r].from < p /\ p <= run[r].pos}

Sown(r) ==
    run[r].at \in Reading =>
        /\ run[r].at = "check" => run[r].buffer = NoEntries
        /\ ~run[r].spoilt =>
              \A p \in PagesRead(r) : \A ns \in NamespacesOf[p] : Carried(r, ns, p)

BInv == Types /\ Held /\ \A r \in Runners : Sown(r)

-----------------------------------------------------------------------------
(* Lemmas. *)

LEMMA ConstantFacts ==
    /\ FirstPages \in Nat /\ MaxAttempts \in Nat /\ MaxQueue \in Nat
    /\ MaxInputs \in Nat /\ MaxFaults \in Nat /\ ChunkSize \in Nat
    /\ NamespacesOf \in [PageIds -> SUBSET Namespaces]
    /\ PageIds = 1 .. FirstPages + MaxInputs
  BY BootstrapAssumption DEF PageIds

LEMMA StageNames ==
    /\ Streaming = {"cursor", "stream", "page", "flush", "check", "failed"}
    /\ Starting = {"normalize", "read", "stale", "escalate", "acquire", "start",
                   "retrying", "running", "reset", "snapshot"}
    /\ Up.at = "up" /\ Down.at = "down"
    /\ NoEntries \in [Namespaces -> SUBSET PageIds]
  BY DEF Streaming, Starting, Up, Down, NoEntries

(* The stage of a run tells its locals. *)
LEMMA StageOf ==
    ASSUME NEW w \in Runs
    PROVE  /\ w.at \in {"normalize", "read"} => w \in Calls
           /\ w.at = "stale" => w \in Readings
           /\ w.at \in {"acquire", "start", "retrying", "running", "reset"} =>
                 w \in Executions
           /\ w.at \in {"snapshot"} \cup Streaming => w \in Streams
           /\ w.at \in {"up", "down"} \cup Starting \cup Streaming
           /\ w.at = "up" => w = Up
           /\ w.at = "down" => w = Down
  BY StageNames DEF Runs, Calls, Readings, Escalations, Executions, Streams

(* A run goes on to another stage with the same locals. *)
LEMMA StreamGoesTo ==
    ASSUME NEW w \in Streams, NEW stage \in {"snapshot"} \cup Streaming
    PROVE  LET v == [w EXCEPT !.at = stage]
           IN  /\ v \in Streams /\ v.at = stage
               /\ v.from = w.from /\ v.pos = w.pos /\ v.buffer = w.buffer
               /\ v.emitted = w.emitted /\ v.waiting = w.waiting
               /\ v.spoilt = w.spoilt /\ v.snapshot = w.snapshot
  BY DEF Streams

LEMMA ExecutionGoesTo ==
    ASSUME NEW w \in Executions,
           NEW stage \in {"acquire", "start", "retrying", "running", "reset"}
    PROVE  LET v == [w EXCEPT !.at = stage]
           IN  v \in Executions /\ v.at = stage
  BY DEF Executions

LEMMA AttemptCounted ==
    ASSUME NEW w \in Executions, NEW stage \in {"retrying", "running"}
    PROVE  LET v == [w EXCEPT !.at = stage, !.attempts = @ + 1]
           IN  v \in Executions /\ v.at = stage
  <1> DEFINE n == w.attempts + 1
  <1>1. n \in Nat
    BY DEF Executions
  <1> HIDE DEF n
  <1>2. [w EXCEPT !.at = stage, !.attempts = n] \in Executions
    BY <1>1 DEF Executions
  <1>3. [w EXCEPT !.at = stage, !.attempts = n].at = stage
    BY DEF Executions
  <1> QED
    BY <1>2, <1>3 DEF n

LEMMA NewStream ==
    ASSUME NEW wipe \in BOOLEAN
    PROVE  Stream(wipe) \in Streams /\ Stream(wipe).at = "snapshot"
  <1> NoEntries \in [Namespaces -> SUBSET PageIds]
    BY StageNames
  <1> QED
    BY SMTT(30) DEF Stream, Streams

(* Sets of pages have a least and a greatest element. *)
LEMMA LeastOf ==
    ASSUME NEW S \in SUBSET Nat, S # {}
    PROVE  MinOf(S) \in S /\ \A p \in S : MinOf(S) <= p
  <1> DEFINE R == {ss \in Nat \X Nat : ss[1] < ss[2]}
  <1>1. IsWellFoundedOn(R, Nat)
    BY NatLessThanWellFounded DEF OpToRel
  <1>2. PICK n \in S : \A m \in S : <<m, n>> \notin R
    <2> HIDE DEF R
    <2> QED
      BY <1>1, WFMin
  <1>3. ASSUME NEW m \in S PROVE n <= m
    <2>1. n \in Nat /\ m \in Nat
      OBVIOUS
    <2>2. <<m, n>> \notin R
      BY <1>2
    <2>3. ~(m < n)
      BY <2>1, <2>2
    <2> QED
      BY <2>1, <2>3
  <1> QED
    BY <1>3 DEF MinOf

LEMMA GreatestOf ==
    ASSUME NEW b \in Nat, NEW S \in SUBSET (1 .. b)
    PROVE  MaxOf(S) \in Nat /\ MaxOf(S) <= b
  <1>1. CASE S = {}
    BY <1>1 DEF MaxOf
  <1>2. CASE S # {}
    <2> DEFINE T == {b - p : p \in S}
    <2>1. T \in SUBSET Nat /\ T # {}
      <3>1. \A p \in S : b - p \in Nat
        OBVIOUS
      <3>2. PICK p \in S : TRUE
        BY <1>2
      <3>3. b - p \in T
        BY <3>2
      <3> QED
        BY <3>1, <3>3
    <2>2. MinOf(T) \in T /\ \A t \in T : MinOf(T) <= t
      <3> HIDE DEF T
      <3> QED
        BY <2>1, LeastOf
    <2>3. PICK n \in S : MinOf(T) = b - n
      BY <2>2
    <2>4. \A p \in S : p <= n
      <3> SUFFICES ASSUME NEW p \in S PROVE p <= n
        OBVIOUS
      <3>1. b - n <= b - p
        BY <2>2, <2>3
      <3>2. p \in 1 .. b /\ n \in 1 .. b
        OBVIOUS
      <3> QED
        BY <3>1, <3>2
    <2>5. MaxOf(S) \in S
      BY <1>2, <2>4 DEF MaxOf
    <2>6. MaxOf(S) \in 1 .. b
      BY <2>5
    <2> QED
      BY <2>6
  <1> QED
    BY <1>1, <1>2

-----------------------------------------------------------------------------
(* Steps that move one run, and nothing of queue, vault and pages. *)

(* The run is no further than it was, or at the beginning of its stream. *)
Continues(v, w) ==
    \/ /\ v.at \in Reading
       /\ w.from = v.from /\ w.pos = v.pos /\ w.buffer = v.buffer
       /\ w.emitted = v.emitted /\ w.waiting = v.waiting /\ w.spoilt = v.spoilt
       /\ w.at = "check" => w.buffer = NoEntries
    \/ w.from = w.pos /\ w.at # "check"

LEMMA SownContinues ==
    ASSUME NEW r \in Runners, Sown(r), Continues(run[r], run'[r]),
           run[r] \in Runs, run'[r] \in Runs, run'[r].at \in Reading,
           pages \subseteq Nat, pages' \subseteq pages,
           queue' = queue, vault' = vault
    PROVE  Sown(r)'
  <1>1. CASE run'[r].from = run'[r].pos /\ run'[r].at # "check"
    <2>1. run'[r] \in Streams
      BY StageOf, StageNames DEF Reading
    <2>2. run'[r].from \in Nat /\ run'[r].pos \in Nat
      BY <2>1 DEF Streams
    <2>3. ASSUME NEW p \in pages', run'[r].from < p, p <= run'[r].pos
          PROVE  FALSE
      <3>1. p \in Nat
        OBVIOUS
      <3> QED
        BY <1>1, <2>2, <2>3, <3>1
    <2>4. PagesRead(r)' = {}
      BY <2>3 DEF PagesRead
    <2> QED
      BY <1>1, <2>4 DEF Sown
  <1>2. CASE ~(run'[r].from = run'[r].pos /\ run'[r].at # "check")
    <2>1. PagesRead(r)' \subseteq PagesRead(r)
      BY <1>2 DEF PagesRead, Continues
    <2>2. ASSUME NEW ns, NEW p, Carried(r, ns, p)
          PROVE  Carried(r, ns, p)'
      BY <1>2, <2>2 DEF Carried, Queued, NoResetAfter, Continues
    <2> QED
      BY <1>2, <2>1, <2>2 DEF Sown, Continues
  <1> QED
    BY <1>1, <1>2

LEMMA SownStays ==
    ASSUME NEW r \in Runners, Sown(r), run'[r] = run[r],
           pages' \subseteq pages, queue' = queue, vault' = vault
    PROVE  Sown(r)'
  <1>1. PagesRead(r)' \subseteq PagesRead(r)
    BY DEF PagesRead
  <1>2. ASSUME NEW ns, NEW p, Carried(r, ns, p)
        PROVE  Carried(r, ns, p)'
    BY <1>2 DEF Carried, Queued, NoResetAfter
  <1> QED
    BY <1>1, <1>2 DEF Sown

LEMMA PagesAreNumbers ==
    ASSUME Types
    PROVE  pages \subseteq Nat /\ pages \subseteq PageIds
  BY ConstantFacts DEF Types, PageTypes

LEMMA Moves ==
    ASSUME BInv, NEW r \in Runners, NEW w \in Runs,
           run' = [run EXCEPT ![r] = w], InRange(w),
           w.at \in Reading => Continues(run[r], w),
           UNCHANGED <<manager, environment>>, Input \/ inputs' = inputs,
           SyncTypes', abort' \in States \cup {"none"}, Held'
    PROVE  BInv'
  <1>1. run \in [Runners -> Runs] /\ run' \in [Runners -> Runs]
    BY DEF BInv, Types, RunTypes
  <1>2. run'[r] = w /\ \A o \in Runners : o # r => run'[o] = run[o]
    BY <1>1
  <1>3. Types'
    <2>1. RunTypes'
      BY <1>1, <1>2 DEF BInv, Types, RunTypes, InRange, environment
    <2>2. QueueTypes' /\ PageTypes'
      BY ConstantFacts
      DEF BInv, Types, QueueTypes, PageTypes, manager, environment, Input
    <2> QED
      BY <2>1, <2>2 DEF Types
  <1>4. ASSUME NEW o \in Runners
        PROVE  Sown(o)'
    <2>1. pages \subseteq Nat
      BY PagesAreNumbers DEF BInv
    <2>2. CASE o # r
      BY <1>2, <2>2, SownStays DEF BInv, manager, environment
    <2>3. CASE o = r /\ w.at \notin Reading
      BY <1>2, <2>3 DEF Sown
    <2>4. CASE o = r /\ w.at \in Reading
      BY <1>1, <1>2, <2>1, <2>4, SownContinues DEF BInv, manager, environment
    <2> QED
      BY <2>2, <2>3, <2>4
  <1> QED
    BY <1>3, <1>4 DEF BInv

(* A step that brings no run in flight, and takes none from its process. *)
LEMMA HeldMoves ==
    ASSUME Held, run \in [Runners -> Runs], NEW r \in Runners, NEW w,
           run' = [run EXCEPT ![r] = w],
           InFlight(sync'.state) => InFlight(sync.state), abandoned => abandoned',
           Minds(run[r]) => Minds(w)
    PROVE  Held'
  BY DEF Held, Minds

LEMMA HeldByMover ==
    ASSUME run \in [Runners -> Runs], NEW r \in Runners, NEW w,
           run' = [run EXCEPT ![r] = w], Minds(w)
    PROVE  Held'
  BY DEF Held

LEMMA HeldUnlessInFlight ==
    ASSUME ~InFlight(sync'.state)
    PROVE  Held'
  BY DEF Held

-----------------------------------------------------------------------------
(* The start of a process, and what is to be done. *)

LEMMA StartupKeeps ==
    ASSUME BInv, NEW r \in Runners, NEW env \in Envs, Startup(r, env)
    PROVE  BInv'
  <1> DEFINE w == CASE InFlight(sync.state) /\ ~sync.fresh -> Call("normalize", env)
                    [] ~(InFlight(sync.state) /\ ~sync.fresh) /\ env # "false" ->
                          Call("read", env)
                    [] OTHER -> Up
  <1>1. run' = [run EXCEPT ![r] = w]
    BY DEF Startup
  <1>2. w \in Runs /\ w.at \in {"normalize", "read", "up"}
    BY DEF Runs, Calls, Environments, Call, Up
  <1>3. run \in [Runners -> Runs]
    BY DEF BInv, Types, RunTypes
  <1>4. Held'
    <2>1. CASE w.at = "normalize"
      BY <1>1, <1>3, <2>1, HeldByMover DEF Minds
    <2>2. CASE w.at # "normalize" /\ InFlight(sync.state)
      <3>1. sync.fresh
        BY <2>2 DEF Call
      <3>2. SUFFICES ASSUME ~abandoned' PROVE \E o \in Runners : Minds(run'[o])
        BY DEF Held
      <3>3. PICK o \in Runners : Owns(o)
        BY <3>1, <3>2 DEF Startup
      <3>4. o # r
        BY <3>3, StageNames DEF Owns, Startup, At
      <3> QED
        BY <1>1, <3>3, <3>4 DEF Owns, Minds
    <2>3. CASE ~InFlight(sync.state)
      BY <2>3, HeldUnlessInFlight DEF Startup
    <2> QED
      BY <2>1, <2>2, <2>3
  <1>5. w.at \notin Streaming /\ w.at \notin Reading
    BY <1>2, StageNames DEF Reading
  <1> HIDE DEF w
  <1> QED
    BY <1>1, <1>2, <1>4, <1>5, Moves
    DEF Startup, BInv, Types, SyncTypes, InRange, counters, environment

LEMMA NormalizeKeeps ==
    ASSUME BInv, NEW r \in Runners, Normalize(r)
    PROVE  BInv'
  <1> DEFINE w == IF run[r].env = "false" THEN Up ELSE [run[r] EXCEPT !.at = "read"]
  <1>1. run' = [run EXCEPT ![r] = w]
    BY DEF Normalize, Finish, Goto
  <1>2. run[r] \in Calls
    BY StageOf DEF BInv, Types, RunTypes, Normalize, At
  <1>3. w \in Runs /\ w.at \in {"read", "up"}
    BY <1>2 DEF Runs, Calls, Up
  <1>4. Held'
    BY HeldUnlessInFlight DEF Normalize, InFlight, BInv, Types, SyncTypes, Documents
  <1>5. w.at \notin Streaming /\ w.at \notin Reading
    BY <1>3, StageNames DEF Reading
  <1>6. SyncTypes'
    BY DEF Normalize, BInv, Types, SyncTypes, Documents, States, environment
  <1> HIDE DEF w
  <1> QED
    BY <1>1, <1>3, <1>4, <1>5, <1>6, Moves
    DEF Normalize, BInv, Types, InRange, counters

LEMMA WipeKeeps ==
    ASSUME BInv, NEW r \in Runners, Wipe(r)
    PROVE  BInv'
  <1> DEFINE w == Call("read", "force")
  <1>1. run' = [run EXCEPT ![r] = w]
    BY DEF Wipe
  <1>2. w \in Runs /\ w.at = "read"
    BY DEF Runs, Calls, Environments, Call
  <1>3. w.at \notin Streaming /\ w.at \notin Reading
    BY <1>2, StageNames DEF Reading
  <1>4. Held'
    BY <1>1, HeldMoves, StageNames DEF Wipe, BInv, Types, RunTypes, At, Minds
  <1> HIDE DEF w
  <1> QED
    BY <1>1, <1>2, <1>3, <1>4, Moves
    DEF Wipe, BInv, Types, SyncTypes, InRange, environment

LEMMA ReadKeeps ==
    ASSUME BInv, NEW r \in Runners, Read(r)
    PROVE  BInv'
  <1> DEFINE w == [at |-> "stale", env |-> run[r].env, state |-> sync.state,
                   attempts |-> sync.attempts, aborted |-> sync.aborted]
  <1>1. run' = [run EXCEPT ![r] = w]
    BY DEF Read
  <1>2. run[r] \in Calls
    BY StageOf DEF BInv, Types, RunTypes, Read, At
  <1>3. w \in Runs /\ w.at = "stale"
    BY <1>2 DEF Runs, Calls, Readings, BInv, Types, SyncTypes, Documents
  <1>4. w.at \notin Streaming /\ w.at \notin Reading
    BY <1>3, StageNames DEF Reading
  <1>5. Held'
    BY <1>1, HeldMoves, StageNames DEF Read, BInv, Types, RunTypes, At, Minds
  <1> HIDE DEF w
  <1> QED
    BY <1>1, <1>3, <1>4, <1>5, Moves
    DEF Read, BInv, Types, SyncTypes, InRange, counters, environment

LEMMA DecideKeeps ==
    ASSUME BInv, NEW r \in Runners, Decide(r)
    PROVE  BInv'
  <1>1. PICK w : /\ run' = [run EXCEPT ![r] = w]
                 /\ \/ w = [at |-> "escalate"] \/ w = Up
                    \/ \E wipe, resume \in BOOLEAN :
                          w = [at |-> "acquire", wipe |-> wipe, resume |-> resume,
                               attempts |-> run[r].attempts]
    BY DEF Decide
  <1>2. run[r] \in Readings
    BY StageOf DEF BInv, Types, RunTypes, Decide, At
  <1>3. w \in Runs /\ w.at \in {"escalate", "acquire", "up"}
    BY <1>1, <1>2 DEF Runs, Readings, Executions, Escalations, Up
  <1>4. w.at \notin Streaming /\ w.at \notin Reading
    BY <1>3, StageNames DEF Reading
  <1>5. Held'
    BY <1>1, HeldMoves, StageNames DEF Decide, BInv, Types, RunTypes, At, Minds
  <1> QED
    BY <1>1, <1>3, <1>4, <1>5, Moves
    DEF Decide, BInv, Types, SyncTypes, InRange, counters, environment

LEMMA EscalateKeeps ==
    ASSUME BInv, NEW r \in Runners, Escalate(r)
    PROVE  BInv'
  <1>1. run' = [run EXCEPT ![r] = Up]
    BY DEF Escalate, Finish
  <1>2. Up \in Runs /\ InRange(Up) /\ Up.at \notin Reading
    BY StageNames DEF Runs, Reading, InRange
  <1>3. Held'
    BY HeldUnlessInFlight DEF Escalate, InFlight, BInv, Types, SyncTypes, Documents
  <1>4. SyncTypes'
    BY DEF Escalate, BInv, Types, SyncTypes, Documents, States, environment
  <1> QED
    BY <1>1, <1>2, <1>3, <1>4, Moves DEF Escalate, BInv, Types, counters

-----------------------------------------------------------------------------
(* From the state that is found to "running". *)

LEMMA AcquireInstanceKeeps ==
    ASSUME BInv, NEW r \in Runners, AcquireInstance(r)
    PROVE  BInv'
  <1> DEFINE w == [run[r] EXCEPT !.at = "start"]
  <1>1. run' = [run EXCEPT ![r] = w]
    BY DEF AcquireInstance, Goto
  <1>2. run[r] \in Executions
    BY StageOf DEF BInv, Types, RunTypes, AcquireInstance, At
  <1>3. w \in Runs /\ w.at = "start"
    BY <1>2, ExecutionGoesTo DEF Runs
  <1>4. w.at \notin Streaming /\ w.at \notin Reading
    BY <1>3, StageNames DEF Reading
  <1>5. SyncTypes'
    BY DEF AcquireInstance, BInv, Types, SyncTypes, Documents, environment
  <1>6. sync'.state = sync.state
    BY DEF AcquireInstance, BInv, Types, SyncTypes, Documents
  <1>7. Held'
    BY <1>1, <1>6, HeldMoves, StageNames
    DEF AcquireInstance, BInv, Types, RunTypes, At, Minds
  <1> HIDE DEF w
  <1> QED
    BY <1>1, <1>3, <1>4, <1>5, <1>7, Moves
    DEF AcquireInstance, BInv, Types, InRange, counters

LEMMA ReadStateKeeps ==
    ASSUME BInv, NEW r \in Runners, ReadState(r)
    PROVE  BInv'
  <1>1. run[r] \in Executions
    BY StageOf DEF BInv, Types, RunTypes, ReadState, At
  <1>2. PICK w : /\ run' = [run EXCEPT ![r] = w]
                 /\ \/ w = Up
                    \/ \E stage \in {"retrying", "running"} :
                          \/ w = [run[r] EXCEPT !.at = stage]
                          \/ w = [run[r] EXCEPT !.at = stage, !.attempts = @ + 1]
    <2> DEFINE my == run[r]
    <2>1. [my EXCEPT !.at = "retrying", !.attempts = @] =
              [my EXCEPT !.at = "retrying"]
      BY <1>1 DEF Executions
    <2>2. \E w : /\ run' = [run EXCEPT ![r] = w]
                 /\ w \in {Up, [my EXCEPT !.at = "running"],
                          [my EXCEPT !.at = "retrying"],
                          [my EXCEPT !.at = "retrying", !.attempts = @],
                          [my EXCEPT !.at = "retrying", !.attempts = @ + 1],
                          [my EXCEPT !.at = "running", !.attempts = @ + 1]}
      BY DEF ReadState
    <2> QED
      BY <2>1, <2>2
  <1>3. w \in Runs /\ w.at \in {"retrying", "running", "up"}
    <2>1. CASE w = Up
      BY <2>1 DEF Runs, Up
    <2>2. ASSUME NEW stage \in {"retrying", "running"},
                 \/ w = [run[r] EXCEPT !.at = stage]
                 \/ w = [run[r] EXCEPT !.at = stage, !.attempts = @ + 1]
          PROVE  w \in Executions /\ w.at = stage
      <3>1. CASE w = [run[r] EXCEPT !.at = stage]
        BY <1>1, <3>1, ExecutionGoesTo
      <3>2. CASE w = [run[r] EXCEPT !.at = stage, !.attempts = @ + 1]
        BY <1>1, <3>2, AttemptCounted
      <3> QED
        BY <2>2, <3>1, <3>2
    <2> QED
      BY <1>2, <2>1, <2>2 DEF Runs
  <1>4. w.at \notin Streaming /\ w.at \notin Reading
    BY <1>3, StageNames DEF Reading
  <1>5. Held'
    BY <1>2, HeldMoves, StageNames DEF ReadState, BInv, Types, RunTypes, At, Minds
  <1> QED
    BY <1>2, <1>3, <1>4, <1>5, Moves
    DEF ReadState, BInv, Types, SyncTypes, InRange, counters, environment

LEMMA SetRetryingKeeps ==
    ASSUME BInv, NEW r \in Runners, SetRetrying(r)
    PROVE  BInv'
  <1> DEFINE w == [run[r] EXCEPT !.at = "running"]
  <1>1. run' = [run EXCEPT ![r] = w]
    BY DEF SetRetrying, Goto
  <1>2. run[r] \in Executions
    BY StageOf DEF BInv, Types, RunTypes, SetRetrying, At
  <1>3. w \in Runs /\ w.at = "running"
    BY <1>2, ExecutionGoesTo DEF Runs
  <1>4. w.at \notin Streaming /\ w.at \notin Reading
    BY <1>3, StageNames DEF Reading
  <1>5. SyncTypes'
    BY DEF SetRetrying, BInv, Types, SyncTypes, Documents, States, environment
  <1>6. Held'
    BY HeldUnlessInFlight DEF SetRetrying, InFlight, BInv, Types, SyncTypes, Documents
  <1> HIDE DEF w
  <1> QED
    BY <1>1, <1>3, <1>4, <1>5, <1>6, Moves
    DEF SetRetrying, BInv, Types, InRange, counters

LEMMA SetRunningKeeps ==
    ASSUME BInv, NEW r \in Runners, SetRunning(r)
    PROVE  BInv'
  <1> DEFINE w == IF run[r].wipe THEN [run[r] EXCEPT !.at = "reset"] ELSE Stream(FALSE)
  <1>1. run' = [run EXCEPT ![r] = w]
    BY DEF SetRunning
  <1>2. run[r] \in Executions
    BY StageOf DEF BInv, Types, RunTypes, SetRunning, At
  <1>3. w \in Runs /\ w.at \in {"reset", "snapshot"}
    BY <1>2, ExecutionGoesTo, NewStream DEF Runs
  <1>7. InRange(w)
    <2>1. CASE run[r].wipe
      BY <1>2, <2>1, ExecutionGoesTo, StageNames DEF InRange
    <2>2. CASE ~run[r].wipe
      <3>1. w.from = 0 /\ w.pos = 0
        BY <2>2 DEF Stream
      <3>2. newest \in Nat
        BY DEF BInv, Types, PageTypes
      <3> HIDE DEF w
      <3> QED
        BY <3>1, <3>2 DEF InRange
    <2> QED
      BY <2>1, <2>2
  <1> HIDE DEF w
  <1>4. w.at \notin Streaming /\ w.at \notin Reading
    BY <1>3, StageNames DEF Reading
  <1>5. SyncTypes'
    <2>1. run[r].attempts \in Nat
      BY <1>2 DEF Executions
    <2>2. sync \in Documents /\ sync.cursor <= newest /\ newest \in Nat
      BY DEF BInv, Types, SyncTypes, PageTypes
    <2>3. sync' \in Documents
      BY <2>1, <2>2 DEF SetRunning, Documents, States
    <2>4. sync'.cursor <= newest
      BY <2>2 DEF SetRunning, Documents
    <2> QED
      BY <2>3, <2>4 DEF SetRunning, SyncTypes, environment
  <1>6. Held'
    BY <1>1, <1>3, HeldByMover DEF BInv, Types, RunTypes, Minds
  <1> QED
    BY <1>1, <1>3, <1>4, <1>5, <1>6, <1>7, Moves DEF SetRunning, BInv, Types, counters

-----------------------------------------------------------------------------
(* The stream, but for what it sends. *)

LEMMA SnapshotKeeps ==
    ASSUME BInv, NEW r \in Runners, Snapshot(r)
    PROVE  BInv'
  <1> DEFINE w == [run[r] EXCEPT !.at = "cursor", !.snapshot = MaxOf(pages)]
  <1>1. run' = [run EXCEPT ![r] = w]
    BY DEF Snapshot
  <1>2. run[r] \in Streams
    BY StageOf DEF BInv, Types, RunTypes, Snapshot, At
  <1>3. MaxOf(pages) \in Nat
    BY GreatestOf DEF BInv, Types, PageTypes
  <1>4. w \in Runs /\ w.at = "cursor"
    BY <1>2, <1>3, StageNames DEF Runs, Streams
  <1>5. InRange(w)
    BY <1>2 DEF InRange, Streams, BInv, Types, RunTypes, Snapshot, At
  <1> HIDE DEF w
  <1>6. Held'
    BY <1>1, <1>4, StageNames, HeldByMover DEF BInv, Types, RunTypes, Minds
  <1>7. w.at \notin Reading
    BY <1>4 DEF Reading
  <1> QED
    BY <1>1, <1>4, <1>5, <1>6, <1>7, Moves
    DEF Snapshot, BInv, Types, SyncTypes, counters, environment

(* A run of the stream goes to another stage of it. *)
LEMMA StreamStageKeeps ==
    ASSUME BInv, NEW r \in Runners, run[r] \in Streams, run[r].at \in Streaming,
           NEW stage \in Streaming, Goto(r, stage),
           stage \in Reading =>
               run[r].at \in Reading /\ (stage = "check" => run[r].buffer = NoEntries),
           UNCHANGED <<manager, environment, inputs>>,
           SyncTypes', abort' \in States \cup {"none"}
    PROVE  BInv'
  <1> DEFINE w == [run[r] EXCEPT !.at = stage]
  <1>1. run' = [run EXCEPT ![r] = w]
    BY DEF Goto
  <1>2. /\ w \in Streams /\ w.at = stage
        /\ w.from = run[r].from /\ w.pos = run[r].pos /\ w.buffer = run[r].buffer
        /\ w.emitted = run[r].emitted /\ w.waiting = run[r].waiting
        /\ w.spoilt = run[r].spoilt
    BY StreamGoesTo
  <1> HIDE DEF w
  <1>3. w \in Runs
    BY <1>2 DEF Runs
  <1>4. InRange(w)
    BY <1>2 DEF InRange, BInv, Types, RunTypes
  <1>5. w.at \in Reading => Continues(run[r], w)
    BY <1>2 DEF Continues
  <1>6. Held'
    BY <1>1, <1>2, HeldByMover DEF BInv, Types, RunTypes, Minds
  <1> QED
    BY <1>1, <1>3, <1>4, <1>5, <1>6, Moves

LEMMA OpenCursorKeeps ==
    ASSUME BInv, NEW r \in Runners, OpenCursor(r)
    PROVE  BInv'
  <1> DEFINE from == IF run[r].wipe THEN 0 ELSE sync.cursor
             w == [run[r] EXCEPT !.at = "stream", !.from = from, !.pos = from]
  <1>1. run' = [run EXCEPT ![r] = w]
    BY DEF OpenCursor
  <1>2. run[r] \in Streams
    BY StageOf, StageNames DEF BInv, Types, RunTypes, OpenCursor, At
  <1>3. from \in Nat /\ from <= newest
    BY DEF BInv, Types, SyncTypes, PageTypes, Documents
  <1> HIDE DEF from
  <1>4. w \in Streams /\ w.at = "stream" /\ w.from = from /\ w.pos = from
    BY <1>2, <1>3, StageNames DEF Streams
  <1> HIDE DEF w
  <1>5. w \in Runs /\ InRange(w) /\ Continues(run[r], w)
    BY <1>3, <1>4 DEF Runs, InRange, Continues
  <1>6. Held'
    BY <1>1, <1>4, StageNames, HeldByMover DEF BInv, Types, RunTypes, Minds
  <1> QED
    BY <1>1, <1>5, <1>6, Moves
    DEF OpenCursor, BInv, Types, SyncTypes, counters, environment

LEMMA SaveCursorKeeps ==
    ASSUME BInv, NEW r \in Runners, SaveCursor(r)
    PROVE  BInv'
  <1>1. run[r] \in Streams /\ run[r].at = "page" /\ run[r].at \in Streaming
    BY StageOf, StageNames DEF BInv, Types, RunTypes, SaveCursor, At
  <1>2. run[r].pos \in Nat /\ run[r].pos <= newest
    BY <1>1 DEF Streams, BInv, Types, RunTypes, InRange
  <1>3. SyncTypes'
    BY <1>2 DEF SaveCursor, BInv, Types, SyncTypes, Documents, environment
  <1> QED
    BY <1>1, <1>3, StreamStageKeeps, StageNames
    DEF SaveCursor, Reading, BInv, Types, counters

LEMMA EndOfStreamKeeps ==
    ASSUME BInv, NEW r \in Runners, EndOfStream(r)
    PROVE  BInv'
  <1>1. run[r] \in Streams /\ run[r].at = "stream" /\ run[r].at \in Streaming
    BY StageOf, StageNames DEF BInv, Types, RunTypes, EndOfStream, At
  <1> QED
    BY <1>1, StreamStageKeeps, StageNames
    DEF EndOfStream, Reading, BInv, Types, SyncTypes, counters, environment

LEMMA SetVerifyingKeeps ==
    ASSUME BInv, NEW r \in Runners, SetVerifying(r)
    PROVE  BInv'
  <1>1. run[r] \in Streams /\ run[r].at = "flush" /\ run[r].at \in Streaming
    BY StageOf, StageNames DEF BInv, Types, RunTypes, SetVerifying, At
  <1>2. SyncTypes'
    BY DEF SetVerifying, BInv, Types, SyncTypes, Documents, States, environment
  <1> QED
    BY <1>1, <1>2, StreamStageKeeps, StageNames
    DEF SetVerifying, Reading, BInv, Types, counters

LEMMA CheckFailsKeeps ==
    ASSUME BInv, NEW r \in Runners, CheckFails(r)
    PROVE  BInv'
  <1>1. run[r] \in Streams /\ run[r].at \in Streaming
    BY StageOf, StageNames DEF BInv, Types, RunTypes, CheckFails, At
  <1> QED
    BY <1>1, StreamStageKeeps, StageNames
    DEF CheckFails, Reading, BInv, Types, SyncTypes, counters, environment

(* A run that ends does no harm unless the document is left in flight. *)
LEMMA FinishKeeps ==
    ASSUME BInv, NEW r \in Runners, NEW w \in {Up, Down}, run' = [run EXCEPT ![r] = w],
           UNCHANGED <<manager, environment, inputs>>,
           SyncTypes', abort' \in States \cup {"none"}, Held'
    PROVE  BInv'
  <1>1. w \in Runs /\ InRange(w) /\ w.at \notin Reading
    BY StageNames DEF Runs, Reading, InRange
  <1> QED
    BY <1>1, Moves

LEMMA SetDoneKeeps ==
    ASSUME BInv, NEW r \in Runners, SetDone(r)
    PROVE  BInv'
  <1>1. SyncTypes'
    <2>1. sync' \in Documents
      BY DEF SetDone, BInv, Types, SyncTypes, Documents, States
    <2>2. sync'.cursor <= newest
      BY DEF SetDone, BInv, Types, SyncTypes, PageTypes, Documents
    <2> QED
      BY <2>1, <2>2 DEF SetDone, SyncTypes, environment
  <1>2. Held'
    BY HeldUnlessInFlight DEF SetDone, InFlight, BInv, Types, SyncTypes, Documents
  <1> QED
    BY <1>1, <1>2, FinishKeeps DEF SetDone, Finish, BInv, Types, counters

LEMMA SetFailedKeeps ==
    ASSUME BInv, NEW r \in Runners, SetFailed(r)
    PROVE  BInv'
  <1>1. SyncTypes'
    <2>1. sync' \in Documents
      BY DEF SetFailed, BInv, Types, SyncTypes, Documents, States
    <2>2. sync'.cursor <= newest
      BY DEF SetFailed, BInv, Types, SyncTypes, PageTypes, Documents
    <2> QED
      BY <2>1, <2>2 DEF SetFailed, SyncTypes, environment
  <1>2. Held'
    BY HeldUnlessInFlight DEF SetFailed, InFlight, BInv, Types, SyncTypes, Documents
  <1> QED
    BY <1>1, <1>2, FinishKeeps DEF SetFailed, Finish, BInv, Types, counters

LEMMA ThrowKeeps ==
    ASSUME BInv, NEW r \in Runners, Throw(r)
    PROVE  BInv'
  <1>1. CASE run[r].at \in Streaming \ {"failed"}
    <2>1. run[r] \in Streams
      BY <1>1, StageOf DEF BInv, Types, RunTypes
    <2> QED
      BY <1>1, <2>1, StreamStageKeeps, StageNames
      DEF Throw, Fault, Reading, BInv, Types, SyncTypes, environment
  <1>2. CASE run[r].at \notin Streaming \ {"failed"}
    <2>1. Held'
      BY <1>2 DEF Throw, Held
    <2> QED
      BY <1>2, <2>1, FinishKeeps
      DEF Throw, Finish, BInv, Types, SyncTypes, environment
  <1> QED
    BY <1>1, <1>2

LEMMA CrashKeeps ==
    ASSUME BInv, NEW r \in Runners, Crash(r)
    PROVE  BInv'
  <1>1. Held'
    BY HeldByMover, StageNames DEF Crash, BInv, Types, RunTypes, Minds
  <1> QED
    BY <1>1, FinishKeeps DEF Crash, BInv, Types, SyncTypes, environment

-----------------------------------------------------------------------------
(* Steps without a run. *)

LEMMA RunsStay ==
    ASSUME BInv, run' = run, UNCHANGED manager, pages' \subseteq pages,
           newest' = newest, Input \/ inputs' = inputs, SyncTypes',
           abort' \in States \cup {"none"},
           InFlight(sync'.state) => InFlight(sync.state), abandoned' = abandoned
    PROVE  BInv'
  <1>1. RunTypes'
    BY DEF BInv, Types, RunTypes, InRange
  <1>2. QueueTypes' /\ PageTypes'
    BY ConstantFacts DEF BInv, Types, QueueTypes, PageTypes, manager, Input
  <1>3. Held'
    BY DEF BInv, Held
  <1>4. \A r \in Runners : Sown(r)'
    BY SownStays DEF BInv, manager
  <1> QED
    BY <1>1, <1>2, <1>3, <1>4 DEF BInv, Types

LEMMA AbortReadsKeeps ==
    ASSUME BInv, AbortReads
    PROVE  BInv'
  BY RunsStay DEF AbortReads, BInv, Types, SyncTypes, Documents, environment

LEMMA AbortWritesKeeps ==
    ASSUME BInv, AbortWrites
    PROVE  BInv'
  <1>1. SyncTypes' /\ (InFlight(sync'.state) => InFlight(sync.state))
    BY DEF AbortWrites, BInv, Types, SyncTypes, Documents, States, InFlight, environment
  <1> QED
    BY <1>1, RunsStay DEF AbortWrites, environment, counters

LEMMA HeartbeatKeeps ==
    ASSUME BInv, Heartbeat
    PROVE  BInv'
  <1>1. SyncTypes' /\ sync'.state = sync.state
    BY DEF Heartbeat, BInv, Types, SyncTypes, Documents, environment
  <1> QED
    BY <1>1, RunsStay DEF Heartbeat, BInv, Types, environment, counters

LEMMA DeletePageKeeps ==
    ASSUME BInv, NEW p \in pages, DeletePage(p)
    PROVE  BInv'
  BY RunsStay DEF DeletePage, BInv, Types, SyncTypes

LEMMA CreatePageKeeps ==
    ASSUME BInv, CreatePage
    PROVE  BInv'
  <1>1. newest \in Nat /\ newest' = newest + 1
    BY DEF CreatePage, BInv, Types, PageTypes
  <1>2. Types'
    <2>1. SyncTypes'
      BY <1>1 DEF CreatePage, BInv, Types, SyncTypes, Documents
    <2>2. RunTypes'
      <3>1. ASSUME NEW r \in Runners PROVE InRange(run[r])'
        <4>1. run[r].at \in {"snapshot"} \cup Streaming => run[r].pos \in Nat
          BY StageOf DEF BInv, Types, RunTypes, Streams
        <4> QED
          BY <1>1, <4>1 DEF CreatePage, BInv, Types, RunTypes, InRange
      <3> QED
        BY <3>1 DEF CreatePage, BInv, Types, RunTypes
    <2>3. QueueTypes'
      BY DEF CreatePage, BInv, Types, QueueTypes, manager
    <2>4. PageTypes'
      BY <1>1, ConstantFacts DEF CreatePage, BInv, Types, PageTypes, Input
    <2> QED
      BY <2>1, <2>2, <2>3, <2>4 DEF CreatePage, BInv, Types
  <1>3. Held'
    BY DEF CreatePage, BInv, Held
  <1>4. ASSUME NEW r \in Runners
        PROVE  Sown(r)'
    <2>1. CASE run[r].at \notin Reading
      BY <2>1 DEF CreatePage, Sown
    <2>2. CASE run[r].at \in Reading
      <3>1. run[r] \in Streams /\ InRange(run[r]) /\ run[r].at \in Streaming
        BY <2>2, StageOf, StageNames DEF BInv, Types, RunTypes, Reading
      <3>2. PagesRead(r)' = PagesRead(r)
        BY <1>1, <3>1 DEF CreatePage, PagesRead, Streams, InRange
      <3>3. ASSUME NEW ns, NEW p, Carried(r, ns, p)
            PROVE  Carried(r, ns, p)'
        BY <3>3 DEF CreatePage, Carried, Queued, NoResetAfter, manager
      <3> QED
        BY <3>2, <3>3 DEF CreatePage, BInv, Sown
    <2> QED
      BY <2>1, <2>2
  <1> QED
    BY <1>2, <1>3, <1>4 DEF BInv

-----------------------------------------------------------------------------
(* What a run reads and sends. *)

LEMMA NextPageKeeps ==
    ASSUME BInv, NEW r \in Runners, NextPage(r)
    PROVE  BInv'
  <1>0. PICK p : p = MinOf(NextPages(r))
    OBVIOUS
  <1> DEFINE held == [ns \in Namespaces |->
                        IF ns \in NamespacesOf[p] THEN run[r].buffer[ns] \cup {p}
                                                  ELSE run[r].buffer[ns]]
             w == [run[r] EXCEPT !.at = "page", !.pos = p, !.buffer = held]
  <1>1. run' = [run EXCEPT ![r] = w]
    BY <1>0 DEF NextPage
  <1>2. run[r] \in Streams /\ InRange(run[r]) /\ run[r].at = "stream"
    BY StageOf, StageNames DEF BInv, Types, RunTypes, NextPage, At
  <1>3. /\ p \in pages /\ p \in Nat /\ p \in PageIds /\ p <= newest
        /\ run[r].pos < p
        /\ \A q \in pages : q <= run[r].pos \/ p <= q
    <2>1. NextPages(r) \in SUBSET Nat /\ NextPages(r) # {}
      BY PagesAreNumbers DEF NextPages, NextPage, BInv
    <2>2. p \in NextPages(r) /\ \A q \in NextPages(r) : p <= q
      BY <1>0, <2>1, LeastOf
    <2>3. p \in pages /\ run[r].pos < p
      BY <2>2, <1>2, PagesAreNumbers DEF NextPages, BInv, Streams
    <2>4. p \in Nat /\ p \in PageIds /\ p <= newest
      BY <2>3, PagesAreNumbers DEF BInv, Types, PageTypes
    <2>5. ASSUME NEW q \in pages PROVE q <= run[r].pos \/ p <= q
      <3>1. q \in Nat /\ run[r].pos \in Nat
        BY <1>2, PagesAreNumbers DEF BInv, Streams
      <3> QED
        BY <2>2, <3>1 DEF NextPages
    <2> QED
      BY <2>3, <2>4, <2>5
  <1>4. held \in [Namespaces -> SUBSET PageIds]
    BY <1>2, <1>3 DEF Streams
  <1> HIDE DEF held
  <1>5. /\ w \in Streams /\ w.at = "page" /\ w.pos = p /\ w.buffer = held
        /\ w.from = run[r].from /\ w.emitted = run[r].emitted
        /\ w.waiting = run[r].waiting /\ w.spoilt = run[r].spoilt
    BY <1>2, <1>3, <1>4, StageNames DEF Streams
  <1> HIDE DEF w
  <1>6. w \in Runs /\ InRange(w)
    <2>1. run[r].from \in Nat /\ run[r].pos \in Nat /\ run[r].from <= run[r].pos
      BY <1>2, StageNames DEF InRange, Streams
    <2> QED
      BY <1>3, <1>5, <2>1 DEF Runs, InRange
  <1>7. Types' /\ run \in [Runners -> Runs]
    BY <1>1, <1>6
    DEF NextPage, BInv, Types, SyncTypes, RunTypes, QueueTypes, PageTypes, InRange,
        manager, environment, counters
  <1>8. Held'
    BY <1>1, <1>5, <1>7, StageNames, HeldByMover DEF Minds
  <1>9. ASSUME NEW o \in Runners
        PROVE  Sown(o)'
    <2>1. CASE o # r
      BY <1>1, <1>7, <2>1, SownStays DEF NextPage, BInv, manager, environment
    <2>2. CASE o = r
      <3>1. run'[r] = w
        BY <1>1, <1>7
      <3>2. PagesRead(r)' \subseteq PagesRead(r) \cup {p}
        <4>1. ASSUME NEW q \in pages, run[r].from < q, q <= p, q # p
              PROVE  q <= run[r].pos
          <5>1. q \in Nat
            BY PagesAreNumbers DEF BInv
          <5> QED
            BY <1>3, <4>1, <5>1
        <4> QED
          BY <1>5, <3>1, <4>1 DEF PagesRead, NextPage, environment
      <3>3. ASSUME NEW ns \in Namespaces, NEW q, Carried(r, ns, q)
            PROVE  Carried(r, ns, q)'
        <4>1. run[r].buffer[ns] \subseteq held[ns]
          BY DEF held
        <4>2. queue' = queue /\ vault' = vault
          BY DEF NextPage, manager
        <4> QED
          BY <1>5, <3>1, <3>3, <4>1, <4>2 DEF Carried, Queued, NoResetAfter
      <3>4. \A ns \in NamespacesOf[p] : ns \in Namespaces /\ Carried(r, ns, p)'
        <4>1. NamespacesOf[p] \subseteq Namespaces
          BY <1>3, ConstantFacts
        <4>2. ASSUME NEW ns \in NamespacesOf[p] PROVE p \in held[ns]
          BY <4>1, <4>2 DEF held
        <4>3. run'[r].buffer = held
          BY <1>5, <3>1
        <4> QED
          BY <4>1, <4>2, <4>3 DEF Carried
      <3>5. \A q \in pages : NamespacesOf[q] \subseteq Namespaces
        BY ConstantFacts, PagesAreNumbers DEF BInv
      <3>6. ~run[r].spoilt =>
                \A q \in PagesRead(r) : \A ns \in NamespacesOf[q] : Carried(r, ns, q)
        BY <1>2 DEF BInv, Sown, Reading
      <3>7. PagesRead(r) \subseteq pages
        BY DEF PagesRead
      <3>8. ASSUME ~run'[r].spoilt, NEW q \in PagesRead(r)', NEW ns \in NamespacesOf[q]
            PROVE  Carried(r, ns, q)'
        <4>1. CASE q = p
          BY <3>4, <3>8, <4>1
        <4>2. CASE q \in PagesRead(r)
          BY <1>5, <3>1, <3>3, <3>5, <3>6, <3>7, <3>8, <4>2
        <4> QED
          BY <3>2, <4>1, <4>2
      <3> QED
        BY <1>5, <2>2, <3>1, <3>8 DEF Sown
    <2> QED
      BY <2>1, <2>2
  <1> QED
    BY <1>7, <1>8, <1>9 DEF BInv

LEMMA BulkUpsertKeeps ==
    ASSUME BInv, NEW r \in Runners, NEW ns \in Namespaces,
           run[r].at \in {"page", "flush"}, BulkUpsert(r, ns)
    PROVE  BInv'
  <1>0. PICK n \in Nat : n = Len(queue) + 1
    BY DEF BInv, Types, QueueTypes
  <1>14. PICK yes \in BOOLEAN, no \in BOOLEAN : yes /\ ~no
    <2>1. TRUE \in BOOLEAN /\ FALSE \in BOOLEAN
      OBVIOUS
    <2> QED
      BY <2>1, Zenon
  <1> DEFINE held == [run[r].buffer EXCEPT ![ns] = {}]
             w == [run[r] EXCEPT !.buffer = held, !.emitted = yes,
                                 !.waiting = n, !.broken = no]
             sent == [by |-> r, op |-> "bulk-upsert",
                      entries |-> {ns} \X run[r].buffer[ns]]
  <1>1. run' = [run EXCEPT ![r] = w] /\ queue' = Append(queue, sent)
    <2>1. yes = TRUE /\ no = FALSE
      BY <1>14
    <2> QED
      BY <1>0, <2>1 DEF BulkUpsert
  <1>2. /\ run[r] \in Streams /\ InRange(run[r])
        /\ run[r].at \in Streaming /\ run[r].at \in Reading /\ run[r].at # "check"
    BY StageOf, StageNames DEF BInv, Types, RunTypes, Reading
  <1>3. queue \in Seq(Instructions) /\ Len(queue) \in Nat /\ Len(queue) < MaxQueue
    BY DEF BulkUpsert, BInv, Types, QueueTypes
  <1>4. held \in [Namespaces -> SUBSET PageIds] /\ held[ns] = {}
        /\ \A other \in Namespaces : other # ns => held[other] = run[r].buffer[other]
    BY <1>2 DEF Streams
  <1> HIDE DEF held
  <1>5. /\ w \in Streams /\ w.at = run[r].at /\ w.from = run[r].from
        /\ w.pos = run[r].pos /\ w.buffer = held /\ w.emitted
        /\ w.waiting = n /\ w.spoilt = run[r].spoilt
    <2>0. run[r] \in Streams /\ held \in [Namespaces -> SUBSET PageIds]
      BY <1>2, <1>4
    <2>1. w \in Streams /\ w.emitted = yes
      BY <2>0 DEF Streams
    <2>2. /\ w.at = run[r].at /\ w.from = run[r].from
          /\ w.pos = run[r].pos /\ w.buffer = held
          /\ w.waiting = n /\ w.spoilt = run[r].spoilt
      BY <2>0 DEF Streams
    <2> HIDE DEF w
    <2> QED
      BY <1>14, <2>1, <2>2
  <1> HIDE DEF w
  <1>6. sent \in Instructions /\ sent.op = "bulk-upsert" /\ sent.by = r
        /\ sent.entries = {ns} \X run[r].buffer[ns]
    BY <1>2 DEF Instructions, Upserts, Seeds, Streams
  <1> HIDE DEF sent
  <1>7. /\ queue' \in Seq(Instructions) /\ Len(queue') = Len(queue) + 1
        /\ \A k \in 1 .. Len(queue) : queue'[k] = queue[k]
        /\ queue'[n] = sent
    BY <1>0, <1>1, <1>3, <1>6
  <1>8. run \in [Runners -> Runs] /\ w \in Runs /\ InRange(w)
    BY <1>2, <1>5 DEF BInv, Types, RunTypes, Runs, InRange
  <1>9. Types'
    <2>1. RunTypes'
      <3>1. newest' = newest
        BY DEF BulkUpsert, environment
      <3> QED
        BY <1>1, <1>8, <3>1 DEF BInv, Types, RunTypes, InRange
    <2>2. QueueTypes'
      BY <1>3, <1>7, ConstantFacts DEF BulkUpsert, BInv, Types, QueueTypes
    <2>3. SyncTypes' /\ PageTypes'
      BY DEF BulkUpsert, BInv, Types, SyncTypes, PageTypes, environment, counters
    <2> QED
      BY <2>1, <2>2, <2>3 DEF BulkUpsert, BInv, Types
  <1>10. Held'
    BY <1>1, <1>2, <1>5, <1>8, HeldByMover DEF Minds
  <1>11. ASSUME NEW k \in Nat, NoResetAfter(k)
         PROVE  NoResetAfter(k)'
    <2>1. ASSUME NEW m \in 1 .. Len(queue'), m > k
          PROVE  queue'[m].op # "reset-all"
      <3>1. m \in 1 .. Len(queue) \/ m = n
        BY <1>0, <1>3, <1>7
      <3> QED
        BY <1>6, <1>7, <1>11, <2>1, <3>1 DEF NoResetAfter
    <2> QED
      BY <2>1 DEF NoResetAfter
  <1>12. ASSUME NEW o \in Runners, NEW other, NEW p, Queued(o, other, p),
                run'[o].waiting = run[o].waiting \/ o = r
         PROVE  Queued(o, other, p)'
    <2>1. PICK k \in 1 .. Len(queue) :
             /\ k <= run[o].waiting
             /\ queue[k].by = o /\ queue[k].op = "bulk-upsert"
             /\ <<other, p>> \in queue[k].entries
             /\ NoResetAfter(k)
      BY <1>12 DEF Queued
    <2>2. k \in 1 .. Len(queue') /\ queue'[k] = queue[k] /\ NoResetAfter(k)'
      BY <1>3, <1>7, <1>11, <2>1
    <2>3. k <= run'[o].waiting
      <3>1. CASE o = r
        <4>1. run'[o].waiting = n
          BY <1>1, <1>5, <1>8, <3>1
        <4> QED
          BY <1>0, <1>3, <2>1, <4>1
      <3>2. CASE o # r
        BY <1>12, <2>1, <3>2
      <3> QED
        BY <3>1, <3>2
    <2> QED
      BY <2>1, <2>2, <2>3 DEF Queued
  <1>13. ASSUME NEW o \in Runners
         PROVE  Sown(o)'
    <2>0. vault' = vault /\ pages' = pages
      BY DEF BulkUpsert, environment
    <2>1. CASE o # r
      <3>1. run'[o] = run[o] /\ PagesRead(o)' = PagesRead(o)
        BY <1>1, <2>0, <2>1 DEF PagesRead
      <3>2. ASSUME NEW other, NEW p, Carried(o, other, p)
            PROVE  Carried(o, other, p)'
        BY <1>11, <1>12, <2>0, <3>1, <3>2 DEF Carried
      <3> QED
        BY <3>1, <3>2 DEF Sown, BInv
    <2>2. CASE o = r
      <3>1. run'[r] = w /\ PagesRead(r)' = PagesRead(r)
        BY <1>1, <1>5, <1>8, <2>0 DEF PagesRead
      <3>2. ASSUME NEW other \in Namespaces, NEW p, Carried(r, other, p)
            PROVE  Carried(r, other, p)'
        <4>1. CASE p \in run[r].buffer[other] /\ other # ns
          BY <1>4, <1>5, <3>1, <4>1 DEF Carried
        <4>2. CASE p \in run[r].buffer[other] /\ other = ns
          <5>1. n \in 1 .. Len(queue') /\ n <= run'[r].waiting /\ queue'[n] = sent
            BY <1>0, <1>3, <1>5, <1>7, <3>1
          <5>2. <<other, p>> \in sent.entries
            BY <1>6, <4>2
          <5>3. NoResetAfter(n)'
            BY <1>0, <1>3, <1>7 DEF NoResetAfter
          <5>4. Queued(r, other, p)'
            BY <1>6, <5>1, <5>2, <5>3 DEF Queued
          <5> QED
            BY <1>5, <3>1, <5>4 DEF Carried
        <4>3. CASE Queued(r, other, p)
          BY <1>5, <1>12, <3>1, <4>3 DEF Carried
        <4>4. CASE <<other, p>> \in vault /\ NoResetAfter(0)
          BY <1>5, <1>11, <2>0, <3>1, <4>4 DEF Carried
        <4> QED
          BY <3>2, <4>1, <4>2, <4>3, <4>4 DEF Carried
      <3>3. \A p \in PagesRead(r) : NamespacesOf[p] \subseteq Namespaces
        BY ConstantFacts, PagesAreNumbers DEF BInv, PagesRead
      <3>4. ~run[r].spoilt =>
                \A p \in PagesRead(r) : \A other \in NamespacesOf[p] :
                    Carried(r, other, p)
        BY <1>2 DEF BInv, Sown
      <3>5. ASSUME ~run'[r].spoilt, NEW p \in PagesRead(r), NEW other \in NamespacesOf[p]
            PROVE  Carried(r, other, p)'
        BY <1>5, <3>1, <3>2, <3>3, <3>4, <3>5
      <3> QED
        BY <1>2, <1>5, <2>2, <3>1, <3>5 DEF Sown
    <2> QED
      BY <2>1, <2>2
  <1> QED
    BY <1>9, <1>10, <1>13 DEF BInv

LEMMA ResetAllKeeps ==
    ASSUME BInv, NEW r \in Runners, ResetAll(r)
    PROVE  BInv'
  <1>1. run \in [Runners -> Runs] /\ run' = [o \in Runners |-> run'[o]]
    BY DEF ResetAll, BInv, Types, RunTypes
  <1>2. run'[r] = Stream(TRUE)
    BY DEF ResetAll
  <1>3. ASSUME NEW o \in Runners, o # r, run[o].at \notin Streaming
        PROVE  run'[o] = run[o]
    BY <1>3 DEF ResetAll
  <1>4. ASSUME NEW o \in Runners, o # r, run[o].at \in Streaming
        PROVE  /\ run'[o] \in Streams /\ run'[o].at = run[o].at
               /\ run'[o].from = run[o].from /\ run'[o].pos = run[o].pos
               /\ run'[o].buffer = run[o].buffer
               /\ run'[o].spoilt = (run[o].spoilt \/ run[o].emitted)
    <2>1. run'[o] = [run[o] EXCEPT !.spoilt = run[o].spoilt \/ run[o].emitted]
      BY <1>4 DEF ResetAll
    <2>2. run[o] \in Streams
      BY <1>1, <1>4, StageOf
    <2>3. run[o].spoilt \in BOOLEAN /\ run[o].emitted \in BOOLEAN
      BY <2>2 DEF Streams
    <2>4. (run[o].spoilt \/ run[o].emitted) \in BOOLEAN
      OBVIOUS
    <2>5. ASSUME NEW b \in BOOLEAN
          PROVE  LET v == [run[o] EXCEPT !.spoilt = b]
                 IN  /\ v \in Streams /\ v.at = run[o].at /\ v.from = run[o].from
                     /\ v.pos = run[o].pos /\ v.buffer = run[o].buffer
                     /\ v.spoilt = b
      BY <2>2 DEF Streams
    <2> QED
      BY <2>1, <2>4, <2>5
  <1>5. /\ Stream(TRUE) \in Runs /\ Stream(TRUE).at = "snapshot"
        /\ Stream(TRUE).from = 0 /\ Stream(TRUE).pos = 0
    <2>1. Stream(TRUE).from = 0 /\ Stream(TRUE).pos = 0
      BY DEF Stream
    <2> QED
      BY <2>1, NewStream DEF Runs
  <1>6. Types'
    <2>1. ASSUME NEW o \in Runners PROVE run'[o] \in Runs /\ InRange(run[o])'
      <3>1. CASE o = r
        <4>1. newest' = newest /\ newest \in Nat
          BY DEF ResetAll, BInv, Types, PageTypes, environment
        <4>2. PICK w : w = Stream(TRUE)
          OBVIOUS
        <4>3. w \in Runs /\ w.from = 0 /\ w.pos = 0 /\ run'[o] = w
          BY <1>2, <1>5, <3>1, <4>2
        <4> QED
          BY <4>1, <4>3 DEF InRange
      <3>2. CASE o # r /\ run[o].at \notin Streaming
        BY <1>1, <1>3, <3>2 DEF ResetAll, BInv, Types, RunTypes, InRange, environment
      <3>3. CASE o # r /\ run[o].at \in Streaming
        BY <1>4, <3>3 DEF ResetAll, BInv, Types, RunTypes, InRange, Runs, environment
      <3> QED
        BY <3>1, <3>2, <3>3
    <2>2. RunTypes'
      BY <1>1, <2>1 DEF RunTypes
    <2>3. QueueTypes'
      <3>1. [by |-> r, op |-> "reset-all"] \in Instructions
        BY DEF Instructions, Resets
      <3>2. queue \in Seq(Instructions) /\ Len(queue) \in Nat /\ Len(queue) < MaxQueue
        BY DEF ResetAll, BInv, Types, QueueTypes
      <3> QED
        BY <3>1, <3>2, ConstantFacts DEF ResetAll, BInv, Types, QueueTypes
    <2>4. SyncTypes' /\ PageTypes'
      BY DEF ResetAll, BInv, Types, SyncTypes, PageTypes, environment, counters
    <2> QED
      BY <2>2, <2>3, <2>4 DEF ResetAll, BInv, Types
  <1>7. Held'
    BY <1>2, <1>5 DEF Held, Minds
  <1>8. ASSUME NEW o \in Runners
        PROVE  Sown(o)'
    <2>1. CASE run'[o].at \notin Reading
      BY <2>1 DEF Sown
    <2>2. CASE run'[o].at \in Reading
      <3>1. o # r /\ run[o].at \in Streaming
        BY <1>2, <1>3, <1>5, <2>2, StageNames DEF Reading
      <3>2. PagesRead(o)' = PagesRead(o)
        BY <1>4, <3>1 DEF PagesRead, ResetAll, environment
      <3>3. ASSUME ~run'[o].spoilt, NEW p \in PagesRead(o), NEW ns \in NamespacesOf[p]
            PROVE  Carried(o, ns, p)'
        <4>1. ~run[o].spoilt /\ ~run[o].emitted
          BY <1>4, <3>1, <3>3
        <4>2. p \in run[o].buffer[ns]
          BY <1>4, <2>2, <3>1, <3>3, <4>1 DEF BInv, Sown, Carried
        <4> QED
          BY <1>4, <3>1, <4>2 DEF Carried
      <3> QED
        BY <1>4, <2>2, <3>1, <3>2, <3>3 DEF BInv, Sown
    <2> QED
      BY <2>1, <2>2
  <1> QED
    BY <1>6, <1>7, <1>8 DEF BInv

-----------------------------------------------------------------------------
(* The vault-manager takes an instruction. *)

(* What a run knows of its place in the queue. *)
Advanced(v, w) ==
    /\ w.at = v.at /\ w.from = v.from /\ w.pos = v.pos /\ w.buffer = v.buffer
    /\ w.emitted = v.emitted
    /\ v.waiting > 0 => w.waiting + 1 = v.waiting
    /\ v.waiting = 0 => w.waiting = 0

LEMMA AdvanceKeeps ==
    ASSUME NEW r \in Runners, run[r] \in Runs
    PROVE  /\ Advance(r) \in Runs
           /\ run[r].at \in Streaming =>
                 /\ run[r] \in Streams /\ Advance(r) \in Streams
                 /\ Advanced(run[r], Advance(r)) /\ Advance(r).spoilt = run[r].spoilt
           /\ run[r].at \notin Streaming => Advance(r) = run[r]
  <1>1. CASE run[r].at \notin Streaming
    BY <1>1 DEF Advance
  <1>2. CASE run[r].at \in Streaming
    <2>1. run[r] \in Streams
      BY <1>2, StageOf
    <2>2. run[r].waiting \in Nat
      BY <2>1 DEF Streams
    <2>3. CASE run[r].waiting = 0
      BY <1>2, <2>1, <2>3 DEF Advance, Advanced
    <2>4. CASE run[r].waiting > 0
      <3>1. PICK n \in Nat : n = run[r].waiting - 1
        BY <2>2, <2>4
      <3>2. Advance(r) = [run[r] EXCEPT !.waiting = n]
        BY <1>2, <2>4, <3>1 DEF Advance
      <3>3. LET w == [run[r] EXCEPT !.waiting = n]
            IN  /\ w \in Streams /\ w.at = run[r].at /\ w.from = run[r].from
                /\ w.pos = run[r].pos /\ w.buffer = run[r].buffer
                /\ w.emitted = run[r].emitted /\ w.waiting = n
                /\ w.spoilt = run[r].spoilt
        BY <2>1 DEF Streams
      <3> QED
        BY <1>2, <2>1, <2>2, <2>4, <3>1, <3>2, <3>3 DEF Advanced, Runs
    <2> QED
      BY <2>2, <2>3, <2>4 DEF Runs
  <1> QED
    BY <1>1, <1>2

(* The run has all that is read and not spoilt where it was, or one further. *)
LEMMA QueueMoves ==
    ASSUME BInv, queue # <<>>, queue' = Tail(queue), pages' = pages, newest' = newest,
           run' \in [Runners -> Runs],
           \A r \in Runners : run[r].at \notin Streaming => run'[r] = run[r],
           \A r \in Runners : run[r].at \in Streaming =>
               /\ run[r] \in Streams
               /\ Advanced(run[r], run'[r])
               /\ run[r].spoilt => run'[r].spoilt,
           vault \subseteq vault' \/ Head(queue).op = "reset-all",
           \A r \in Runners : run[r].at \in Streaming =>
               \/ Head(queue).by # r \/ Head(queue).op # "bulk-upsert"
               \/ run'[r].spoilt \/ Head(queue).entries \subseteq vault'
    PROVE  /\ RunTypes'
           /\ queue' \in Seq(Instructions) /\ Len(queue') <= MaxQueue
           /\ Head(queue) \in Instructions
           /\ \A r \in Runners : Minds(run[r]) => Minds(run'[r])
           /\ \A r \in Runners : Sown(r)'
  <1>1. /\ queue \in Seq(Instructions) /\ Len(queue) \in Nat /\ Len(queue) <= MaxQueue
        /\ MaxQueue \in Nat /\ Len(queue) > 0
    BY ConstantFacts DEF BInv, Types, QueueTypes
  <1>2. /\ queue' \in Seq(Instructions) /\ Len(queue') + 1 = Len(queue)
        /\ Len(queue') \in Nat
        /\ \A k \in 1 .. Len(queue') : queue'[k] = queue[k + 1]
        /\ Head(queue) = queue[1] /\ Head(queue) \in Instructions
    BY <1>1
  <1>3. RunTypes'
    <2>1. ASSUME NEW r \in Runners PROVE InRange(run[r])'
      BY DEF InRange, BInv, Types, RunTypes, Advanced
    <2> QED
      BY <2>1 DEF RunTypes
  <1>4. \A r \in Runners : Minds(run[r]) => Minds(run'[r])
    BY DEF Minds, Advanced
  <1>5. ASSUME NEW r \in Runners
        PROVE  Sown(r)'
    <2>1. CASE run'[r].at \notin Reading
      BY <2>1 DEF Sown
    <2>2. CASE run'[r].at \in Reading
      <3>1. /\ run[r].at \in Reading /\ run[r] \in Streams /\ Advanced(run[r], run'[r])
            /\ run[r].spoilt => run'[r].spoilt
        BY <2>2, StageNames DEF Reading, Advanced
      <3>2. PagesRead(r)' = PagesRead(r)
        BY <3>1 DEF PagesRead, Advanced
      <3>3. ASSUME NEW ns, NEW p, ~run'[r].spoilt, Carried(r, ns, p)
            PROVE  Carried(r, ns, p)'
        <4>1. CASE p \in run[r].buffer[ns]
          BY <3>1, <4>1 DEF Carried, Advanced
        <4>2. CASE run[r].emitted /\ Queued(r, ns, p)
          <5>1. PICK k \in 1 .. Len(queue) :
                   /\ k <= run[r].waiting
                   /\ queue[k].by = r /\ queue[k].op = "bulk-upsert"
                   /\ <<ns, p>> \in queue[k].entries
                   /\ NoResetAfter(k)
            BY <4>2 DEF Queued
          <5>2. CASE k = 1
            <6>1. <<ns, p>> \in vault'
              <7>1. run[r].at \in Streaming
                BY <3>1, StageNames DEF Reading
              <7> QED
                BY <1>2, <3>3, <5>1, <5>2, <7>1
            <6>2. NoResetAfter(0)'
              <7>1. ASSUME NEW m \in 1 .. Len(queue') PROVE queue'[m].op # "reset-all"
                <8>1. m + 1 \in 1 .. Len(queue) /\ m + 1 > 1 /\ queue'[m] = queue[m + 1]
                  BY <1>1, <1>2
                <8> QED
                  BY <5>1, <5>2, <8>1 DEF NoResetAfter
              <7> QED
                BY <7>1 DEF NoResetAfter
            <6> QED
              BY <3>1, <4>2, <6>1, <6>2 DEF Carried, Advanced
          <5>3. CASE k > 1
            <6>1. PICK j \in 1 .. Len(queue') : j + 1 = k
              <7>1. k - 1 \in 1 .. Len(queue') /\ (k - 1) + 1 = k
                BY <1>1, <1>2, <5>3
              <7> QED
                BY <7>1
            <6>2. j <= run'[r].waiting
              <7>1. run[r].waiting \in Nat /\ run[r].waiting > 0
                BY <3>1, <5>1, <5>3 DEF Streams
              <7>2. run'[r].waiting + 1 = run[r].waiting
                BY <3>1, <7>1 DEF Advanced
              <7>3. run'[r].waiting \in Nat
                <8>1. run'[r] \in Streams
                  BY <2>2, StageOf, StageNames DEF Reading
                <8> QED
                  BY <8>1 DEF Streams
              <7> QED
                BY <5>1, <6>1, <7>1, <7>2, <7>3
            <6>3. NoResetAfter(j)'
              <7>1. ASSUME NEW m \in 1 .. Len(queue'), m > j
                    PROVE  queue'[m].op # "reset-all"
                <8>1. m + 1 \in 1 .. Len(queue) /\ m + 1 > k /\ queue'[m] = queue[m + 1]
                  BY <1>1, <1>2, <6>1, <7>1
                <8> QED
                  BY <5>1, <8>1 DEF NoResetAfter
              <7> QED
                BY <7>1 DEF NoResetAfter
            <6>4. queue'[j] = queue[k]
              BY <1>2, <6>1
            <6>5. Queued(r, ns, p)'
              BY <5>1, <6>2, <6>3, <6>4 DEF Queued
            <6> QED
              BY <3>1, <4>2, <6>5 DEF Carried, Advanced
          <5> QED
            BY <5>2, <5>3
        <4>3. CASE run[r].emitted /\ <<ns, p>> \in vault /\ NoResetAfter(0)
          <5>1. ASSUME NEW m \in 1 .. Len(queue') PROVE queue'[m].op # "reset-all"
            <6>1. m + 1 \in 1 .. Len(queue) /\ m + 1 > 0 /\ queue'[m] = queue[m + 1]
              BY <1>1, <1>2
            <6> QED
              BY <4>3, <6>1 DEF NoResetAfter
          <5>2. Head(queue).op # "reset-all"
            BY <1>1, <1>2, <4>3 DEF NoResetAfter
          <5>3. NoResetAfter(0)' /\ <<ns, p>> \in vault'
            BY <4>3, <5>1, <5>2 DEF NoResetAfter
          <5> QED
            BY <3>1, <4>3, <5>3 DEF Carried, Advanced
        <4> QED
          BY <3>3, <4>1, <4>2, <4>3 DEF Carried
      <3> QED
        BY <2>2, <3>1, <3>2, <3>3 DEF BInv, Sown, Advanced
    <2> QED
      BY <2>1, <2>2
  <1> QED
    BY <1>1, <1>2, <1>3, <1>4, <1>5

LEMMA ApplyNextKeeps ==
    ASSUME BInv, ApplyNext
    PROVE  BInv'
  <1>1. run \in [Runners -> Runs]
    BY DEF BInv, Types, RunTypes
  <1>2. \A r \in Runners : run'[r] = Advance(r)
    BY DEF ApplyNext
  <1>3. run' \in [Runners -> Runs]
    BY <1>1, AdvanceKeeps DEF ApplyNext
  <1>4. /\ vault \subseteq vault' \/ Head(queue).op = "reset-all"
        /\ Head(queue).op = "bulk-upsert" => Head(queue).entries \subseteq vault'
    BY DEF ApplyNext
  <1>5. /\ RunTypes'
        /\ queue' \in Seq(Instructions) /\ Len(queue') <= MaxQueue
        /\ Head(queue) \in Instructions
        /\ \A r \in Runners : Minds(run[r]) => Minds(run'[r])
        /\ \A r \in Runners : Sown(r)'
    BY <1>1, <1>2, <1>3, <1>4, AdvanceKeeps, QueueMoves DEF ApplyNext, environment
  <1>6. vault' \subseteq Seeds
    BY <1>5
    DEF ApplyNext, BInv, Types, QueueTypes, Instructions, Resets, Upserts
  <1>7. Types'
    BY <1>5, <1>6
    DEF ApplyNext, BInv, Types, SyncTypes, QueueTypes, PageTypes, environment, counters
  <1>8. Held'
    BY <1>5 DEF ApplyNext, BInv, Held
  <1> QED
    BY <1>5, <1>7, <1>8 DEF BInv

LEMMA ApplyFailsKeeps ==
    ASSUME BInv, ApplyFails
    PROVE  BInv'
  <1>1. run \in [Runners -> Runs]
    BY DEF BInv, Types, RunTypes
  <1>2. ASSUME NEW r \in Runners, run[r].at \in Streaming
        PROVE  /\ run'[r] \in Runs
               /\ Advanced(run[r], run'[r])
               /\ run[r].spoilt => run'[r].spoilt
               /\ Head(queue).by = r => run'[r].spoilt
    <2> DEFINE v == Advance(r)
    <2>1. v \in Streams /\ Advanced(run[r], v) /\ v.spoilt = run[r].spoilt
      BY <1>1, <1>2, AdvanceKeeps
    <2>2. PICK b \in BOOLEAN, c \in BOOLEAN :
             /\ b = (v.broken \/ run[r].waiting = 1)
             /\ c = (v.spoilt \/ Head(queue).by = r)
      OBVIOUS
    <2>3. run'[r] = [v EXCEPT !.broken = b, !.spoilt = c]
      <3>1. run'[r] = [v EXCEPT !.broken = v.broken \/ run[r].waiting = 1,
                                !.spoilt = v.spoilt \/ Head(queue).by = r]
        BY <1>2 DEF ApplyFails
      <3> HIDE DEF v
      <3> QED
        BY <2>2, <3>1
    <2> HIDE DEF v
    <2>5. /\ run'[r] \in Streams /\ run'[r].at = v.at /\ run'[r].from = v.from
          /\ run'[r].pos = v.pos /\ run'[r].buffer = v.buffer
          /\ run'[r].emitted = v.emitted /\ run'[r].waiting = v.waiting
          /\ run'[r].spoilt = c
      BY <2>1, <2>3 DEF Streams
    <2>6. Advanced(run[r], run'[r])
      BY <2>1, <2>5 DEF Advanced
    <2> QED
      BY <2>1, <2>2, <2>5, <2>6 DEF Runs
  <1>3. ASSUME NEW r \in Runners, run[r].at \notin Streaming
        PROVE  run'[r] = run[r]
    BY <1>3 DEF ApplyFails
  <1>4. run' \in [Runners -> Runs]
    <2>1. run' = [r \in Runners |-> run'[r]]
      BY DEF ApplyFails
    <2> QED
      BY <1>1, <1>2, <1>3, <2>1
  <1>5. \A r \in Runners : run[r].at \in Streaming => run[r] \in Streams
    BY <1>1, StageOf
  <1>6. /\ RunTypes'
        /\ queue' \in Seq(Instructions) /\ Len(queue') <= MaxQueue
        /\ \A r \in Runners : Minds(run[r]) => Minds(run'[r])
        /\ \A r \in Runners : Sown(r)'
    BY <1>2, <1>3, <1>4, <1>5, QueueMoves DEF ApplyFails, environment
  <1>7. Types'
    BY <1>6
    DEF ApplyFails, BInv, Types, SyncTypes, QueueTypes, PageTypes, environment
  <1>8. Held'
    BY <1>6 DEF ApplyFails, BInv, Held
  <1> QED
    BY <1>6, <1>7, <1>8 DEF BInv

-----------------------------------------------------------------------------
(* The theorems. *)

LEMMA BInvInit == Init => BInv
  <1> SUFFICES ASSUME Init PROVE BInv
    OBVIOUS
  <1>1. Types
    <2>1. SyncTypes
      BY ConstantFacts DEF Init, SyncTypes, Documents, States
    <2>2. RunTypes
      BY StageNames DEF Init, RunTypes, Runs, InRange
    <2>3. QueueTypes
      BY ConstantFacts DEF Init, QueueTypes
    <2>4. PageTypes
      BY ConstantFacts DEF Init, PageTypes
    <2> QED
      BY <2>1, <2>2, <2>3, <2>4 DEF Types, Init
  <1>2. Held
    BY HeldUnlessInFlight DEF Init, Held, InFlight
  <1>3. \A r \in Runners : Sown(r)
    BY StageNames DEF Init, Sown, Reading
  <1> QED
    BY <1>1, <1>2, <1>3 DEF BInv

LEMMA BInvStutters ==
    ASSUME BInv, UNCHANGED vars
    PROVE  BInv'
  BY RunsStay DEF vars, BInv, Types, SyncTypes, environment, counters

LEMMA BInvKept ==
    ASSUME BInv, [Next]_vars
    PROVE  BInv'
  <1>1. ASSUME NEW r \in Runners, Step(r)
        PROVE  BInv'
    <2>1. ASSUME NEW ns \in Namespaces, FlushChunk(r, ns) \/ FlushBuffer(r, ns)
          PROVE  BInv'
      BY <2>1, BulkUpsertKeeps DEF FlushChunk, FlushBuffer, At
    <2> QED
      BY <1>1, <2>1, NormalizeKeeps, ReadKeeps, DecideKeeps, EscalateKeeps,
         AcquireInstanceKeeps, ReadStateKeeps, SetRetryingKeeps, SetRunningKeeps,
         ResetAllKeeps, SnapshotKeeps, OpenCursorKeeps, NextPageKeeps,
         SaveCursorKeeps, EndOfStreamKeeps, SetVerifyingKeeps, CheckFailsKeeps,
         SetDoneKeeps, SetFailedKeeps
      DEF Step
  <1> QED
    BY <1>1, StartupKeeps, WipeKeeps, ThrowKeeps, CrashKeeps, AbortReadsKeeps,
       AbortWritesKeeps, HeartbeatKeeps, ApplyNextKeeps, ApplyFailsKeeps,
       CreatePageKeeps, DeletePageKeeps, BInvStutters
    DEF Next

LEMMA BInvAlways == Spec => []BInv
  BY BInvInit, BInvKept, PTL DEF Spec

LEMMA TypeFromBInv ==
    ASSUME BInv
    PROVE  TypeOK
  <1>1. sync \in [state : States, cursor : 0 .. newest, fresh : BOOLEAN,
                  attempts : Nat, aborted : BOOLEAN]
    BY DEF BInv, Types, SyncTypes, PageTypes, Documents
  <1>2. ASSUME NEW r \in Runners
        PROVE  run[r] \in {Up, Down} \/ InProgress(r)
    BY StageOf DEF BInv, Types, RunTypes, InProgress
  <1>3. vault \subseteq Namespaces \X PageIds
    BY DEF BInv, Types, QueueTypes, Seeds
  <1> QED
    BY <1>1, <1>2, <1>3 DEF TypeOK, BInv, Types, QueueTypes, PageTypes

(* The cursor of the document never passes the newest page, no run is in an   *)
(* unknown stage, and the vault holds pages of its namespaces only, for any   *)
(* processes, chunk size, retries, faults and length of the queue.            *)
THEOREM TypesHold == Spec => []TypeOK
  BY BInvAlways, TypeFromBInv, PTL

LEMMA NobodyLeftFromBInv ==
    ASSUME BInv
    PROVE  NobodyLeftRunning
  BY StageNames DEF BInv, Held, Minds, NobodyLeftRunning, At

(* While no process is down, a document in flight has a run at work on it,    *)
(* unless it was abandoned in one of the two ways named at the property: for  *)
(* any number of processes that start, seed, retry, wipe, abort and crash.    *)
THEOREM NobodyLeft == Spec => []NobodyLeftRunning
  BY BInvAlways, NobodyLeftFromBInv, PTL

(* Of the steps at the completeness check only one leaves the process up. *)
LEMMA OnlyDoneGoesUp ==
    ASSUME BInv, Next, NEW r \in Runners, At(r, "check"), At(r, "up")'
    PROVE  SetDone(r)
  <1>1. /\ run \in [Runners -> Runs] /\ run[r] \in Streams /\ run[r].at = "check"
        /\ run'[r].at = "up" /\ run[r].at \in Streaming
    BY StageOf, StageNames DEF BInv, Types, RunTypes, At
  <1>2. ASSUME NEW o \in Runners, NEW w, run' = [run EXCEPT ![o] = w],
               o # r \/ w.at # "up"
        PROVE  FALSE
    BY <1>1, <1>2
  <1>3. run' # run
    BY <1>1
  <1>4. ASSUME NEW o \in Runners, Step(o), ~SetDone(o)
        PROVE  FALSE
    <2>1. CASE o = r
      <3>1. CheckFails(r)
        BY <1>1, <1>4, <2>1
        DEF Step, At, Normalize, Read, Decide, Escalate, AcquireInstance, ReadState,
            SetRetrying, SetRunning, ResetAll, Snapshot, OpenCursor, NextPage,
            FlushChunk, FlushBuffer, SaveCursor, EndOfStream, SetVerifying, SetFailed
      <3> QED
        BY <1>1, <3>1 DEF CheckFails, Goto, Streams
    <2>2. CASE o # r
      <3>1. run'[r] = run[r] \/ ResetAll(o)
        BY <1>1, <1>4, <2>2
        DEF Step, Normalize, Read, Decide, Escalate, AcquireInstance, ReadState,
            SetRetrying, SetRunning, Snapshot, OpenCursor, NextPage, FlushChunk,
            FlushBuffer, BulkUpsert, SaveCursor, EndOfStream, SetVerifying, CheckFails,
            SetFailed, Goto, Finish
      <3>2. ~ResetAll(o)
        <4>1. SUFFICES ASSUME ResetAll(o) PROVE FALSE
          OBVIOUS
        <4>2. run'[r] = [run[r] EXCEPT !.spoilt = run[r].spoilt \/ run[r].emitted]
          BY <1>1, <2>2, <4>1 DEF ResetAll
        <4> QED
          BY <1>1, <4>2 DEF Streams
      <3> QED
        BY <1>1, <3>1, <3>2
    <2> QED
      BY <2>1, <2>2
  <1>5. ASSUME NEW o \in Runners, SetDone(o), o # r
        PROVE  FALSE
    BY <1>2, <1>5 DEF SetDone, Finish
  <1>6. ASSUME NEW o \in Runners, NEW env \in Envs, Startup(o, env)
        PROVE  FALSE
    <2>1. o # r
      BY <1>1, <1>6 DEF Startup, At
    <2> QED
      BY <1>2, <1>6, <2>1 DEF Startup
  <1>7. ASSUME NEW o \in Runners, Wipe(o)
        PROVE  FALSE
    BY <1>1, <1>2, <1>7 DEF Wipe, At
  <1>8. ASSUME NEW o \in Runners, Throw(o)
        PROVE  FALSE
    <2>1. CASE o = r
      BY <1>1, <1>8, <2>1 DEF Throw, Goto, Streams
    <2>2. CASE o # r
      BY <1>1, <1>8, <2>2 DEF Throw, Goto, Finish
    <2> QED
      BY <2>1, <2>2
  <1>9. ASSUME NEW o \in Runners, Crash(o)
        PROVE  FALSE
    BY <1>2, <1>9, StageNames DEF Crash
  <1>10. ~ApplyNext /\ ~ApplyFails
    <2>1. ~ApplyNext
      BY <1>1, AdvanceKeeps DEF ApplyNext, Advanced
    <2>2. ~ApplyFails
      <3>1. SUFFICES ASSUME ApplyFails PROVE FALSE
        OBVIOUS
      <3>2. PICK x, y : run'[r] = [Advance(r) EXCEPT !.broken = x, !.spoilt = y]
        BY <1>1, <3>1 DEF ApplyFails
      <3>3. Advance(r) \in Streams /\ Advance(r).at = "check"
        BY <1>1, AdvanceKeeps DEF Advanced
      <3> QED
        BY <1>1, <3>2, <3>3 DEF Streams
    <2> QED
      BY <2>1, <2>2
  <1>11. ~AbortReads /\ ~AbortWrites /\ ~Heartbeat /\ ~CreatePage
         /\ \A p \in pages : ~DeletePage(p)
    BY <1>3 DEF AbortReads, AbortWrites, Heartbeat, CreatePage, DeletePage
  <1> QED
    BY <1>4, <1>5, <1>6, <1>7, <1>8, <1>9, <1>10, <1>11 DEF Next

LEMMA SeededStep ==
    ASSUME BInv, [Next]_vars
    PROVE  [\A r \in Runners :
               (At(r, "check") /\ At(r, "up")' /\ ~run[r].spoilt) =>
                   \A p \in pages \cap (run[r].from + 1) .. run[r].snapshot :
                       \A ns \in NamespacesOf[p] : <<ns, p>> \in vault]_vars
  <1> SUFFICES ASSUME Next, NEW r \in Runners,
                      At(r, "check"), At(r, "up")', ~run[r].spoilt,
                      NEW p \in pages \cap (run[r].from + 1) .. run[r].snapshot,
                      NEW ns \in NamespacesOf[p]
               PROVE  <<ns, p>> \in vault
    OBVIOUS
  <1>1. run[r] \in Streams /\ run[r].at = "check"
    BY StageOf, StageNames DEF BInv, Types, RunTypes, At
  <1>2. SetDone(r)
    BY <1>1, OnlyDoneGoesUp
  <1>3. p \in PagesRead(r)
    <2>1. /\ run[r].snapshot \in Nat /\ run[r].pos \in Nat /\ run[r].from \in Nat
          /\ p \in Nat
      BY <1>1, PagesAreNumbers DEF BInv, Streams
    <2>2. run[r].from < p /\ p <= run[r].snapshot
      BY <2>1
    <2>3. run[r].pos = run[r].snapshot
      BY <1>2, <2>1, <2>2 DEF SetDone, ReachedSnapshot
    <2> QED
      BY <2>2, <2>3 DEF PagesRead
  <1>4. Carried(r, ns, p)
    BY <1>1, <1>3 DEF BInv, Sown, Reading
  <1>5. p \notin run[r].buffer[ns]
    <2>1. run[r].buffer = NoEntries /\ ns \in Namespaces
      BY <1>1, ConstantFacts, PagesAreNumbers DEF BInv, Sown, Reading
    <2> QED
      BY <2>1 DEF NoEntries
  <1>6. ~Queued(r, ns, p) \/ ~run[r].emitted
    BY <1>2 DEF SetDone, Processed, Queued
  <1> QED
    BY <1>4, <1>5, <1>6 DEF Carried

(* A run that ends as done has its pages in the vault, with the exceptions    *)
(* named at the property, for any number of runs, wipes and faults and any    *)
(* interleaving with the vault-manager and with pages created or deleted.     *)
THEOREM SeededHolds == Spec => SeededWhenDone
  BY BInvAlways, SeededStep, PTL DEF Spec, SeededWhenDone

==============================================================================
