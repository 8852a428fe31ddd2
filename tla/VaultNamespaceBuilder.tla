------------------------ MODULE VaultNamespaceBuilder ------------------------
(***************************************************************************)
(* The two writers of namespace refs in one vault-manager process:         *)
(*                                                                         *)
(*   - the namespace builder (vault-namespace-builder.ts), which the       *)
(*     instruction watcher calls for one instruction at a time;            *)
(*   - the squash track of the maintenance scheduler                       *)
(*     (vault-maintenance-scheduler.ts), which runs on a timer.            *)
(*                                                                         *)
(* Both are async functions of one Node.js process, so they interleave at  *)
(* their awaits.  A step of this module is the code between two awaits     *)
(* that read or write a ref or a vault_namespace_state document.           *)
(*                                                                         *)
(* A commit is the record of its tree and a number that tells commits with *)
(* equal trees apart, as the parent and the timestamp do in git.           *)
(*                                                                         *)
(* The order in which instructions arrive is VaultInstructionWatcher's:    *)
(* here any unprocessed instruction may be next.                           *)
(***************************************************************************)
EXTENDS VaultInstruction, FiniteSets

CONSTANTS
    NoCommit,         \* the ref file does not exist
    NoDoc,            \* no vault_namespace_state document
    SquashThreshold,  \* VAULT_SQUASH_COMMIT_THRESHOLD
    Aged,             \* namespaces idle for longer than VAULT_SQUASH_AGE_HOURS
    MaxCommits        \* bound: commits written in a behaviour

(* The namespace public always exists. *)
ASSUME BuilderAssumption ==
    /\ Namespaces # {}
    /\ SquashThreshold \in Nat
    /\ MaxCommits \in Nat
    /\ Aged \subseteq Namespaces
    /\ NoCommit \notin [tree : Tree, id : Nat]
    /\ NoDoc \notin [commitOid : [tree : Tree, id : Nat], version : Nat]
    /\ NoDoc \notin Tree \cup Instructions

VARIABLES
    ref,        \* refs/namespaces/<ns>/refs/heads/main
    nsState,    \* the collection vault_namespace_state
    commits,    \* how many commits have been written
    job,        \* the builder's call in progress and its local variables
    processed,  \* instructions whose processedAt is set
    squash,     \* namespace -> the squash in progress on it
    overtaken   \* history: namespaces that a squash may have set back, until
                \* the builder has recorded a commit of theirs again

vars == <<ref, nsState, commits, job, processed, squash, overtaken>>

Commit == [tree : Tree, id : Nat]
Doc == [commitOid : Commit, version : Nat]
Idle == [at |-> "idle"]
NoSquash == [at |-> "idle"]

(* left: the refs reset-all has still to delete. *)
Job == [at : {"ref", "state", "dest", "wipe", "views", "ack"},
        instr : Instructions, ns : Namespaces, tree : Tree, src : Tree,
        oid : Commit \cup {NoCommit}, left : SUBSET Namespaces]

Squash == [at : {"ref", "state"}, tree : Tree, oid : Commit \cup {NoCommit}]

(* readRootTree *)
TreeOf(ns) == IF ref[ns] = NoCommit THEN EmptyTree ELSE ref[ns].tree

NewCommit(tree) == [tree |-> tree, id |-> commits + 1]

Init ==
    /\ ref = [ns \in Namespaces |-> NoCommit]
    /\ nsState = [ns \in Namespaces |-> NoDoc]
    /\ commits = 0
    /\ job = Idle
    /\ processed = {}
    /\ squash = [ns \in Namespaces |-> NoSquash]
    /\ overtaken = {}

-----------------------------------------------------------------------------
(* The namespace builder. *)

Working(i, at, ns, tree, src, left) ==
    [at |-> at, instr |-> i, ns |-> ns, tree |-> tree, src |-> src,
     oid |-> NoCommit, left |-> left]

CanBegin(i) == job = Idle /\ i \notin processed /\ ~Rejected(i)

-----------------------------------------------------------------------------
(* Mistakes the runs must notice; no specification uses these definitions.   *)

(* The commit is not handed on to the state document. *)
WriteRefForgetsCommit ==
    /\ job.at = "ref"
    /\ commits < MaxCommits
    /\ ref' = [ref EXCEPT ![job.ns] = NewCommit(job.tree)]
    /\ job' = [job EXCEPT !.at = "state"]
    /\ commits' = commits + 1
    /\ overtaken' = IF squash[job.ns] = NoSquash THEN overtaken
                    ELSE overtaken \cup {job.ns}
    /\ UNCHANGED <<nsState, processed, squash>>

(* commitOid moves to $setOnInsert: only the first commit is recorded. *)
WriteStateOnInsert ==
    /\ job.at = "state"
    /\ nsState' = [nsState EXCEPT ![job.ns] =
                     IF @ = NoDoc THEN [commitOid |-> job.oid, version |-> 1]
                     ELSE [@ EXCEPT !.version = @ + 1]]
    /\ job' = [job EXCEPT !.at =
                 IF job.instr.op = "grant-change-prefix" /\ job.ns = job.instr.fromNs
                 THEN "dest" ELSE "ack"]
    /\ overtaken' = IF squash[job.ns] = NoSquash /\ ref[job.ns] = job.oid
                    THEN overtaken \ {job.ns} ELSE overtaken
    /\ UNCHANGED <<ref, commits, processed, squash>>

(* The tree is read from the state document's commit, not from the ref. *)
BeginInOneFromState(i) ==
    /\ CanBegin(i)
    /\ ~Skipped(i)
    /\ i.op \in {"upsert", "remove", "bulk-upsert", "rename-prefix"}
    /\ LET t == IF nsState[i.ns] = NoDoc THEN EmptyTree
                ELSE nsState[i.ns].commitOid.tree
       IN  job' = Working(i, "ref", i.ns, Effect(i, i.ns, t, EmptyTree), EmptyTree, {})
    /\ UNCHANGED <<ref, nsState, commits, processed, squash, overtaken>>

(* The destination's new tree is committed to the source namespace. *)
ReadDestinationKeepsNs ==
    /\ job.at = "dest"
    /\ LET to == job.instr.ns
       IN  job' = [job EXCEPT !.at = "ref",
                    !.tree = Effect(job.instr, to, TreeOf(to), job.src)]
    /\ UNCHANGED <<ref, nsState, commits, processed, squash, overtaken>>

(* The documents are deleted without waiting for the refs. *)
DeleteStatesEarly ==
    /\ job.at = "wipe"
    /\ nsState' = [ns \in Namespaces |-> NoDoc]
    /\ job' = [job EXCEPT !.at = "views"]
    /\ overtaken' = {ns \in Namespaces : squash[ns] # NoSquash}
    /\ UNCHANGED <<ref, commits, processed, squash>>

-----------------------------------------------------------------------------
(* The builder's steps. *)

(* An instruction that names only excluded pages makes no commit. *)
BeginSkipped(i) ==
    /\ CanBegin(i)
    /\ Skipped(i)
    /\ job' = Working(i, "ack", i.ns, EmptyTree, EmptyTree, {})
    /\ UNCHANGED <<ref, nsState, commits, processed, squash, overtaken>>

(* Reads the root tree of the namespace and computes the new one. *)
BeginInOne(i) ==
    /\ CanBegin(i)
    /\ ~Skipped(i)
    /\ i.op \in {"upsert", "remove", "bulk-upsert", "rename-prefix"}
    /\ job' = Working(i, "ref", i.ns,
                      Effect(i, i.ns, TreeOf(i.ns), EmptyTree), EmptyTree, {})
    /\ UNCHANGED <<ref, nsState, commits, processed, squash, overtaken>>

(* The source half of a grant change; src stands for the extracted subtree. *)
BeginGrantChange(i) ==
    /\ CanBegin(i)
    /\ i.op = "grant-change-prefix"
    /\ LET src == TreeOf(i.fromNs)
       IN  job' = Working(i, "ref", i.fromNs, Effect(i, i.fromNs, src, src),
                          src, {})
    /\ UNCHANGED <<ref, nsState, commits, processed, squash, overtaken>>

(* reset-all takes the list of namespaces from vault_namespace_state. *)
BeginReset(i, anyNs) ==
    /\ CanBegin(i)
    /\ i.op = "reset-all"
    /\ job' = Working(i, "wipe", anyNs, EmptyTree, EmptyTree,
                      {ns \in Namespaces : nsState[ns] # NoDoc})
    /\ UNCHANGED <<ref, nsState, commits, processed, squash, overtaken>>

Begin(i) ==
    \/ BeginSkipped(i)
    \/ BeginInOne(i)
    \/ BeginGrantChange(i)
    \/ BeginReset(i, CHOOSE ns \in Namespaces : TRUE)

(* The builder moves or deletes the ref under a squash that is in flight. *)
Overlapping(ns) == IF squash[ns] = NoSquash THEN overtaken ELSE overtaken \cup {ns}

(* commitAndUpdateRef up to updateRef: the atomic rename of the ref file. *)
WriteRef ==
    /\ job.at = "ref"
    /\ commits < MaxCommits
    /\ LET c == NewCommit(job.tree)
       IN  /\ ref' = [ref EXCEPT ![job.ns] = c]
           /\ job' = [job EXCEPT !.at = "state", !.oid = c]
    /\ commits' = commits + 1
    /\ overtaken' = Overlapping(job.ns)
    /\ UNCHANGED <<nsState, processed, squash>>

SourceHalf == job.instr.op = "grant-change-prefix" /\ job.ns = job.instr.fromNs

(* VaultNamespaceStateModel.upsertNamespace: $set commitOid, $inc version. *)
WriteState ==
    /\ job.at = "state"
    /\ nsState' = [nsState EXCEPT ![job.ns] =
                     [commitOid |-> job.oid,
                      version |-> IF @ = NoDoc THEN 1 ELSE @.version + 1]]
    /\ job' = [job EXCEPT !.at = IF SourceHalf THEN "dest" ELSE "ack"]
    /\ overtaken' = IF squash[job.ns] = NoSquash /\ ref[job.ns] = job.oid
                    THEN overtaken \ {job.ns} ELSE overtaken
    /\ UNCHANGED <<ref, commits, processed, squash>>

(* The destination half of a grant change reads its own root tree. *)
ReadDestination ==
    /\ job.at = "dest"
    /\ LET to == job.instr.ns
       IN  job' = [job EXCEPT !.at = "ref", !.ns = to,
                    !.tree = Effect(job.instr, to, TreeOf(to), job.src)]
    /\ UNCHANGED <<ref, nsState, commits, processed, squash, overtaken>>

(* reset-all deletes the refs concurrently, so in any order. *)
DeleteRef(ns) ==
    /\ job.at = "wipe"
    /\ ns \in job.left
    /\ ref' = [ref EXCEPT ![ns] = NoCommit]
    /\ job' = [job EXCEPT !.left = @ \ {ns}]
    /\ overtaken' = Overlapping(ns)
    /\ UNCHANGED <<nsState, commits, processed, squash>>

DeleteStates ==
    /\ job.at = "wipe"
    /\ job.left = {}
    /\ nsState' = [ns \in Namespaces |-> NoDoc]
    /\ job' = [job EXCEPT !.at = "views"]
    /\ overtaken' = {ns \in Namespaces : squash[ns] # NoSquash}
    /\ UNCHANGED <<ref, commits, processed, squash>>

(* VaultUserViewModel.deleteAll: the views are VaultViewComposer's state. *)
DeleteViews ==
    /\ job.at = "views"
    /\ job' = [job EXCEPT !.at = "ack"]
    /\ UNCHANGED <<ref, nsState, commits, processed, squash, overtaken>>

(* doc.markProcessed in the watcher, after applyInstruction has resolved. *)
Acknowledge ==
    /\ job.at = "ack"
    /\ processed' = processed \cup {job.instr}
    /\ job' = Idle
    /\ UNCHANGED <<ref, nsState, commits, squash, overtaken>>

(* An await of the handler rejects: the watcher records the failure and      *)
(* processedAt stays null, so that the instruction is begun again later.     *)
Fail ==
    /\ job # Idle
    /\ job' = Idle
    /\ UNCHANGED <<ref, nsState, commits, processed, squash, overtaken>>

Build ==
    \/ \E i \in Instructions : Begin(i)
    \/ WriteRef \/ WriteState \/ ReadDestination
    \/ \E ns \in Namespaces : DeleteRef(ns)
    \/ DeleteStates \/ DeleteViews \/ Acknowledge \/ Fail

-----------------------------------------------------------------------------
(* The squash track of the maintenance scheduler. *)

(* runSquashCheck picks the namespace from its state document, unless a      *)
(* squash of it is in flight; squashNamespace peels the document's commit.   *)
SquashBegin(ns) ==
    /\ squash[ns] = NoSquash
    /\ nsState[ns] # NoDoc
    /\ nsState[ns].version > SquashThreshold \/ ns \in Aged
    /\ squash' = [squash EXCEPT ![ns] =
                    [at |-> "ref", tree |-> nsState[ns].commitOid.tree,
                     oid |-> NoCommit]]
    /\ overtaken' = IF nsState[ns].commitOid.tree = TreeOf(ns) THEN overtaken
                    ELSE overtaken \cup {ns}
    /\ UNCHANGED <<ref, nsState, commits, job, processed>>

(* The root commit with the same tree replaces the namespace's history. *)
SquashRef(ns) ==
    /\ squash[ns].at = "ref"
    /\ commits < MaxCommits
    /\ LET c == NewCommit(squash[ns].tree)
       IN  /\ ref' = [ref EXCEPT ![ns] = c]
           /\ squash' = [squash EXCEPT ![ns].at = "state", ![ns].oid = c]
    /\ commits' = commits + 1
    /\ UNCHANGED <<nsState, job, processed, overtaken>>

(* findOneAndUpdate with upsert: true recreates a deleted document. *)
SquashState(ns) ==
    /\ squash[ns].at = "state"
    /\ nsState' = [nsState EXCEPT ![ns] =
                     [commitOid |-> squash[ns].oid, version |-> 1]]
    /\ squash' = [squash EXCEPT ![ns] = NoSquash]
    /\ UNCHANGED <<ref, commits, job, processed, overtaken>>

(* Errors are swallowed; the finally block releases the namespace. *)
SquashFail(ns) ==
    /\ squash[ns] # NoSquash
    /\ squash' = [squash EXCEPT ![ns] = NoSquash]
    /\ UNCHANGED <<ref, nsState, commits, job, processed, overtaken>>

Maintain ==
    \E ns \in Namespaces :
        SquashBegin(ns) \/ SquashRef(ns) \/ SquashState(ns) \/ SquashFail(ns)

-----------------------------------------------------------------------------
(* The process dies: refs and documents stay, local variables are gone. *)
Crash ==
    /\ job' = Idle
    /\ squash' = [ns \in Namespaces |-> NoSquash]
    /\ UNCHANGED <<ref, nsState, commits, processed, overtaken>>

Next == Build \/ Maintain \/ Crash

Spec == Init /\ [][Next]_vars

-----------------------------------------------------------------------------
(* Properties. *)

(* The refs, the state documents, the builder's locals and the squashes are  *)
(* what their types say; the code has no run-time check of any of them.      *)
TypeOK ==
    /\ ref \in [Namespaces -> Commit \cup {NoCommit}]
    /\ nsState \in [Namespaces -> Doc \cup {NoDoc}]
    /\ commits \in Nat
    /\ job \in Job \cup {Idle}
    /\ processed \subseteq Instructions
    /\ squash \in [Namespaces -> Squash \cup {NoSquash}]
    /\ overtaken \subseteq Namespaces

(* A family of bodies that every instruction respects: what it writes to a   *)
(* namespace, or lets flow into it, is allowed there.                        *)
Allows(A) ==
    \A i \in Instructions :
        /\ i.op = "upsert" => i.rev \in A[i.ns]
        /\ i.op = "bulk-upsert" =>
              \A p \in DOMAIN BulkPatches(i.entries) :
                  BulkPatches(i.entries)[p] \in A[i.ns]
        /\ i.op = "grant-change-prefix" => A[i.fromNs] \subseteq A[i.ns]

(* The least such family: what the instructions open a namespace to. *)
AllowedFamilies == {A \in [Namespaces -> SUBSET Bodies] : Allows(A)}
Opened ==
    [ns \in Namespaces |-> {b \in Bodies : \A A \in AllowedFamilies : b \in A[ns]}]

Confined(A, ns, tree) == \A p \in Paths : tree[p] \in A[ns] \cup {NoBlob}

(* A page body shows up in a namespace only if some instruction put it there *)
(* or let it flow there by a grant change: whatever the interleaving of the  *)
(* builder, the squashes, failures and crashes, the ref of a namespace and   *)
(* the commit recorded for it hold nothing of another namespace.             *)
BodiesStayInTheirNamespace ==
    \A ns \in Namespaces :
        /\ Confined(Opened, ns, TreeOf(ns))
        /\ nsState[ns] # NoDoc => Confined(Opened, ns, nsState[ns].commitOid.tree)

(* The builder's read of the parent and its write of the ref are separate     *)
(* awaits with no compare-and-swap, and so are the squash's read of the       *)
(* document and its write of the ref.  Neither undoes the other: the builder  *)
(* replaces the tree it computed the new one from, and a squash keeps what a  *)
(* clone sees.  The exception is a namespace that a squash has overtaken.     *)
NoLostUpdate ==
    [][/\ (job.at = "ref" /\ job'.at = "state" /\ job.ns \notin overtaken) =>
             TreeOf(job.ns)' = Effect(job.instr, job.ns, TreeOf(job.ns), job.src)
       /\ \A ns \in Namespaces \ overtaken :
             (squash[ns].at = "ref" /\ squash'[ns].at = "state") =>
                 TreeOf(ns)' = TreeOf(ns)]_vars

(* What the instruction in progress has written to a namespace. *)
Written(ns) ==
    IF ns = job.ns THEN job.tree ELSE Effect(job.instr, ns, job.src, job.src)

(* An instruction is acknowledged only when what it wrote is both what the    *)
(* ref shows and what is recorded for the view composer, also beside squashes *)
(* of the namespaces, unless one of them has overtaken the builder there.     *)
AcknowledgedIsRecorded ==
    (job.at = "ack" /\ job.instr.op # "reset-all") =>
        \A ns \in Touches(job.instr) \ overtaken :
            /\ TreeOf(ns) = Written(ns)
            /\ nsState[ns] # NoDoc /\ nsState[ns].commitOid.tree = Written(ns)

(* The squash commit carries the tree of the namespace's HEAD: a squash       *)
(* drops history and leaves what a clone sees as it was.  The scheduler's     *)
(* header promises it; the code takes the tree from the state document, at a  *)
(* time the builder may be between updateRef and upsertNamespace.             *)
SquashKeepsHead ==
    [][\A ns \in Namespaces :
          (squash[ns].at = "ref" /\ squash'[ns].at = "state") =>
              TreeOf(ns)' = TreeOf(ns)]_vars

(* The mapping onto what the vault promises.                                 *)
Pending ==
    {ns \in Namespaces :
        \/ job.at = "ref" /\ ns = job.ns
        \/ job.at \in {"ref", "state"} /\ SourceHalf /\ ns = job.instr.ns
        \/ job.at = "dest" /\ ns = job.instr.ns
        \/ job.at = "wipe" /\ ns \in job.left}

Recorded(ns) == IF nsState[ns] = NoDoc THEN NoDoc ELSE nsState[ns].commitOid.tree

Contents == INSTANCE VaultContents WITH
    None <- NoDoc,
    contents <- [ns \in Namespaces |-> TreeOf(ns)],
    published <- [ns \in Namespaces |-> Recorded(ns)],
    active <- IF job = Idle THEN NoDoc ELSE job.instr,
    pending <- Pending,
    carried <- IF job # Idle /\ job.instr.op = "grant-change-prefix"
               THEN job.src ELSE EmptyTree

(* The builder and the scheduler implement the contents specification: whole *)
(* trees, one instruction at a time, acknowledged when visible and recorded; *)
(* that promise leaves out the namespaces which a squash has overtaken.      *)
ImplementsContents == Contents!Spec
==============================================================================
