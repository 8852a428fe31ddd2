--------------------- MODULE VaultNamespaceBuilder_proofs ---------------------
(***************************************************************************)
(* Proofs about the namespace builder and the squash scheduler, for every  *)
(* set of namespaces, paths, revisions and instructions, and for every     *)
(* interleaving of the two: types, confinement, and, for the namespaces    *)
(* that no squash has overtaken, that no update is lost, that what is      *)
(* acknowledged is recorded, and that the two writers implement            *)
(* VaultContents.                                                          *)
(***************************************************************************)
EXTENDS VaultNamespaceBuilder, TLAPS

-----------------------------------------------------------------------------
(* The instructions. *)

(* What the type of the instruction documents says of each of them. *)
LEMMA InstructionFields ==
    ASSUME NEW i \in Instructions
    PROVE  /\ i.op \in {"upsert", "remove", "bulk-upsert", "rename-prefix",
                        "grant-change-prefix", "reset-all"}
           /\ i.op # "reset-all" => i.ns \in Namespaces
           /\ i.op = "upsert" => i.path \in Paths /\ i.rev \in Revisions
           /\ i.op = "remove" => i.path \in Paths
           /\ i.op = "bulk-upsert" =>
                \E S \in SUBSET Paths : i.entries \in [S -> Revisions]
           /\ i.op = "grant-change-prefix" =>
                i.fromNs \in Namespaces /\ i.ns # i.fromNs
  <1>1. i \in InstructionType
    BY InstructionAssumption
  <1>2. i.op = "grant-change-prefix" => i.ns # i.fromNs
    BY InstructionAssumption
  <1>3. CASE i \in [op : {"upsert"}, ns : Namespaces, path : Paths, rev : Revisions]
    BY <1>2, <1>3
  <1>4. CASE i \in [op : {"remove"}, ns : Namespaces, path : Paths]
    BY <1>2, <1>4
  <1>5. CASE i \in [op : {"bulk-upsert"}, ns : Namespaces,
                    entries : UNION {[S -> Revisions] : S \in SUBSET Paths}]
    <2>1. /\ i.op = "bulk-upsert"
          /\ i.ns \in Namespaces
          /\ i.entries \in UNION {[S -> Revisions] : S \in SUBSET Paths}
      BY <1>5
    <2> QED
      BY <2>1
  <1>6. CASE i \in [op : {"rename-prefix"}, ns : Namespaces,
                    oldPrefix : Prefix, newPrefix : Prefix]
    BY <1>2, <1>6
  <1>7. CASE i \in [op : {"grant-change-prefix"}, ns : Namespaces,
                    fromNs : Namespaces, oldPrefix : Prefix]
    BY <1>2, <1>7
  <1>8. CASE i \in [op : {"reset-all"}]
    BY <1>2, <1>8
  <1> QED
    BY <1>1, <1>3, <1>4, <1>5, <1>6, <1>7, <1>8 DEF InstructionType

LEMMA EmptyTreeIsTree == EmptyTree \in Tree
  BY DEF EmptyTree, Tree

(* Every handler turns a tree into a tree, whatever the source tree is. *)
LEMMA EffectIsTree ==
    ASSUME NEW i \in Instructions, NEW ns, NEW t \in Tree, NEW src \in Tree
    PROVE  Effect(i, ns, t, src) \in Tree
  <1>1. CASE i.op = "upsert"
    <2>1. i.path \in Paths /\ i.rev \in Bodies
      BY <1>1, InstructionFields DEF Bodies
    <2> QED
      BY <1>1, <2>1 DEF Effect, UpsertEntry, Tree
  <1>2. CASE i.op = "remove"
    BY <1>2, InstructionFields DEF Effect, RemoveEntry, Tree
  <1>3. CASE i.op = "bulk-upsert"
    <2>1. PICK S \in SUBSET Paths : i.entries \in [S -> Revisions]
      BY <1>3, InstructionFields
    <2>2. \A p \in DOMAIN BulkPatches(i.entries) :
             BulkPatches(i.entries)[p] \in Bodies
      BY <2>1 DEF BulkPatches, Bodies
    <2>3. ApplyPatches(t, BulkPatches(i.entries)) \in Tree
      BY <2>2 DEF ApplyPatches, Tree
    <2> QED
      BY <1>3, <2>3 DEF Effect
  <1>4. CASE i.op = "rename-prefix"
    BY <1>4 DEF Effect, RenamePrefix, MountSubtree, RemoveSubtree, Tree
  <1>5. CASE i.op = "grant-change-prefix"
    BY <1>5 DEF Effect, GrantMount, MountSubtree, RemoveSubtree, Tree
  <1>6. CASE i.op = "reset-all"
    BY <1>6, EmptyTreeIsTree DEF Effect
  <1> QED
    BY <1>1, <1>2, <1>3, <1>4, <1>5, <1>6, InstructionFields

-----------------------------------------------------------------------------
(* Type correctness. *)

(* TypeOK is not inductive: the commit a handler carries from updateRef to   *)
(* the state document has to be there by then, and only a grant change ever  *)
(* goes on to a second namespace.                                            *)
Carried ==
    /\ job.at = "state" => job.oid \in Commit /\ job.oid.tree = job.tree
    /\ job.at = "dest" => SourceHalf
    /\ \A ns \in Namespaces : squash[ns].at = "state" => squash[ns].oid \in Commit

LEMMA TreeOfIsTree ==
    ASSUME TypeOK, NEW ns \in Namespaces
    PROVE  TreeOf(ns) \in Tree
  BY EmptyTreeIsTree DEF TypeOK, TreeOf, Commit

LEMMA NewCommitIsCommit ==
    ASSUME TypeOK, NEW tree \in Tree
    PROVE  NewCommit(tree) \in Commit
  BY DEF TypeOK, NewCommit, Commit

(* A call in progress has a job record; Idle is not one. *)
LEMMA JobInProgress ==
    ASSUME TypeOK, job # Idle
    PROVE  job \in Job
  BY DEF TypeOK

LEMMA IdleIsAt == Idle.at = "idle" /\ NoSquash.at = "idle"
  BY DEF Idle, NoSquash

LEMMA WorkingIsJob ==
    ASSUME NEW i \in Instructions, NEW at \in {"ref", "wipe", "ack"},
           NEW ns \in Namespaces, NEW tree \in Tree, NEW src \in Tree,
           NEW left \in SUBSET Namespaces
    PROVE  /\ Working(i, at, ns, tree, src, left) \in Job
           /\ Working(i, at, ns, tree, src, left).at = at
  BY DEF Working, Job

LEMMA TypeInit == Init => TypeOK /\ Carried
  BY IdleIsAt DEF Init, TypeOK, Carried, Idle, NoSquash

(* Every way an instruction can begin leaves a well-typed call. *)
LEMMA TypeBegin ==
    ASSUME TypeOK, Carried, NEW i \in Instructions, Begin(i)
    PROVE  TypeOK' /\ Carried'
  <1>1. \E at \in {"ref", "wipe", "ack"}, ns \in Namespaces, tree \in Tree,
           src \in Tree, left \in SUBSET Namespaces :
             job' = Working(i, at, ns, tree, src, left)
    <2>1. CASE BeginSkipped(i)
      <3>1. i.ns \in Namespaces
        BY <2>1, InstructionFields DEF BeginSkipped, Skipped
      <3> QED
        BY <2>1, <3>1, EmptyTreeIsTree DEF BeginSkipped
    <2>2. CASE BeginInOne(i)
      <3>1. i.ns \in Namespaces
        BY <2>2, InstructionFields DEF BeginInOne
      <3>2. Effect(i, i.ns, TreeOf(i.ns), EmptyTree) \in Tree
        BY <3>1, TreeOfIsTree, EmptyTreeIsTree, EffectIsTree
      <3> QED
        BY <2>2, <3>1, <3>2, EmptyTreeIsTree DEF BeginInOne
    <2>3. CASE BeginGrantChange(i)
      <3>1. i.fromNs \in Namespaces
        BY <2>3, InstructionFields DEF BeginGrantChange
      <3>2. TreeOf(i.fromNs) \in Tree
        BY <3>1, TreeOfIsTree
      <3>3. Effect(i, i.fromNs, TreeOf(i.fromNs), TreeOf(i.fromNs)) \in Tree
        BY <3>2, EffectIsTree
      <3> QED
        BY <2>3, <3>1, <3>2, <3>3 DEF BeginGrantChange
    <2>4. CASE BeginReset(i, CHOOSE ns \in Namespaces : TRUE)
      <3>1. (CHOOSE ns \in Namespaces : TRUE) \in Namespaces
        BY BuilderAssumption
      <3> DEFINE left == {ns \in Namespaces : nsState[ns] # NoDoc}
      <3>2. left \in SUBSET Namespaces
        OBVIOUS
      <3> QED
        BY <2>4, <3>1, <3>2, EmptyTreeIsTree DEF BeginReset
    <2> QED
      BY <2>1, <2>2, <2>3, <2>4 DEF Begin
  <1>2. job' \in Job /\ job'.at \in {"ref", "wipe", "ack"}
    BY <1>1, WorkingIsJob
  <1>3. UNCHANGED <<ref, nsState, commits, processed, squash, overtaken>>
    BY DEF Begin, BeginSkipped, BeginInOne, BeginGrantChange, BeginReset
  <1> QED
    BY <1>2, <1>3 DEF TypeOK, Carried

LEMMA TypeStep ==
    ASSUME TypeOK, Carried, [Next]_vars
    PROVE  TypeOK' /\ Carried'
  <1>1. ASSUME NEW i \in Instructions, Begin(i)
        PROVE  TypeOK' /\ Carried'
    BY <1>1, TypeBegin
  <1>2. CASE WriteRef
    <2>1. job \in Job
      BY <1>2, JobInProgress, IdleIsAt DEF WriteRef
    <2>2. NewCommit(job.tree) \in Commit /\ NewCommit(job.tree).tree = job.tree
      BY <2>1, NewCommitIsCommit DEF Job, NewCommit
    <2>3. job' = [job EXCEPT !.at = "state", !.oid = NewCommit(job.tree)]
      BY <1>2 DEF WriteRef
    <2>4. /\ job' \in Job /\ job'.at = "state" /\ job'.oid \in Commit
          /\ job'.oid.tree = job'.tree
      BY <2>1, <2>2, <2>3 DEF Job
    <2>5. overtaken' \subseteq Namespaces
      BY <1>2, <2>1 DEF WriteRef, Overlapping, TypeOK, Job
    <2> QED
      BY <1>2, <2>1, <2>2, <2>4, <2>5 DEF WriteRef, TypeOK, Carried, Job
  <1>3. CASE WriteState
    <2>1. job \in Job /\ job.oid \in Commit
      BY <1>3, JobInProgress, IdleIsAt DEF WriteState, Carried
    <2>2. [commitOid |-> job.oid,
           version |-> IF nsState[job.ns] = NoDoc THEN 1
                       ELSE nsState[job.ns].version + 1] \in Doc
      BY <2>1 DEF Doc, Job, TypeOK
    <2>3. nsState' \in [Namespaces -> Doc \cup {NoDoc}]
      BY <1>3, <2>1, <2>2 DEF WriteState, TypeOK, Job
    <2>4. job' \in Job /\ job'.at # "state" /\ (job'.at = "dest" => SourceHalf')
      BY <1>3, <2>1 DEF WriteState, Job, SourceHalf
    <2> QED
      BY <1>3, <2>3, <2>4 DEF WriteState, TypeOK, Carried
  <1>4. CASE ReadDestination
    <2>1. job \in Job /\ job.instr \in Instructions
      BY <1>4, JobInProgress, IdleIsAt DEF ReadDestination, Job
    <2>2. job.instr.ns \in Namespaces
      BY <1>4, <2>1, InstructionFields DEF ReadDestination, Carried, SourceHalf
    <2>3. Effect(job.instr, job.instr.ns, TreeOf(job.instr.ns), job.src) \in Tree
      BY <2>1, <2>2, TreeOfIsTree, EffectIsTree DEF Job
    <2>4. job' \in Job /\ job'.at = "ref"
      BY <1>4, <2>1, <2>2, <2>3 DEF ReadDestination, Job
    <2> QED
      BY <1>4, <2>4 DEF ReadDestination, TypeOK, Carried
  <1>5. ASSUME NEW ns \in Namespaces, DeleteRef(ns)
        PROVE  TypeOK' /\ Carried'
    <2>1. job \in Job
      BY <1>5, JobInProgress, IdleIsAt DEF DeleteRef
    <2>2. job' \in Job /\ job'.at = "wipe"
      BY <1>5, <2>1 DEF DeleteRef, Job
    <2> QED
      BY <1>5, <2>2 DEF DeleteRef, Overlapping, TypeOK, Carried
  <1>6. CASE DeleteStates
    <2>1. job \in Job
      BY <1>6, JobInProgress, IdleIsAt DEF DeleteStates
    <2>2. job' \in Job /\ job'.at = "views"
      BY <1>6, <2>1 DEF DeleteStates, Job
    <2> QED
      BY <1>6, <2>2 DEF DeleteStates, TypeOK, Carried
  <1>7. CASE DeleteViews
    <2>1. job \in Job
      BY <1>7, JobInProgress, IdleIsAt DEF DeleteViews
    <2>2. job' \in Job /\ job'.at = "ack"
      BY <1>7, <2>1 DEF DeleteViews, Job
    <2> QED
      BY <1>7, <2>2 DEF DeleteViews, TypeOK, Carried
  <1>8. CASE Acknowledge
    <2>1. job.instr \in Instructions
      BY <1>8, JobInProgress, IdleIsAt DEF Acknowledge, Job
    <2> QED
      BY <1>8, <2>1, IdleIsAt DEF Acknowledge, TypeOK, Carried
  <1>9. CASE Fail
    BY <1>9, IdleIsAt DEF Fail, TypeOK, Carried
  <1>10. ASSUME NEW ns \in Namespaces, SquashBegin(ns)
         PROVE  TypeOK' /\ Carried'
    <2> DEFINE s == [at |-> "ref", tree |-> nsState[ns].commitOid.tree, oid |-> NoCommit]
    <2>1. s \in Squash /\ s.at = "ref"
      BY <1>10 DEF SquashBegin, TypeOK, Doc, Commit, Squash
    <2>2. squash' = [squash EXCEPT ![ns] = s]
      BY <1>10 DEF SquashBegin
    <2>3. squash' \in [Namespaces -> Squash \cup {NoSquash}]
      BY <2>1, <2>2 DEF TypeOK
    <2>4. \A n \in Namespaces : squash'[n].at = "state" => squash'[n].oid \in Commit
      BY <2>1, <2>2 DEF TypeOK, Carried
    <2> QED
      BY <1>10, <2>3, <2>4 DEF SquashBegin, TypeOK, Carried, SourceHalf
  <1>11. ASSUME NEW ns \in Namespaces, SquashRef(ns)
         PROVE  TypeOK' /\ Carried'
    <2> DEFINE c == NewCommit(squash[ns].tree)
               s == [squash[ns] EXCEPT !.at = "state", !.oid = c]
    <2>1. squash[ns] \in Squash
      BY <1>11, IdleIsAt DEF SquashRef, TypeOK
    <2>2. c \in Commit
      BY <2>1, NewCommitIsCommit DEF Squash
    <2>3. s \in Squash /\ s.oid \in Commit
      BY <2>1, <2>2 DEF Squash
    <2>4. squash' = [squash EXCEPT ![ns] = s]
      BY <1>11, <2>1 DEF SquashRef, TypeOK, Squash
    <2>5. squash' \in [Namespaces -> Squash \cup {NoSquash}]
      BY <2>3, <2>4 DEF TypeOK
    <2>6. \A n \in Namespaces : squash'[n].at = "state" => squash'[n].oid \in Commit
      BY <2>3, <2>4 DEF TypeOK, Carried
    <2> QED
      BY <1>11, <2>2, <2>5, <2>6 DEF SquashRef, TypeOK, Carried, SourceHalf
  <1>12. ASSUME NEW ns \in Namespaces, SquashState(ns)
         PROVE  TypeOK' /\ Carried'
    <2>1. [commitOid |-> squash[ns].oid, version |-> 1] \in Doc
      BY <1>12 DEF SquashState, Carried, Doc
    <2> QED
      BY <1>12, <2>1, IdleIsAt DEF SquashState, TypeOK, Carried, SourceHalf
  <1>13. ASSUME NEW ns \in Namespaces, SquashFail(ns)
         PROVE  TypeOK' /\ Carried'
    BY <1>13, IdleIsAt DEF SquashFail, TypeOK, Carried, SourceHalf
  <1>14. CASE Crash
    BY <1>14, IdleIsAt DEF Crash, TypeOK, Carried
  <1>15. CASE UNCHANGED vars
    BY <1>15 DEF vars, TypeOK, Carried, SourceHalf
  <1> QED
    BY <1>1, <1>2, <1>3, <1>4, <1>5, <1>6, <1>7, <1>8, <1>9, <1>10, <1>11,
       <1>12, <1>13, <1>14, <1>15 DEF Next, Build, Maintain

(* The refs, the state documents, the builder's locals and the squashes keep *)
(* their types: no handler commits a tree it has not computed, or records a  *)
(* commit it has not made.                                                   *)
THEOREM TypeCorrect == Spec => []TypeOK
  <1>1. TypeOK /\ Carried /\ [Next]_vars => TypeOK' /\ Carried'
    BY TypeStep
  <1> QED
    BY TypeInit, <1>1, PTL DEF Spec

-----------------------------------------------------------------------------
(* Confinement. *)

(* What flows through the locals of the builder and of the squashes is       *)
(* confined as well: the tree about to be committed, the source tree a grant *)
(* change carries to its destination, and the commits themselves.            *)
NamespacesConfined(A) ==
    \A ns \in Namespaces :
        /\ Confined(A, ns, TreeOf(ns))
        /\ nsState[ns] # NoDoc => Confined(A, ns, nsState[ns].commitOid.tree)
        /\ squash[ns].at = "ref" => Confined(A, ns, squash[ns].tree)
        /\ squash[ns].at = "state" => Confined(A, ns, squash[ns].oid.tree)

JobConfined(A) ==
    /\ job.at = "ref" => Confined(A, job.ns, job.tree)
    /\ job.at = "state" => Confined(A, job.ns, job.oid.tree)
    /\ (job # Idle /\ job.instr.op = "grant-change-prefix") =>
          Confined(A, job.instr.fromNs, job.src)

LEMMA EmptyIsConfined ==
    ASSUME NEW A, NEW ns PROVE Confined(A, ns, EmptyTree)
  BY DEF Confined, EmptyTree

(* One instruction takes a confined tree to a confined tree, provided the    *)
(* source tree of a grant change is confined to the source namespace.        *)
LEMMA EffectIsConfined ==
    ASSUME NEW A \in [Namespaces -> SUBSET Bodies], Allows(A),
           NEW i \in Instructions, NEW ns \in Namespaces,
           NEW t \in Tree, Confined(A, ns, t),
           NEW src \in Tree,
           i.op = "grant-change-prefix" =>
              ns \in {i.fromNs, i.ns} /\ Confined(A, i.fromNs, src),
           i.op \in {"upsert", "bulk-upsert"} => ns = i.ns
    PROVE  Confined(A, ns, Effect(i, ns, t, src))
  <1>1. CASE i.op = "upsert"
    <2>1. i.path \in Paths /\ i.rev \in A[ns]
      BY <1>1, InstructionFields DEF Allows
    <2> QED
      BY <1>1, <2>1 DEF Effect, UpsertEntry, Tree, Confined
  <1>2. CASE i.op = "remove"
    BY <1>2, InstructionFields DEF Effect, RemoveEntry, Tree, Confined
  <1>3. CASE i.op = "bulk-upsert"
    <2>1. \A p \in DOMAIN BulkPatches(i.entries) :
             BulkPatches(i.entries)[p] \in A[ns]
      BY <1>3 DEF Allows
    <2>2. Confined(A, ns, ApplyPatches(t, BulkPatches(i.entries)))
      BY <2>1 DEF ApplyPatches, Tree, Confined
    <2> QED
      BY <1>3, <2>2 DEF Effect
  <1>4. CASE i.op = "rename-prefix"
    BY <1>4 DEF Effect, RenamePrefix, MountSubtree, RemoveSubtree, Tree, Confined
  <1>5. CASE i.op = "grant-change-prefix"
    <2>1. A[i.fromNs] \subseteq A[i.ns]
      BY <1>5 DEF Allows
    <2>2. CASE ns = i.fromNs
      BY <1>5, <2>2 DEF Effect, RemoveSubtree, Tree, Confined
    <2>3. CASE ns = i.ns /\ ns # i.fromNs
      BY <1>5, <2>1, <2>3 DEF Effect, GrantMount, MountSubtree, Tree, Confined
    <2> QED
      BY <1>5, <2>2, <2>3
  <1>6. CASE i.op = "reset-all"
    BY <1>6, EmptyIsConfined DEF Effect
  <1> QED
    BY <1>1, <1>2, <1>3, <1>4, <1>5, <1>6, InstructionFields

LEMMA ConfinedInit ==
    ASSUME NEW A, Init
    PROVE  NamespacesConfined(A) /\ JobConfined(A)
  BY EmptyIsConfined
  DEF Init, NamespacesConfined, JobConfined, TreeOf, Idle, NoSquash

(* A call that begins has computed its tree from a confined one. *)
LEMMA ConfinedBegin ==
    ASSUME NEW A \in [Namespaces -> SUBSET Bodies], Allows(A), TypeOK,
           NamespacesConfined(A), NEW i \in Instructions, Begin(i)
    PROVE  JobConfined(A)'
  <1>1. CASE BeginSkipped(i)
    BY <1>1 DEF BeginSkipped, Skipped, Working, JobConfined
  <1>2. CASE BeginInOne(i)
    <2>1. i.ns \in Namespaces
      BY <1>2, InstructionFields DEF BeginInOne
    <2>2. Confined(A, i.ns, Effect(i, i.ns, TreeOf(i.ns), EmptyTree))
      <3>1. Confined(A, i.ns, TreeOf(i.ns))
        BY <2>1 DEF NamespacesConfined
      <3>2. i.op # "grant-change-prefix"
        BY <1>2 DEF BeginInOne
      <3> QED
        BY <2>1, <3>1, <3>2, TreeOfIsTree, EmptyTreeIsTree, EffectIsConfined
    <2> QED
      BY <1>2, <2>2 DEF BeginInOne, Working, JobConfined
  <1>3. CASE BeginGrantChange(i)
    <2>1. i.fromNs \in Namespaces
      BY <1>3, InstructionFields DEF BeginGrantChange
    <2>2. Confined(A, i.fromNs, TreeOf(i.fromNs))
      BY <2>1 DEF NamespacesConfined
    <2>3. Confined(A, i.fromNs, Effect(i, i.fromNs, TreeOf(i.fromNs), TreeOf(i.fromNs)))
      BY <1>3, <2>1, <2>2, TreeOfIsTree, EffectIsConfined DEF BeginGrantChange
    <2> QED
      BY <1>3, <2>2, <2>3 DEF BeginGrantChange, Working, JobConfined
  <1>4. CASE BeginReset(i, CHOOSE ns \in Namespaces : TRUE)
    BY <1>4 DEF BeginReset, Working, JobConfined
  <1> QED
    BY <1>1, <1>2, <1>3, <1>4 DEF Begin

LEMMA ConfinedStep ==
    ASSUME NEW A \in [Namespaces -> SUBSET Bodies], Allows(A),
           TypeOK, Carried, NamespacesConfined(A), JobConfined(A), [Next]_vars
    PROVE  NamespacesConfined(A)' /\ JobConfined(A)'
  <1>1. ASSUME NEW i \in Instructions, Begin(i)
        PROVE  NamespacesConfined(A)' /\ JobConfined(A)'
    <2>1. UNCHANGED <<ref, nsState, squash>>
      BY <1>1 DEF Begin, BeginSkipped, BeginInOne, BeginGrantChange, BeginReset
    <2>2. NamespacesConfined(A)'
      BY <2>1 DEF NamespacesConfined, TreeOf
    <2> QED
      BY <1>1, <2>2, ConfinedBegin
  <1>2. CASE WriteRef
    <2>1. job \in Job
      BY <1>2, JobInProgress, IdleIsAt DEF WriteRef
    <2>2. NewCommit(job.tree) \in Commit /\ NewCommit(job.tree).tree = job.tree
      BY <2>1, NewCommitIsCommit DEF Job, NewCommit
    <2>3. Confined(A, job.ns, job.tree)
      BY <1>2 DEF WriteRef, JobConfined
    <2>4. NewCommit(job.tree) # NoCommit
      BY <2>2, BuilderAssumption DEF Commit
    <2>5. ref' = [ref EXCEPT ![job.ns] = NewCommit(job.tree)]
      BY <1>2 DEF WriteRef
    <2>6. NamespacesConfined(A)'
      BY <1>2, <2>1, <2>2, <2>3, <2>4, <2>5
      DEF WriteRef, NamespacesConfined, TreeOf, TypeOK, Job
    <2>7. JobConfined(A)'
      BY <1>2, <2>1, <2>2, <2>3, IdleIsAt DEF WriteRef, JobConfined, Job
    <2> QED
      BY <2>6, <2>7
  <1>3. CASE WriteState
    <2>1. job \in Job
      BY <1>3, JobInProgress, IdleIsAt DEF WriteState
    <2>2. Confined(A, job.ns, job.oid.tree)
      BY <1>3 DEF WriteState, JobConfined
    <2>3. NamespacesConfined(A)'
      BY <1>3, <2>1, <2>2 DEF WriteState, NamespacesConfined, TreeOf, TypeOK, Job
    <2>4. JobConfined(A)'
      BY <1>3, <2>1, IdleIsAt DEF WriteState, JobConfined, Job
    <2> QED
      BY <2>3, <2>4
  <1>4. CASE ReadDestination
    <2> DEFINE i == job.instr
               t == Effect(i, i.ns, TreeOf(i.ns), job.src)
    <2>1. job \in Job /\ i \in Instructions /\ job.src \in Tree
      BY <1>4, JobInProgress, IdleIsAt DEF ReadDestination, Job
    <2>2. i.op = "grant-change-prefix"
      BY <1>4 DEF ReadDestination, Carried, SourceHalf
    <2>3. i.ns \in Namespaces
      BY <2>1, <2>2, InstructionFields
    <2>4. Confined(A, i.ns, TreeOf(i.ns)) /\ Confined(A, i.fromNs, job.src)
      BY <1>4, <2>2, <2>3, IdleIsAt
      DEF ReadDestination, NamespacesConfined, JobConfined
    <2>5. Confined(A, i.ns, t)
      BY <2>1, <2>2, <2>3, <2>4, TreeOfIsTree, EffectIsConfined
    <2>6. job' = [job EXCEPT !.at = "ref", !.ns = i.ns, !.tree = t]
      BY <1>4 DEF ReadDestination
    <2>7. /\ job'.at = "ref" /\ job'.ns = i.ns /\ job'.tree = t
          /\ job'.instr = i /\ job'.src = job.src
      BY <2>1, <2>6 DEF Job
    <2>8. JobConfined(A)'
      BY <2>4, <2>5, <2>7 DEF JobConfined
    <2>9. NamespacesConfined(A)'
      BY <1>4 DEF ReadDestination, NamespacesConfined, TreeOf
    <2> QED
      BY <2>8, <2>9
  <1>5. ASSUME NEW ns \in Namespaces, DeleteRef(ns)
        PROVE  NamespacesConfined(A)' /\ JobConfined(A)'
    <2>1. job \in Job
      BY <1>5, JobInProgress, IdleIsAt DEF DeleteRef
    <2>2. JobConfined(A)'
      BY <1>5, <2>1, IdleIsAt DEF DeleteRef, JobConfined, Job
    <2>3. NamespacesConfined(A)'
      BY <1>5, EmptyIsConfined DEF DeleteRef, NamespacesConfined, TreeOf, TypeOK
    <2> QED
      BY <2>2, <2>3
  <1>6. CASE DeleteStates
    <2>1. job \in Job
      BY <1>6, JobInProgress, IdleIsAt DEF DeleteStates
    <2>2. JobConfined(A)'
      BY <1>6, <2>1, IdleIsAt DEF DeleteStates, JobConfined, Job
    <2>3. NamespacesConfined(A)'
      BY <1>6 DEF DeleteStates, NamespacesConfined, TreeOf
    <2> QED
      BY <2>2, <2>3
  <1>7. CASE DeleteViews
    <2>1. job \in Job
      BY <1>7, JobInProgress, IdleIsAt DEF DeleteViews
    <2> QED
      BY <1>7, <2>1, IdleIsAt DEF DeleteViews, JobConfined, Job, NamespacesConfined, TreeOf
  <1>8. CASE Acknowledge \/ Fail
    BY <1>8, IdleIsAt DEF Acknowledge, Fail, JobConfined, NamespacesConfined, TreeOf
  <1>9. ASSUME NEW ns \in Namespaces, SquashBegin(ns)
        PROVE  NamespacesConfined(A)' /\ JobConfined(A)'
    BY <1>9 DEF SquashBegin, JobConfined, NamespacesConfined, TreeOf, TypeOK
  <1>10. ASSUME NEW ns \in Namespaces, SquashRef(ns)
         PROVE  NamespacesConfined(A)' /\ JobConfined(A)'
    <2> DEFINE c == NewCommit(squash[ns].tree)
    <2>1. squash[ns] \in Squash
      BY <1>10, IdleIsAt DEF SquashRef, TypeOK
    <2>2. c \in Commit /\ c.tree = squash[ns].tree
      BY <2>1, NewCommitIsCommit DEF Squash, NewCommit
    <2>3. c # NoCommit
      BY <2>2, BuilderAssumption DEF Commit
    <2>4. Confined(A, ns, c.tree)
      BY <1>10, <2>2 DEF SquashRef, NamespacesConfined
    <2>5. squash' = [squash EXCEPT ![ns].at = "state", ![ns].oid = c]
          /\ ref' = [ref EXCEPT ![ns] = c]
      BY <1>10 DEF SquashRef
    <2>6. squash'[ns].at = "state" /\ squash'[ns].oid = c
      BY <2>1, <2>5 DEF TypeOK, Squash
    <2>7. \A n \in Namespaces \ {ns} : squash'[n] = squash[n] /\ ref'[n] = ref[n]
      BY <2>5 DEF TypeOK
    <2>8. ref'[ns] = c
      BY <2>5 DEF TypeOK
    <2>9. UNCHANGED <<nsState, job>>
      BY <1>10 DEF SquashRef
    <2>10. NamespacesConfined(A)'
      BY <2>2, <2>3, <2>4, <2>6, <2>7, <2>8, <2>9 DEF NamespacesConfined, TreeOf
    <2> QED
      BY <2>9, <2>10 DEF JobConfined
  <1>11. ASSUME NEW ns \in Namespaces, SquashState(ns)
         PROVE  NamespacesConfined(A)' /\ JobConfined(A)'
    BY <1>11, IdleIsAt DEF SquashState, JobConfined, NamespacesConfined, TreeOf, TypeOK
  <1>12. ASSUME NEW ns \in Namespaces, SquashFail(ns)
         PROVE  NamespacesConfined(A)' /\ JobConfined(A)'
    BY <1>12, IdleIsAt DEF SquashFail, JobConfined, NamespacesConfined, TreeOf, TypeOK
  <1>13. CASE Crash
    BY <1>13, IdleIsAt DEF Crash, JobConfined, NamespacesConfined, TreeOf
  <1>14. CASE UNCHANGED vars
    BY <1>14 DEF vars, JobConfined, NamespacesConfined, TreeOf
  <1> QED
    BY <1>1, <1>2, <1>3, <1>4, <1>5, <1>6, <1>7, <1>8, <1>9, <1>10, <1>11,
       <1>12, <1>13, <1>14 DEF Next, Build, Maintain

(* Whatever the family of allowed bodies, as long as the instructions        *)
(* themselves respect it, no interleaving of the builder, the squashes,      *)
(* failures and crashes carries a body into another namespace.               *)
THEOREM BodiesConfined == Spec => []BodiesStayInTheirNamespace
  <1> DEFINE AllConfined ==
        \A A \in [Namespaces -> SUBSET Bodies] :
            Allows(A) => NamespacesConfined(A) /\ JobConfined(A)
             IInv == TypeOK /\ Carried /\ AllConfined
  <1>1. Init => IInv
    BY TypeInit, ConfinedInit
  <1>2. IInv /\ [Next]_vars => IInv'
    <2> SUFFICES ASSUME IInv, [Next]_vars PROVE IInv'
      OBVIOUS
    <2>1. TypeOK' /\ Carried'
      BY TypeStep
    <2>2. ASSUME NEW A \in [Namespaces -> SUBSET Bodies], Allows(A)
          PROVE  NamespacesConfined(A)' /\ JobConfined(A)'
      BY <2>2, ConfinedStep
    <2>3. AllConfined'
      BY <2>2 DEF Allows
    <2> QED
      BY <2>1, <2>3
  <1>3. IInv => BodiesStayInTheirNamespace
    <2> SUFFICES ASSUME TypeOK, AllConfined, NEW ns \in Namespaces
                 PROVE  /\ Confined(Opened, ns, TreeOf(ns))
                        /\ nsState[ns] # NoDoc =>
                              Confined(Opened, ns, nsState[ns].commitOid.tree)
      BY DEF BodiesStayInTheirNamespace
    <2>1. ASSUME NEW tree \in Tree,
                 \A A \in [Namespaces -> SUBSET Bodies] :
                     Allows(A) => Confined(A, ns, tree)
          PROVE  Confined(Opened, ns, tree)
      BY <2>1 DEF Confined, Opened, AllowedFamilies, Tree
    <2>2. TreeOf(ns) \in Tree
      BY TreeOfIsTree
    <2>3. nsState[ns] # NoDoc => nsState[ns].commitOid.tree \in Tree
      BY DEF TypeOK, Doc, Commit
    <2> QED
      BY <2>1, <2>2, <2>3 DEF NamespacesConfined
  <1> QED
    BY <1>1, <1>2, <1>3, PTL DEF Spec

-----------------------------------------------------------------------------
(* The inductive invariant: what holds of a namespace that no squash has     *)
(* overtaken.                                                                *)

(* The tree is what the ref shows and what is recorded. *)
Settled(ns, tree) ==
    /\ TreeOf(ns) = tree
    /\ nsState[ns] # NoDoc /\ nsState[ns].commitOid.tree = tree

(* The tree about to be committed is the effect of the instruction on the    *)
(* tree the ref still shows; the tree about to be recorded is the ref's.     *)
JobIsCurrent ==
    /\ job.at \in {"ref", "state"} =>
          job.instr.op # "reset-all" /\ job.ns \in Touches(job.instr)
    /\ (job.at = "ref" /\ job.ns \notin overtaken) =>
          job.tree = Effect(job.instr, job.ns, TreeOf(job.ns), job.src)
    /\ (job.at = "state" /\ job.ns \notin overtaken) => TreeOf(job.ns) = job.tree

(* The source half of a grant change has left nothing open when the other    *)
(* half begins.                                                              *)
SecondHalf ==
    \/ job.at = "dest"
    \/ /\ job.at \in {"ref", "state"}
       /\ job.instr.op = "grant-change-prefix" /\ ~SourceHalf

SourceTree == Effect(job.instr, job.instr.fromNs, job.src, job.src)

SourceIsRecorded ==
    /\ (job.at \in {"ref", "state", "dest"} /\ SourceHalf) => job.tree = SourceTree
    /\ (SecondHalf /\ job.instr.fromNs \notin overtaken) =>
          Settled(job.instr.fromNs, SourceTree)

(* A reset-all has no documents left once it gets to the views. *)
ResetIsDone ==
    /\ job.at \in {"wipe", "views"} => job.instr.op = "reset-all"
    /\ (job.at \in {"views", "ack"} /\ job.instr.op = "reset-all") =>
          \A ns \in Namespaces \ overtaken : nsState[ns] = NoDoc

(* A squash in flight carries the tree that the ref shows and that is        *)
(* recorded.                                                                 *)
SquashIsCurrent ==
    \A ns \in Namespaces \ overtaken :
        /\ squash[ns].at = "ref" => Settled(ns, squash[ns].tree)
        /\ squash[ns].at = "state" => Settled(ns, squash[ns].oid.tree)

JobInv == JobIsCurrent /\ SourceIsRecorded /\ ResetIsDone /\ AcknowledgedIsRecorded

SInv == TypeOK /\ Carried /\ JobInv /\ SquashIsCurrent

-----------------------------------------------------------------------------
(* Lemmas. *)

LEMMA TouchesOf ==
    ASSUME NEW i \in Instructions
    PROVE  /\ Skipped(i) => Touches(i) = {}
           /\ i.op = "reset-all" => Touches(i) = Namespaces
           /\ i.op = "grant-change-prefix" => Touches(i) = {i.fromNs, i.ns}
           /\ (/\ ~Skipped(i)
               /\ i.op \in {"upsert", "remove", "bulk-upsert", "rename-prefix"})
                 => Touches(i) = {i.ns}
  <1>1. i.op \in {"grant-change-prefix", "reset-all"} => ~Skipped(i)
    BY DEF Skipped
  <1>2. CASE Skipped(i)
    <2>1. i.op # "grant-change-prefix" /\ i.op # "reset-all"
      BY <1>1, <1>2
    <2>2. Touches(i) = {}
      BY <1>2, <2>1 DEF Touches
    <2> QED
      BY <1>2, <2>1, <2>2
  <1>3. CASE ~Skipped(i) /\ i.op = "reset-all"
    <2>1. Touches(i) = Namespaces
      BY <1>3 DEF Touches
    <2> QED
      BY <1>3, <2>1
  <1>4. CASE ~Skipped(i) /\ i.op = "grant-change-prefix"
    <2>1. Touches(i) = {i.fromNs, i.ns}
      BY <1>4 DEF Touches
    <2> QED
      BY <1>4, <2>1
  <1>5. CASE ~Skipped(i) /\ i.op # "reset-all" /\ i.op # "grant-change-prefix"
    <2>1. Touches(i) = {i.ns}
      BY <1>5 DEF Touches
    <2> QED
      BY <1>5, <2>1
  <1> QED
    BY <1>2, <1>3, <1>4, <1>5

(* Only the destination of a grant change looks at the source tree. *)
LEMMA SourceIrrelevant ==
    ASSUME NEW i \in Instructions, NEW ns, NEW t, NEW src, NEW other,
           i.op # "grant-change-prefix"
    PROVE  Effect(i, ns, t, src) = Effect(i, ns, t, other)
  <1>1. i.op \in {"upsert", "remove", "bulk-upsert", "rename-prefix", "reset-all"}
    BY InstructionFields
  <1>2. CASE i.op = "upsert"
    BY <1>2 DEF Effect
  <1>3. CASE i.op = "remove"
    BY <1>3 DEF Effect
  <1>4. CASE i.op = "bulk-upsert"
    BY <1>4 DEF Effect
  <1>5. CASE i.op = "rename-prefix"
    BY <1>5 DEF Effect
  <1>6. CASE i.op = "reset-all"
    BY <1>6 DEF Effect
  <1> QED
    BY <1>1, <1>2, <1>3, <1>4, <1>5, <1>6

LEMMA SInvInit == Init => SInv
  <1> SUFFICES ASSUME Init PROVE SInv
    OBVIOUS
  <1>1. TypeOK /\ Carried
    BY TypeInit
  <1>2. job.at = "idle" /\ \A ns \in Namespaces : squash[ns].at = "idle"
    BY IdleIsAt DEF Init
  <1> QED
    BY <1>1, <1>2
    DEF Init, SInv, JobInv, JobIsCurrent, SourceIsRecorded, SecondHalf, ResetIsDone,
        SquashIsCurrent, AcknowledgedIsRecorded

-----------------------------------------------------------------------------
(* The steps. *)

(* The call in progress is none, or has only begun. *)
LEMMA SInvBegin ==
    ASSUME SInv, NEW i \in Instructions, Begin(i)
    PROVE  JobInv' /\ SquashIsCurrent'
  <1>1. UNCHANGED <<ref, nsState, squash, overtaken>>
    BY DEF Begin, BeginSkipped, BeginInOne, BeginGrantChange, BeginReset
  <1>2. SquashIsCurrent'
    BY <1>1 DEF SInv, SquashIsCurrent, Settled, TreeOf
  <1>3. CASE BeginSkipped(i)
    <2>1. job'.at = "ack" /\ job'.instr = i /\ i.op # "reset-all"
      BY <1>3 DEF BeginSkipped, Skipped, Working
    <2>2. Touches(i) = {}
      BY <1>3, TouchesOf DEF BeginSkipped
    <2> QED
      BY <1>2, <2>1, <2>2
      DEF JobInv, JobIsCurrent, SourceIsRecorded, SecondHalf, ResetIsDone,
          AcknowledgedIsRecorded
  <1>4. CASE BeginInOne(i)
    <2>1. /\ job'.at = "ref" /\ job'.instr = i /\ job'.ns = i.ns
          /\ job'.tree = Effect(i, i.ns, TreeOf(i.ns), EmptyTree)
          /\ job'.src = EmptyTree
      BY <1>4 DEF BeginInOne, Working
    <2>2. i.op # "reset-all" /\ i.op # "grant-change-prefix" /\ Touches(i) = {i.ns}
      BY <1>4, TouchesOf DEF BeginInOne
    <2>3. TreeOf(i.ns)' = TreeOf(i.ns)
      BY <1>1 DEF TreeOf
    <2> QED
      BY <1>2, <2>1, <2>2, <2>3
      DEF JobInv, JobIsCurrent, SourceIsRecorded, SecondHalf, SourceHalf, ResetIsDone,
          AcknowledgedIsRecorded
  <1>5. CASE BeginGrantChange(i)
    <2>1. /\ job'.at = "ref" /\ job'.instr = i /\ job'.ns = i.fromNs
          /\ job'.tree = Effect(i, i.fromNs, TreeOf(i.fromNs), TreeOf(i.fromNs))
          /\ job'.src = TreeOf(i.fromNs)
      BY <1>5 DEF BeginGrantChange, Working
    <2>2. i.op = "grant-change-prefix" /\ Touches(i) = {i.fromNs, i.ns}
      BY <1>5, TouchesOf DEF BeginGrantChange
    <2>3. TreeOf(i.fromNs)' = TreeOf(i.fromNs)
      BY <1>1 DEF TreeOf
    <2> QED
      BY <1>2, <2>1, <2>2, <2>3
      DEF JobInv, JobIsCurrent, SourceIsRecorded, SecondHalf, SourceTree, ResetIsDone,
          AcknowledgedIsRecorded, SourceHalf
  <1>6. CASE BeginReset(i, CHOOSE ns \in Namespaces : TRUE)
    <2>1. job'.at = "wipe" /\ job'.instr = i /\ i.op = "reset-all"
      BY <1>6 DEF BeginReset, Working
    <2> QED
      BY <1>2, <2>1
      DEF JobInv, JobIsCurrent, SourceIsRecorded, SecondHalf, ResetIsDone,
          AcknowledgedIsRecorded
  <1> QED
    BY <1>3, <1>4, <1>5, <1>6 DEF Begin

LEMMA SInvWriteRef ==
    ASSUME SInv, WriteRef
    PROVE  JobInv' /\ SquashIsCurrent'
  <1> DEFINE c == NewCommit(job.tree)
  <1>1. job \in Job /\ job.at = "ref" /\ job # Idle /\ TypeOK
    BY JobInProgress, IdleIsAt DEF SInv, WriteRef
  <1>2. /\ job.instr \in Instructions /\ job.ns \in Namespaces
        /\ job.instr.op # "reset-all" /\ job.ns \in Touches(job.instr)
    BY <1>1 DEF SInv, JobInv, JobIsCurrent, Job
  <1>3. /\ ref' = [ref EXCEPT ![job.ns] = c] /\ UNCHANGED <<nsState, squash>>
        /\ overtaken \subseteq overtaken'
        /\ squash[job.ns] # NoSquash => job.ns \in overtaken'
    BY DEF WriteRef, Overlapping
  <1>4. /\ job'.at = "state" /\ job'.oid = c /\ job'.instr = job.instr
        /\ job'.ns = job.ns /\ job'.tree = job.tree /\ job'.src = job.src
    BY <1>1 DEF WriteRef, Job
  <1>5. /\ TreeOf(job.ns)' = job.tree
        /\ \A n \in Namespaces \ {job.ns} : TreeOf(n)' = TreeOf(n)
    <2>1. c # NoCommit /\ c.tree = job.tree
      BY <1>1, NewCommitIsCommit, BuilderAssumption DEF NewCommit, Commit, Job
    <2> QED
      BY <1>1, <1>2, <1>3, <1>4, <2>1 DEF TreeOf, TypeOK
  <1>6. JobIsCurrent'
    BY <1>2, <1>4, <1>5 DEF JobIsCurrent
  <1>7. SourceIsRecorded'
    <2>1. (SourceHalf <=> SourceHalf') /\ (SecondHalf => SecondHalf')
          /\ (SecondHalf' => SecondHalf) /\ SourceTree' = SourceTree
      BY <1>1, <1>4 DEF SourceHalf, SecondHalf, SourceTree
    <2>2. SourceHalf => job.tree = SourceTree
      BY <1>1 DEF SInv, JobInv, SourceIsRecorded
    <2>3. ASSUME SecondHalf, job.instr.fromNs \notin overtaken'
          PROVE  Settled(job.instr.fromNs, SourceTree)'
      <3>1. job.instr.op = "grant-change-prefix" /\ job.ns # job.instr.fromNs
        BY <1>1, <2>3 DEF SecondHalf, SourceHalf
      <3>2. job.instr.fromNs \in Namespaces
        BY <1>2, <3>1, InstructionFields
      <3>3. Settled(job.instr.fromNs, SourceTree)
        BY <1>3, <2>3 DEF SInv, JobInv, SourceIsRecorded
      <3> QED
        BY <1>3, <1>4, <1>5, <2>1, <3>1, <3>2, <3>3 DEF Settled
    <2> QED
      BY <1>4, <2>1, <2>2, <2>3 DEF SourceIsRecorded
  <1>8. ResetIsDone' /\ AcknowledgedIsRecorded'
    BY <1>4 DEF ResetIsDone, AcknowledgedIsRecorded
  <1>9. SquashIsCurrent'
    <2> SUFFICES ASSUME NEW n \in Namespaces \ overtaken', squash[n].at # "idle"
                 PROVE  /\ squash[n].at = "ref" => Settled(n, squash[n].tree)'
                        /\ squash[n].at = "state" => Settled(n, squash[n].oid.tree)'
      BY <1>3 DEF SquashIsCurrent, Settled
    <2>1. n # job.ns /\ n \notin overtaken
      BY <1>3, IdleIsAt
    <2> QED
      BY <1>3, <1>5, <2>1 DEF SInv, SquashIsCurrent, Settled
  <1> QED
    BY <1>6, <1>7, <1>8, <1>9 DEF JobInv

(* What updateRef left and upsertNamespace has recorded is settled, unless a *)
(* squash has overtaken it.                                                  *)
LEMMA RecordingSettles ==
    ASSUME SInv, WriteState
    PROVE  /\ job \in Job /\ job.at = "state" /\ job # Idle
           /\ job.instr \in Instructions /\ job.ns \in Namespaces
           /\ job.instr.op # "reset-all" /\ job.ns \in Touches(job.instr)
           /\ job.oid \in Commit /\ job.oid.tree = job.tree
           /\ UNCHANGED <<ref, squash, commits, processed>>
           /\ \A n \in Namespaces \ {job.ns} :
                 nsState'[n] = nsState[n] /\ (n \in overtaken' <=> n \in overtaken)
           /\ nsState'[job.ns] # NoDoc /\ nsState'[job.ns].commitOid = job.oid
           /\ job.ns \notin overtaken' => TreeOf(job.ns) = job.tree
           /\ (job.ns \in overtaken /\ job.ns \notin overtaken') =>
                 squash[job.ns] = NoSquash
           /\ job.ns \notin overtaken => job.ns \notin overtaken'
           /\ job'.at = (IF SourceHalf THEN "dest" ELSE "ack")
           /\ job'.instr = job.instr /\ job'.ns = job.ns
           /\ job'.tree = job.tree /\ job'.src = job.src
  <1>1. TypeOK /\ job \in Job /\ job.at = "state" /\ job # Idle
    BY JobInProgress, IdleIsAt DEF SInv, WriteState
  <1>2. /\ job.instr \in Instructions /\ job.ns \in Namespaces
        /\ job.instr.op # "reset-all" /\ job.ns \in Touches(job.instr)
        /\ job.oid \in Commit /\ job.oid.tree = job.tree
        /\ job.ns \notin overtaken => TreeOf(job.ns) = job.tree
    BY <1>1 DEF SInv, JobInv, JobIsCurrent, Carried, Job
  <1>3. /\ UNCHANGED <<ref, squash, commits, processed>>
        /\ overtaken' = IF squash[job.ns] = NoSquash /\ ref[job.ns] = job.oid
                        THEN overtaken \ {job.ns} ELSE overtaken
    BY DEF WriteState
  <1>4. nsState'[job.ns] # NoDoc /\ nsState'[job.ns].commitOid = job.oid
    <2>1. [commitOid |-> job.oid,
           version |-> IF nsState[job.ns] = NoDoc THEN 1
                       ELSE nsState[job.ns].version + 1] \in Doc
      BY <1>1, <1>2 DEF Doc, TypeOK
    <2> QED
      BY <1>1, <1>2, <2>1, BuilderAssumption DEF WriteState, TypeOK, Doc, Commit
  <1>5. \A n \in Namespaces \ {job.ns} : nsState'[n] = nsState[n]
    BY <1>1, <1>2 DEF WriteState, TypeOK
  <1>6. ref[job.ns] = job.oid => TreeOf(job.ns) = job.tree
    BY <1>2, BuilderAssumption DEF TreeOf, Commit
  <1>7. /\ job'.at = (IF SourceHalf THEN "dest" ELSE "ack")
        /\ job'.instr = job.instr /\ job'.ns = job.ns
        /\ job'.tree = job.tree /\ job'.src = job.src
    BY <1>1 DEF WriteState, Job
  <1> QED
    BY <1>1, <1>2, <1>3, <1>4, <1>5, <1>6, <1>7

LEMMA SInvWriteState ==
    ASSUME SInv, WriteState
    PROVE  JobInv' /\ SquashIsCurrent'
  <1>1. /\ job \in Job /\ job.at = "state" /\ job # Idle
        /\ job.instr \in Instructions /\ job.ns \in Namespaces
        /\ job.instr.op # "reset-all" /\ job.ns \in Touches(job.instr)
    BY RecordingSettles
  <1>2. /\ UNCHANGED <<ref, squash>>
        /\ \A n \in Namespaces \ {job.ns} :
              nsState'[n] = nsState[n] /\ (n \in overtaken' <=> n \in overtaken)
    BY RecordingSettles
  <1>3. /\ job'.at = (IF SourceHalf THEN "dest" ELSE "ack")
        /\ job'.instr = job.instr /\ job'.ns = job.ns
        /\ job'.tree = job.tree /\ job'.src = job.src
    BY RecordingSettles
  <1>4. /\ \A n : TreeOf(n)' = TreeOf(n)
        /\ SourceHalf' <=> SourceHalf
        /\ SourceTree' = SourceTree
    BY <1>2, <1>3 DEF TreeOf, SourceHalf, SourceTree
  <1>5. job.ns \notin overtaken' => Settled(job.ns, job.tree)'
    <2>1. /\ nsState'[job.ns] # NoDoc /\ nsState'[job.ns].commitOid = job.oid
          /\ job.oid.tree = job.tree
          /\ job.ns \notin overtaken' => TreeOf(job.ns) = job.tree
      BY RecordingSettles
    <2> QED
      BY <1>3, <1>4, <2>1 DEF Settled
  <1>6. JobIsCurrent'
    BY <1>3 DEF JobIsCurrent
  <1>7. SourceIsRecorded'
    <2> SUFFICES ASSUME SourceHalf
                 PROVE  /\ job.tree = SourceTree
                        /\ job.instr.fromNs \notin overtaken' =>
                              Settled(job.instr.fromNs, SourceTree)'
      BY <1>3, <1>4 DEF SourceIsRecorded, SecondHalf
    <2>1. job.tree = SourceTree /\ job.ns = job.instr.fromNs
      BY <1>1 DEF SInv, JobInv, SourceIsRecorded, SourceHalf
    <2> QED
      BY <1>3, <1>4, <1>5, <2>1 DEF Settled
  <1>8. ResetIsDone'
    BY <1>1, <1>3 DEF ResetIsDone
  <1>9. AcknowledgedIsRecorded'
    <2> SUFFICES ASSUME ~SourceHalf, NEW n \in Touches(job.instr), n \notin overtaken'
                 PROVE  Settled(n, Written(n))'
      BY <1>3 DEF AcknowledgedIsRecorded, Settled
    <2>1. Written(job.ns)' = job.tree
      BY <1>3 DEF Written
    <2>2. CASE n = job.ns
      BY <1>3, <1>5, <2>1, <2>2 DEF Settled
    <2>3. CASE n # job.ns
      <3>1. job.instr.op = "grant-change-prefix"
        BY <1>1, <2>3, TouchesOf, InstructionFields
      <3>2. Touches(job.instr) = {job.instr.fromNs, job.instr.ns}
        BY <1>1, <3>1, TouchesOf
      <3>3. n = job.instr.fromNs /\ n \in Namespaces
        BY <1>1, <2>3, <3>1, <3>2, InstructionFields DEF SourceHalf
      <3>4. n \notin overtaken
        BY <1>2, <2>3, <3>3
      <3>5. Settled(n, SourceTree)
        BY <1>1, <3>1, <3>3, <3>4 DEF SInv, JobInv, SourceIsRecorded, SecondHalf
      <3>6. Written(n)' = SourceTree
        BY <1>3, <2>3, <3>3 DEF Written, SourceTree
      <3> QED
        BY <1>2, <1>4, <2>3, <3>3, <3>5, <3>6 DEF Settled
    <2> QED
      BY <2>2, <2>3
  <1>10. SquashIsCurrent'
    <2> SUFFICES ASSUME NEW n \in Namespaces \ overtaken', squash[n].at # "idle"
                 PROVE  /\ squash[n].at = "ref" => Settled(n, squash[n].tree)'
                        /\ squash[n].at = "state" => Settled(n, squash[n].oid.tree)'
      BY <1>2 DEF SquashIsCurrent, Settled
    <2>1. CASE n = job.ns
      <3>1. n \notin overtaken
        BY <2>1, RecordingSettles, IdleIsAt
      <3> QED
        BY <1>2, <1>3, <1>4, <1>5, <2>1, <3>1 DEF SInv, SquashIsCurrent, Settled
    <2>2. CASE n # job.ns
      BY <1>2, <1>4, <2>2 DEF SInv, SquashIsCurrent, Settled
    <2> QED
      BY <2>1, <2>2
  <1> QED
    BY <1>6, <1>7, <1>8, <1>9, <1>10 DEF JobInv

LEMMA SInvReadDestination ==
    ASSUME SInv, ReadDestination
    PROVE  JobInv' /\ SquashIsCurrent'
  <1> DEFINE i == job.instr
  <1>1. job \in Job /\ job.at = "dest" /\ i \in Instructions
    BY JobInProgress, IdleIsAt DEF SInv, ReadDestination, Job
  <1>2. i.op = "grant-change-prefix" /\ i.ns # i.fromNs
    BY <1>1, InstructionFields DEF SInv, Carried, SourceHalf
  <1>3. Touches(i) = {i.fromNs, i.ns}
    BY <1>1, <1>2, TouchesOf
  <1>4. /\ job'.at = "ref" /\ job'.ns = i.ns /\ job'.instr = i /\ job'.src = job.src
        /\ job'.tree = Effect(i, i.ns, TreeOf(i.ns), job.src)
    BY <1>1 DEF ReadDestination, Job
  <1>5. UNCHANGED <<ref, nsState, squash, overtaken>>
    BY DEF ReadDestination
  <1>6. JobIsCurrent'
    BY <1>2, <1>3, <1>4, <1>5 DEF JobIsCurrent, TreeOf
  <1>7. SourceIsRecorded'
    <2>1. i.fromNs \notin overtaken => Settled(i.fromNs, SourceTree)
      BY <1>1 DEF SInv, JobInv, SourceIsRecorded, SecondHalf
    <2>2. SourceTree' = SourceTree /\ ~SourceHalf'
      BY <1>2, <1>4 DEF SourceTree, SourceHalf
    <2> QED
      BY <1>4, <1>5, <2>1, <2>2 DEF SourceIsRecorded, Settled, TreeOf
  <1>8. ResetIsDone' /\ AcknowledgedIsRecorded'
    BY <1>4 DEF ResetIsDone, AcknowledgedIsRecorded
  <1>9. SquashIsCurrent'
    BY <1>5 DEF SInv, SquashIsCurrent, Settled, TreeOf
  <1> QED
    BY <1>6, <1>7, <1>8, <1>9 DEF JobInv

(* A ref or the documents go: a squash in flight is overtaken by that. *)
LEMMA SInvReset ==
    ASSUME SInv,
           (\E ns \in Namespaces : DeleteRef(ns)) \/ DeleteStates \/ DeleteViews
    PROVE  JobInv' /\ SquashIsCurrent'
  <1>1. /\ TypeOK /\ job \in Job /\ job # Idle /\ job.instr \in Instructions
        /\ job.at \in {"wipe", "views"} /\ job.instr.op = "reset-all"
    BY JobInProgress, IdleIsAt
    DEF SInv, JobInv, DeleteRef, DeleteStates, DeleteViews, ResetIsDone, Job
  <1>2. job'.at \in {"wipe", "views", "ack"} /\ job'.instr = job.instr
    BY <1>1 DEF DeleteRef, DeleteStates, DeleteViews, Job
  <1>3. SquashIsCurrent'
    <2>1. CASE DeleteViews
      BY <2>1 DEF DeleteViews, SInv, SquashIsCurrent, Settled, TreeOf
    <2>2. CASE DeleteStates
      BY <2>2, IdleIsAt DEF DeleteStates, SquashIsCurrent, Settled
    <2>3. ASSUME NEW ns \in Namespaces, DeleteRef(ns)
          PROVE  SquashIsCurrent'
      <3>1. /\ ref' = [ref EXCEPT ![ns] = NoCommit] /\ UNCHANGED <<nsState, squash>>
            /\ overtaken \subseteq overtaken'
            /\ squash[ns] # NoSquash => ns \in overtaken'
        BY <2>3 DEF DeleteRef, Overlapping
      <3> SUFFICES ASSUME NEW n \in Namespaces \ overtaken', squash[n].at # "idle"
                   PROVE  /\ squash[n].at = "ref" => Settled(n, squash[n].tree)'
                          /\ squash[n].at = "state" => Settled(n, squash[n].oid.tree)'
        BY <3>1 DEF SquashIsCurrent, Settled
      <3>2. n # ns /\ n \notin overtaken
        BY <3>1, IdleIsAt
      <3>3. TreeOf(n)' = TreeOf(n)
        BY <1>1, <3>1, <3>2 DEF TreeOf, TypeOK
      <3> QED
        BY <3>1, <3>2, <3>3 DEF SInv, SquashIsCurrent, Settled
    <2> QED
      BY <2>1, <2>2, <2>3
  <1>4. job'.at \in {"views", "ack"} =>
          \A ns \in Namespaces \ overtaken' : nsState'[ns] = NoDoc
    <2>1. CASE \E ns \in Namespaces : DeleteRef(ns)
      BY <1>1, <2>1 DEF DeleteRef, Job
    <2>2. CASE DeleteStates
      BY <2>2 DEF DeleteStates
    <2>3. CASE DeleteViews
      BY <1>1, <2>3 DEF DeleteViews, SInv, JobInv, ResetIsDone
    <2> QED
      BY <2>1, <2>2, <2>3
  <1> QED
    BY <1>1, <1>2, <1>3, <1>4
    DEF JobInv, JobIsCurrent, SourceIsRecorded, SecondHalf, ResetIsDone,
        AcknowledgedIsRecorded

(* The builder is at rest again. *)
LEMMA SInvEnd ==
    ASSUME SInv, Acknowledge \/ Fail
    PROVE  JobInv' /\ SquashIsCurrent'
  <1>1. job'.at = "idle" /\ UNCHANGED <<ref, nsState, squash, overtaken>>
    BY IdleIsAt DEF Acknowledge, Fail
  <1>2. SquashIsCurrent'
    BY <1>1 DEF SInv, SquashIsCurrent, Settled, TreeOf
  <1> QED
    BY <1>1, <1>2
    DEF JobInv, JobIsCurrent, SourceIsRecorded, SecondHalf, ResetIsDone,
        AcknowledgedIsRecorded

(* A squash writes the ref and the document of its namespace only; where it  *)
(* has not overtaken the builder both show the tree they showed before.      *)
LEMMA SquashSettles ==
    ASSUME SInv, NEW ns \in Namespaces,
           SquashBegin(ns) \/ SquashRef(ns) \/ SquashState(ns) \/ SquashFail(ns)
    PROVE  /\ job' = job /\ processed' = processed
           /\ overtaken \subseteq overtaken' /\ overtaken' \subseteq overtaken \cup {ns}
           /\ \A n \in Namespaces \ {ns} :
                 /\ squash'[n] = squash[n] /\ nsState'[n] = nsState[n]
                 /\ TreeOf(n)' = TreeOf(n)
           /\ ns \notin overtaken' =>
                 /\ TreeOf(ns)' = TreeOf(ns)
                 /\ nsState'[ns] = NoDoc <=> nsState[ns] = NoDoc
                 /\ nsState[ns] # NoDoc =>
                       nsState'[ns].commitOid.tree = nsState[ns].commitOid.tree
                 /\ squash'[ns].at = "ref" => Settled(ns, squash'[ns].tree)
                 /\ squash'[ns].at = "state" => Settled(ns, squash'[ns].oid.tree)
  <1>1. TypeOK
    BY DEF SInv
  <1>2. CASE SquashBegin(ns)
    <2>1. /\ UNCHANGED <<ref, nsState, job, processed>> /\ nsState[ns] # NoDoc
          /\ overtaken' = IF nsState[ns].commitOid.tree = TreeOf(ns) THEN overtaken
                          ELSE overtaken \cup {ns}
      BY <1>2 DEF SquashBegin
    <2>2. /\ squash'[ns].at = "ref" /\ squash'[ns].tree = nsState[ns].commitOid.tree
          /\ \A n \in Namespaces \ {ns} : squash'[n] = squash[n]
      BY <1>1, <1>2 DEF SquashBegin, TypeOK
    <2>3. \A n : TreeOf(n)' = TreeOf(n)
      BY <2>1 DEF TreeOf
    <2> QED
      BY <2>1, <2>2, <2>3 DEF Settled
  <1>3. CASE SquashRef(ns)
    <2> DEFINE c == NewCommit(squash[ns].tree)
    <2>1. squash[ns] \in Squash /\ squash[ns].at = "ref"
      BY <1>1, <1>3, IdleIsAt DEF SquashRef, TypeOK
    <2>2. /\ squash' = [squash EXCEPT ![ns].at = "state", ![ns].oid = c]
          /\ ref' = [ref EXCEPT ![ns] = c]
          /\ UNCHANGED <<nsState, job, processed, overtaken>>
      BY <1>3 DEF SquashRef
    <2>3. /\ squash'[ns].at = "state" /\ squash'[ns].oid = c
          /\ \A n \in Namespaces \ {ns} : squash'[n] = squash[n]
      BY <1>1, <2>1, <2>2 DEF TypeOK, Squash
    <2>4. c.tree = squash[ns].tree /\ c # NoCommit
      BY <1>1, <2>1, NewCommitIsCommit, BuilderAssumption DEF NewCommit, Commit, Squash
    <2>5. /\ TreeOf(ns)' = squash[ns].tree
          /\ \A n \in Namespaces \ {ns} : TreeOf(n)' = TreeOf(n)
      BY <1>1, <2>2, <2>4 DEF TreeOf, TypeOK
    <2>6. ns \notin overtaken => Settled(ns, squash[ns].tree)
      BY <2>1 DEF SInv, SquashIsCurrent
    <2> QED
      BY <2>2, <2>3, <2>4, <2>5, <2>6 DEF Settled
  <1>4. CASE SquashState(ns)
    <2>1. squash[ns].at = "state" /\ squash[ns].oid \in Commit
      BY <1>4 DEF SquashState, SInv, Carried
    <2>2. [commitOid |-> squash[ns].oid, version |-> 1] \in Doc
      BY <2>1 DEF Doc
    <2>3. /\ nsState'[ns] # NoDoc /\ nsState'[ns].commitOid = squash[ns].oid
          /\ \A n \in Namespaces \ {ns} : nsState'[n] = nsState[n]
      BY <1>1, <1>4, <2>1, <2>2, BuilderAssumption DEF SquashState, TypeOK, Doc, Commit
    <2>4. /\ squash'[ns].at = "idle" /\ \A n \in Namespaces \ {ns} : squash'[n] = squash[n]
          /\ UNCHANGED <<ref, job, processed, overtaken>>
      BY <1>1, <1>4, IdleIsAt DEF SquashState, TypeOK
    <2>5. \A n : TreeOf(n)' = TreeOf(n)
      BY <2>4 DEF TreeOf
    <2>6. ns \notin overtaken => Settled(ns, squash[ns].oid.tree)
      BY <2>1 DEF SInv, SquashIsCurrent
    <2> QED
      BY <2>3, <2>4, <2>5, <2>6 DEF Settled
  <1>5. CASE SquashFail(ns)
    <2>1. /\ squash'[ns].at = "idle" /\ \A n \in Namespaces \ {ns} : squash'[n] = squash[n]
          /\ UNCHANGED <<ref, nsState, job, processed, overtaken>>
      BY <1>1, <1>5, IdleIsAt DEF SquashFail, TypeOK
    <2> QED
      BY <2>1 DEF TreeOf
  <1> QED
    BY <1>2, <1>3, <1>4, <1>5

LEMMA SInvSquash ==
    ASSUME SInv, NEW ns \in Namespaces,
           SquashBegin(ns) \/ SquashRef(ns) \/ SquashState(ns) \/ SquashFail(ns)
    PROVE  JobInv' /\ SquashIsCurrent'
  <1>1. job' = job /\ overtaken \subseteq overtaken'
    BY SquashSettles
  <1>2. \A n \in Namespaces \ overtaken' :
          /\ TreeOf(n)' = TreeOf(n)
          /\ nsState'[n] = NoDoc <=> nsState[n] = NoDoc
          /\ nsState[n] # NoDoc =>
                nsState'[n].commitOid.tree = nsState[n].commitOid.tree
    <2> TAKE n \in Namespaces \ overtaken'
    <2>1. CASE n = ns
      BY <2>1, SquashSettles
    <2>2. CASE n # ns
      BY <2>2, SquashSettles
    <2> QED
      BY <2>1, <2>2
  <1>3. ASSUME NEW n \in Namespaces \ overtaken', NEW tree, Settled(n, tree)
        PROVE  TreeOf(n)' = tree /\ nsState'[n] # NoDoc /\ nsState'[n].commitOid.tree = tree
    BY <1>2, <1>3 DEF Settled
  <1>4. job = Idle \/ (job \in Job /\ job.instr \in Instructions)
    BY DEF SInv, TypeOK, Job
  <1>5. JobIsCurrent'
    <2> SUFFICES ASSUME job.at \in {"ref", "state"} PROVE JobIsCurrent'
      BY <1>1 DEF JobIsCurrent
    <2>1. job.ns \in Namespaces
      BY <1>4, IdleIsAt DEF Job
    <2>2. job.ns \notin overtaken' => TreeOf(job.ns)' = TreeOf(job.ns)
      BY <1>1, <1>2, <2>1
    <2> QED
      BY <1>1, <2>2 DEF SInv, JobInv, JobIsCurrent
  <1>6. SourceIsRecorded'
    <2>1. (SourceHalf' <=> SourceHalf) /\ (SecondHalf' <=> SecondHalf)
          /\ SourceTree' = SourceTree
      BY <1>1 DEF SourceHalf, SecondHalf, SourceTree
    <2>2. ASSUME SecondHalf, job.instr.fromNs \notin overtaken'
          PROVE  Settled(job.instr.fromNs, SourceTree)'
      <3>1. job # Idle /\ job.instr.op = "grant-change-prefix"
        BY <2>2, IdleIsAt DEF SecondHalf, SInv, Carried, SourceHalf
      <3>2. job.instr.fromNs \in Namespaces
        BY <1>4, <3>1, InstructionFields
      <3>3. Settled(job.instr.fromNs, SourceTree)
        BY <1>1, <2>2 DEF SInv, JobInv, SourceIsRecorded
      <3>4. /\ TreeOf(job.instr.fromNs)' = SourceTree
            /\ nsState'[job.instr.fromNs] # NoDoc
            /\ nsState'[job.instr.fromNs].commitOid.tree = SourceTree
        BY <1>1, <1>3, <2>2, <3>2, <3>3
      <3> QED
        BY <1>1, <2>1, <3>4 DEF Settled
    <2> QED
      BY <1>1, <2>1, <2>2 DEF SInv, JobInv, SourceIsRecorded
  <1>7. ResetIsDone'
    BY <1>1, <1>2 DEF SInv, JobInv, ResetIsDone
  <1>8. AcknowledgedIsRecorded'
    <2> SUFFICES ASSUME job.at = "ack", job.instr.op # "reset-all",
                        NEW n \in Touches(job.instr), n \notin overtaken'
                 PROVE  Settled(n, Written(n))'
      BY <1>1 DEF AcknowledgedIsRecorded, Settled
    <2>1. job # Idle /\ job.instr \in Instructions
      BY <1>4, IdleIsAt
    <2>2. n \in Namespaces
      BY <2>1, TouchesOf, InstructionFields
    <2>3. Settled(n, Written(n)) /\ Written(n)' = Written(n)
      BY <1>1 DEF SInv, JobInv, AcknowledgedIsRecorded, Settled, Written
    <2> QED
      BY <1>3, <2>2, <2>3 DEF Settled
  <1>9. SquashIsCurrent'
    <2> SUFFICES ASSUME NEW n \in Namespaces \ overtaken'
                 PROVE  (/\ squash[n].at = "ref" => Settled(n, squash[n].tree)
                         /\ squash[n].at = "state" => Settled(n, squash[n].oid.tree))'
      BY DEF SquashIsCurrent
    <2>1. /\ squash'[n].at = "ref" => Settled(n, squash'[n].tree)
          /\ squash'[n].at = "state" => Settled(n, squash'[n].oid.tree)
      <3>1. CASE n = ns
        BY <3>1, SquashSettles
      <3>2. CASE n # ns
        <4>1. squash'[n] = squash[n] /\ n \notin overtaken
          BY <1>1, <3>2, SquashSettles
        <4> QED
          BY <4>1 DEF SInv, SquashIsCurrent
      <3> QED
        BY <3>1, <3>2
    <2> QED
      BY <1>3, <2>1 DEF Settled
  <1> QED
    BY <1>5, <1>6, <1>7, <1>8, <1>9 DEF JobInv

LEMMA SInvStep ==
    ASSUME SInv, [Next]_vars
    PROVE  SInv'
  <1>1. TypeOK' /\ Carried'
    BY TypeStep DEF SInv
  <1>2. CASE UNCHANGED vars
    BY <1>1, <1>2
    DEF vars, SInv, JobInv, JobIsCurrent, SourceIsRecorded, SecondHalf, SourceTree,
        ResetIsDone, SquashIsCurrent, AcknowledgedIsRecorded, Settled, Written,
        SourceHalf, TreeOf
  <1>3. CASE Build
    <2>1. JobInv' /\ SquashIsCurrent'
      BY <1>3, SInvBegin, SInvWriteRef, SInvWriteState, SInvReadDestination,
         SInvReset, SInvEnd DEF Build
    <2> QED
      BY <1>1, <2>1 DEF SInv
  <1>4. CASE Maintain
    BY <1>1, <1>4, SInvSquash DEF Maintain, SInv
  <1>5. CASE Crash
    <2>1. job'.at = "idle" /\ \A ns \in Namespaces : squash'[ns].at = "idle"
      BY <1>5, IdleIsAt DEF Crash
    <2>2. JobInv' /\ SquashIsCurrent'
      BY <2>1
      DEF JobInv, JobIsCurrent, SourceIsRecorded, SecondHalf, ResetIsDone,
          AcknowledgedIsRecorded, SquashIsCurrent
    <2> QED
      BY <1>1, <2>2 DEF SInv
  <1> QED
    BY <1>2, <1>3, <1>4, <1>5 DEF Next

LEMMA SInvAlways == Spec => []SInv
  <1>1. SInv /\ [Next]_vars => SInv'
    BY SInvStep
  <1> QED
    BY SInvInit, <1>1, PTL DEF Spec

-----------------------------------------------------------------------------
(* The theorems. *)

(* Beside any squashes, failures and crashes an acknowledged instruction is  *)
(* visible and recorded in every namespace it touches that no squash has     *)
(* overtaken: none read a document of it that was behind the ref, and the    *)
(* builder moved its ref under none.                                         *)
THEOREM AcknowledgedRecorded == Spec => []AcknowledgedIsRecorded
  <1>1. SInv => AcknowledgedIsRecorded
    BY DEF SInv, JobInv
  <1> QED
    BY <1>1, SInvAlways, PTL

(* Two awaits apart, the builder's commit never overwrites a tree it has not *)
(* read, although a squash may write the ref between them, and no squash     *)
(* takes away what a clone sees, unless one has overtaken the builder there. *)
THEOREM NothingLost == Spec => NoLostUpdate
  <1>1. ASSUME SInv, Next, job.at = "ref", job'.at = "state", job.ns \notin overtaken
        PROVE  TreeOf(job.ns)' = Effect(job.instr, job.ns, TreeOf(job.ns), job.src)
    <2>1. job \in Job /\ job.ns \in Namespaces
      BY <1>1, JobInProgress, IdleIsAt DEF SInv, Job
    <2>2. WriteRef
      BY <1>1, <2>1, IdleIsAt
      DEF Next, Build, Maintain, Begin, BeginSkipped, BeginInOne, BeginGrantChange,
          BeginReset, CanBegin, WriteState, ReadDestination, DeleteRef, DeleteStates,
          DeleteViews, Acknowledge, Fail, Crash, SquashBegin, SquashRef, SquashState,
          SquashFail, Job
    <2>3. NewCommit(job.tree) \in Commit /\ NewCommit(job.tree).tree = job.tree
      BY <1>1, <2>1, NewCommitIsCommit DEF SInv, Job, NewCommit
    <2>4. /\ ref'[job.ns] = NewCommit(job.tree)
          /\ job'.ns = job.ns
      BY <1>1, <2>1, <2>2 DEF WriteRef, SInv, TypeOK, Job
    <2>5. TreeOf(job.ns)' = job.tree
      BY <2>3, <2>4, BuilderAssumption DEF TreeOf, Commit
    <2> QED
      BY <1>1, <2>5 DEF SInv, JobInv, JobIsCurrent
  <1>2. ASSUME SInv, Next, NEW ns \in Namespaces \ overtaken,
               squash[ns].at = "ref", squash'[ns].at = "state"
        PROVE  TreeOf(ns)' = TreeOf(ns)
    <2>1. PICK n \in Namespaces :
             SquashBegin(n) \/ SquashRef(n) \/ SquashState(n) \/ SquashFail(n)
      <3>1. squash' # squash
        BY <1>2
      <3>2. ~Build
        BY <3>1
        DEF Build, Begin, BeginSkipped, BeginInOne, BeginGrantChange, BeginReset,
            WriteRef, WriteState, ReadDestination, DeleteRef, DeleteStates, DeleteViews,
            Acknowledge, Fail
      <3>3. ~Crash
        BY <1>2, IdleIsAt DEF Crash
      <3> QED
        BY <1>2, <3>2, <3>3 DEF Next, Maintain
    <2>2. CASE n # ns
      BY <1>2, <2>1, <2>2, SquashSettles
    <2>3. CASE n = ns
      <3>1. ns \notin overtaken'
        <4>1. ~SquashBegin(ns)
          BY <1>2, IdleIsAt DEF SquashBegin
        <4> QED
          BY <1>2, <2>1, <2>3, <4>1 DEF SquashRef, SquashState, SquashFail
      <3> QED
        BY <1>2, <2>1, <2>3, <3>1, SquashSettles
    <2> QED
      BY <2>2, <2>3
  <1>3. SInv /\ [Next]_vars =>
          [/\ (job.at = "ref" /\ job'.at = "state" /\ job.ns \notin overtaken) =>
                 TreeOf(job.ns)' = Effect(job.instr, job.ns, TreeOf(job.ns), job.src)
           /\ \A ns \in Namespaces \ overtaken :
                 (squash[ns].at = "ref" /\ squash'[ns].at = "state") =>
                     TreeOf(ns)' = TreeOf(ns)]_vars
    BY <1>1, <1>2
  <1> QED
    BY <1>3, SInvAlways, PTL DEF NoLostUpdate, Spec

-----------------------------------------------------------------------------
(* The abstract state. *)

contents == [ns \in Namespaces |-> TreeOf(ns)]
published == [ns \in Namespaces |-> Recorded(ns)]
active == IF job = Idle THEN NoDoc ELSE job.instr
carried == IF job # Idle /\ job.instr.op = "grant-change-prefix"
           THEN job.src ELSE EmptyTree

(* The two modules read the effect of an instruction from the same module. *)
LEMMA SameEffect ==
    ASSUME NEW i, NEW ns, NEW t, NEW src
    PROVE  Contents!Effect(i, ns, t, src) = Effect(i, ns, t, src)
  BY Zenon
  DEF Contents!Effect, Effect, Contents!UpsertEntry, UpsertEntry,
      Contents!RemoveEntry, RemoveEntry, Contents!ApplyPatches, ApplyPatches,
      Contents!BulkPatches, BulkPatches, Contents!RenamePrefix, RenamePrefix,
      Contents!MountSubtree, MountSubtree, Contents!RemoveSubtree, RemoveSubtree,
      Contents!HasSubtree, HasSubtree, Contents!GrantMount, GrantMount,
      Contents!Under, Under, Contents!Rebase, Rebase, Contents!EmptyTree, EmptyTree

LEMMA SameTouches ==
    ASSUME NEW i
    PROVE  /\ Contents!Touches(i) = Touches(i)
           /\ Contents!Rejected(i) <=> Rejected(i)
  BY DEF Contents!Touches, Touches, Contents!Skipped, Skipped, Contents!Rejected, Rejected

LEMMA SameEmptyTree == Contents!EmptyTree = EmptyTree
  BY DEF Contents!EmptyTree, EmptyTree

(* No record of a state document is taken for a missing one. *)
LEMMA RecordedIsTree ==
    ASSUME TypeOK, NEW ns \in Namespaces
    PROVE  /\ Recorded(ns) = NoDoc <=> nsState[ns] = NoDoc
           /\ nsState[ns] # NoDoc => Recorded(ns) = nsState[ns].commitOid.tree
  BY BuilderAssumption DEF TypeOK, Doc, Commit, Recorded

LEMMA ActiveIs ==
    ASSUME TypeOK
    PROVE  active = NoDoc <=> job = Idle
  BY BuilderAssumption DEF TypeOK, Job, active

(* Initially both have empty namespaces and nothing in progress. *)
LEMMA RefinesInit == Init => Contents!Init
  <1> SUFFICES ASSUME Init PROVE Contents!Init
    OBVIOUS
  <1>1. job.at = "idle" /\ job = Idle
    BY IdleIsAt DEF Init
  <1>2. Pending = {}
    BY <1>1 DEF Pending
  <1> QED
    BY <1>1, <1>2, SameEmptyTree DEF Init, Contents!Init, TreeOf, Recorded

-----------------------------------------------------------------------------
(* The steps of the builder. *)

LEMMA BeginRefines ==
    ASSUME SInv, SInv', NEW i \in Instructions, Begin(i)
    PROVE  Contents!Begin(i)
  <1>1. TypeOK /\ TypeOK'
    BY DEF SInv
  <1>2. UNCHANGED <<ref, nsState, processed>> /\ CanBegin(i)
    BY DEF Begin, BeginSkipped, BeginInOne, BeginGrantChange, BeginReset
  <1>3. job = Idle /\ i \notin processed /\ ~Contents!Rejected(i)
    BY <1>2, SameTouches DEF CanBegin
  <1>4. job'.instr = i /\ job'.at \in {"ref", "wipe", "ack"}
    BY DEF Begin, BeginSkipped, BeginInOne, BeginGrantChange, BeginReset, Working
  <1>5. job' # Idle
    BY <1>4, IdleIsAt
  <1>6. carried' = IF i.op = "grant-change-prefix" THEN contents[i.fromNs] ELSE EmptyTree
    <2>1. CASE i.op = "grant-change-prefix"
      <3>1. job'.src = TreeOf(i.fromNs)
        BY <2>1 DEF Begin, BeginSkipped, Skipped, BeginInOne, BeginGrantChange,
                    BeginReset, Working
      <3>2. i.fromNs \in Namespaces
        BY <2>1, InstructionFields
      <3> QED
        BY <1>4, <1>5, <2>1, <3>1, <3>2 DEF carried, contents
    <2>2. CASE i.op # "grant-change-prefix"
      BY <1>4, <1>5, <2>2 DEF carried
    <2> QED
      BY <2>1, <2>2
  <1>7. Pending' = IF i.op = "reset-all"
                   THEN {ns \in Namespaces : published[ns] # NoDoc}
                   ELSE Touches(i)
    <2>1. CASE BeginSkipped(i)
      <3>1. job'.at = "ack" /\ i.op # "reset-all"
        BY <2>1 DEF BeginSkipped, Skipped, Working
      <3>2. Touches(i) = {}
        BY <2>1, TouchesOf DEF BeginSkipped
      <3> QED
        BY <3>1, <3>2 DEF Pending
    <2>2. CASE BeginInOne(i)
      <3>1. /\ job'.at = "ref" /\ job'.ns = i.ns
            /\ i.op \notin {"reset-all", "grant-change-prefix"}
        BY <2>2 DEF BeginInOne, Working
      <3>2. Touches(i) = {i.ns} /\ i.ns \in Namespaces
        BY <2>2, <3>1, TouchesOf, InstructionFields DEF BeginInOne
      <3> QED
        BY <1>4, <3>1, <3>2 DEF Pending, SourceHalf
    <2>3. CASE BeginGrantChange(i)
      <3>1. job'.at = "ref" /\ job'.ns = i.fromNs /\ i.op = "grant-change-prefix"
        BY <2>3 DEF BeginGrantChange, Working
      <3>2. /\ Touches(i) = {i.fromNs, i.ns}
            /\ i.ns \in Namespaces /\ i.fromNs \in Namespaces
        BY <3>1, TouchesOf, InstructionFields
      <3> QED
        BY <1>4, <3>1, <3>2 DEF Pending, SourceHalf
    <2>4. CASE BeginReset(i, CHOOSE ns \in Namespaces : TRUE)
      <3>1. /\ job'.at = "wipe" /\ i.op = "reset-all"
            /\ job'.left = {ns \in Namespaces : nsState[ns] # NoDoc}
        BY <2>4 DEF BeginReset, Working
      <3>2. \A ns \in Namespaces : published[ns] # NoDoc <=> nsState[ns] # NoDoc
        BY <1>1, RecordedIsTree DEF published
      <3> QED
        BY <3>1, <3>2 DEF Pending
    <2> QED
      BY <2>1, <2>2, <2>3, <2>4 DEF Begin
  <1>8. contents' = contents /\ published' = published
    BY <1>2 DEF contents, published, TreeOf, Recorded
  <1> QED
    BY <1>2, <1>3, <1>4, <1>5, <1>6, <1>7, <1>8, SameTouches, SameEmptyTree
    DEF Contents!Begin, carried, contents, published

(* A write that the abstract specification leaves open. *)
LEMMA OverwriteRefines ==
    ASSUME NEW ns \in Namespaces, ns \in overtaken, active' = active,
           carried' = carried, processed' = processed,
           Pending' \in {Pending, Pending \ {ns}},
           \A n \in Namespaces \ {ns} :
               TreeOf(n)' = TreeOf(n) /\ Recorded(n)' = Recorded(n)
    PROVE  Contents!Overwrite(ns)
  <1>1. contents' = [contents EXCEPT ![ns] = contents'[ns]]
    BY DEF contents
  <1>2. published' = [published EXCEPT ![ns] = published'[ns]]
    BY DEF published
  <1> QED
    BY <1>1, <1>2, SameEmptyTree
    DEF Contents!Overwrite, contents, published, active, carried

(* An effect becomes visible: a commit or, for reset-all, a deleted ref. *)
LEMMA WriteRefRefines ==
    ASSUME SInv, WriteRef
    PROVE  IF job.ns \in overtaken THEN Contents!Overwrite(job.ns)
                                   ELSE Contents!Apply(job.ns)
  <1> DEFINE i == job.instr
             c == NewCommit(job.tree)
  <1>1. TypeOK /\ job \in Job /\ job.at = "ref" /\ job # Idle
    BY JobInProgress, IdleIsAt DEF SInv, WriteRef
  <1>2. /\ i \in Instructions /\ job.ns \in Namespaces
        /\ job.ns \notin overtaken =>
              job.tree = Effect(i, job.ns, TreeOf(job.ns), job.src)
    BY <1>1 DEF SInv, JobInv, JobIsCurrent, Job
  <1>3. ref' = [ref EXCEPT ![job.ns] = c] /\ UNCHANGED <<nsState, processed>>
    BY DEF WriteRef
  <1>4. /\ job'.at = "state" /\ job'.instr = i /\ job'.ns = job.ns
        /\ job'.src = job.src
    BY <1>1 DEF WriteRef, Job
  <1>5. job' # Idle
    BY <1>4, IdleIsAt
  <1>6. \A n \in Namespaces : TreeOf(n)' = IF n = job.ns THEN job.tree ELSE TreeOf(n)
    <2>1. c # NoCommit /\ c.tree = job.tree
      BY <1>1, NewCommitIsCommit, BuilderAssumption DEF NewCommit, Commit, Job
    <2> QED
      BY <1>1, <1>2, <1>3, <2>1 DEF TreeOf, TypeOK
  <1>7. job.ns \notin overtaken =>
          job.tree = Effect(active, job.ns, contents[job.ns], carried)
    <2> SUFFICES ASSUME job.ns \notin overtaken
                 PROVE  job.tree = Effect(active, job.ns, contents[job.ns], carried)
      OBVIOUS
    <2>1. active = i /\ contents[job.ns] = TreeOf(job.ns)
      BY <1>1, <1>2 DEF active, contents
    <2>2. CASE i.op = "grant-change-prefix"
      BY <1>1, <1>2, <2>1, <2>2 DEF carried
    <2>3. CASE i.op # "grant-change-prefix"
      BY <1>2, <2>1, <2>3, SourceIrrelevant
    <2> QED
      BY <2>2, <2>3
  <1>8. job.ns \in Pending /\ Pending' = Pending \ {job.ns}
    <2>1. SourceHalf => i.ns # job.ns
      BY <1>2, InstructionFields DEF SourceHalf
    <2>2. SourceHalf' <=> SourceHalf
      BY <1>4 DEF SourceHalf
    <2> QED
      BY <1>1, <1>2, <1>4, <2>1, <2>2 DEF Pending
  <1>9. /\ published' = published /\ active' = active /\ carried' = carried
        /\ \A n : Recorded(n)' = Recorded(n)
    BY <1>1, <1>3, <1>4, <1>5 DEF published, Recorded, active, carried
  <1>10. CASE job.ns \in overtaken
    BY <1>2, <1>3, <1>6, <1>8, <1>9, <1>10, OverwriteRefines
  <1>11. CASE job.ns \notin overtaken
    <2>1. contents' = [contents EXCEPT ![job.ns] = job.tree]
      BY <1>6 DEF contents
    <2> QED
      BY <1>3, <1>7, <1>8, <1>9, <1>11, <2>1, SameEffect, SameEmptyTree
      DEF Contents!Apply, contents, published, active, carried
  <1> QED
    BY <1>10, <1>11

LEMMA DeleteRefRefines ==
    ASSUME SInv, NEW ns \in Namespaces, DeleteRef(ns)
    PROVE  Contents!Apply(ns)
  <1>1. /\ TypeOK /\ job \in Job /\ job.at = "wipe" /\ job # Idle
        /\ job.instr.op = "reset-all"
    BY JobInProgress, IdleIsAt DEF SInv, JobInv, DeleteRef, ResetIsDone
  <1>2. ref' = [ref EXCEPT ![ns] = NoCommit] /\ UNCHANGED <<nsState, processed>>
    BY DEF DeleteRef
  <1>3. /\ job'.at = "wipe" /\ job'.instr = job.instr /\ job'.left = job.left \ {ns}
        /\ job'.src = job.src
    BY <1>1 DEF DeleteRef, Job
  <1>4. job' # Idle
    BY <1>3, IdleIsAt
  <1>5. contents' = [contents EXCEPT ![ns] = EmptyTree]
    <2>1. \A n \in Namespaces : TreeOf(n)' = IF n = ns THEN EmptyTree ELSE TreeOf(n)
      BY <1>1, <1>2 DEF TreeOf, TypeOK
    <2> QED
      BY <2>1 DEF contents
  <1>6. EmptyTree = Effect(active, ns, contents[ns], carried)
    BY <1>1 DEF Effect, active
  <1>7. ns \in Pending /\ Pending' = Pending \ {ns}
    BY <1>1, <1>3 DEF Pending, DeleteRef
  <1>8. published' = published /\ active' = active /\ carried' = carried
    BY <1>1, <1>2, <1>3, <1>4 DEF published, Recorded, active, carried
  <1> QED
    BY <1>2, <1>5, <1>6, <1>7, <1>8, SameEffect, SameEmptyTree
    DEF Contents!Apply, contents, published, active, carried

(* The commit becomes known to the view composer. *)
LEMMA WriteStateRefines ==
    ASSUME SInv, WriteState
    PROVE  IF job.ns \in overtaken THEN Contents!Overwrite(job.ns)
                                   ELSE Contents!Publish(job.ns)
  <1> DEFINE i == job.instr
  <1>1. /\ job \in Job /\ job.at = "state" /\ job # Idle
        /\ i \in Instructions /\ job.ns \in Namespaces
        /\ i.op # "reset-all" /\ job.ns \in Touches(i)
    BY RecordingSettles
  <1>2. UNCHANGED <<ref, processed>>
    BY RecordingSettles
  <1>3. /\ \A n \in Namespaces \ {job.ns} : nsState'[n] = nsState[n]
        /\ nsState'[job.ns] # NoDoc /\ nsState'[job.ns].commitOid.tree = job.tree
        /\ job.ns \notin overtaken => TreeOf(job.ns) = job.tree
    BY RecordingSettles
  <1>4. /\ job'.at = (IF SourceHalf THEN "dest" ELSE "ack")
        /\ job'.instr = i /\ job'.ns = job.ns /\ job'.src = job.src
    BY RecordingSettles
  <1>5. job' # Idle
    BY <1>4, IdleIsAt
  <1>6. \A n \in Namespaces :
          Recorded(n)' = IF n = job.ns THEN job.tree ELSE Recorded(n)
    BY <1>3 DEF Recorded
  <1>7. job.ns \notin Pending /\ Pending' = Pending
    <2>1. SourceHalf => i.ns # job.ns
      BY <1>1, InstructionFields DEF SourceHalf
    <2> QED
      BY <1>1, <1>4, <2>1 DEF Pending, SourceHalf
  <1>8. /\ contents' = contents /\ active' = active /\ carried' = carried
        /\ \A n : TreeOf(n)' = TreeOf(n)
    BY <1>1, <1>2, <1>4, <1>5 DEF contents, TreeOf, active, carried
  <1>9. CASE job.ns \in overtaken
    BY <1>1, <1>2, <1>6, <1>7, <1>8, <1>9, OverwriteRefines
  <1>10. CASE job.ns \notin overtaken
    <2>1. published' = [published EXCEPT ![job.ns] = contents[job.ns]]
      BY <1>1, <1>3, <1>6, <1>10 DEF published, contents
    <2>2. active # NoDoc /\ active = i
      BY <1>1, ActiveIs DEF active, SInv
    <2> QED
      BY <1>1, <1>2, <1>7, <1>8, <1>10, <2>1, <2>2, SameTouches, SameEmptyTree
      DEF Contents!Publish, contents, published, active, carried
  <1> QED
    BY <1>9, <1>10

LEMMA DeleteStatesRefines ==
    ASSUME SInv, DeleteStates
    PROVE  Contents!Forget
  <1>1. /\ TypeOK /\ job \in Job /\ job.at = "wipe" /\ job # Idle
        /\ job.instr.op = "reset-all" /\ job.left = {}
    BY JobInProgress, IdleIsAt DEF SInv, JobInv, DeleteStates, ResetIsDone
  <1>2. nsState' = [ns \in Namespaces |-> NoDoc] /\ UNCHANGED <<ref, processed>>
    BY DEF DeleteStates
  <1>3. job'.at = "views" /\ job'.instr = job.instr /\ job'.src = job.src
    BY <1>1 DEF DeleteStates, Job
  <1>4. job' # Idle
    BY <1>3, IdleIsAt
  <1>5. Pending = {} /\ Pending' = {}
    BY <1>1, <1>3 DEF Pending
  <1>6. published' = [ns \in Namespaces |-> NoDoc]
    BY <1>2 DEF published, Recorded
  <1>7. contents' = contents /\ active' = active /\ carried' = carried
    BY <1>1, <1>2, <1>3, <1>4 DEF contents, TreeOf, active, carried
  <1>8. active # NoDoc /\ active = job.instr
    BY <1>1, ActiveIs DEF active
  <1> QED
    BY <1>1, <1>2, <1>5, <1>6, <1>7, <1>8, SameEmptyTree
    DEF Contents!Forget, contents, published, active, carried

LEMMA AcknowledgeRefines ==
    ASSUME SInv, Acknowledge
    PROVE  Contents!Acknowledge \/ Contents!AcknowledgeOvertaken
  <1> DEFINE i == job.instr
  <1>1. /\ TypeOK /\ job \in Job /\ job.at = "ack" /\ job # Idle
        /\ i \in Instructions
    BY JobInProgress, IdleIsAt DEF SInv, Acknowledge, Job
  <1>2. /\ processed' = processed \cup {i} /\ job' = Idle /\ job'.at = "idle"
        /\ UNCHANGED <<ref, nsState>>
    BY IdleIsAt DEF Acknowledge
  <1>3. active = i /\ active # NoDoc /\ active' = NoDoc /\ carried' = EmptyTree
    BY <1>1, <1>2, ActiveIs DEF active, carried
  <1>4. Pending = {} /\ Pending' = {}
    BY <1>1, <1>2 DEF Pending
  <1>5. contents' = contents /\ published' = published
    BY <1>2 DEF contents, published, TreeOf, Recorded
  <1>6. CASE Touches(i) \cap overtaken # {}
    BY <1>2, <1>3, <1>4, <1>5, <1>6, SameTouches, SameEmptyTree
    DEF Contents!AcknowledgeOvertaken, contents, published, active, carried
  <1>7. CASE Touches(i) \cap overtaken = {} /\ i.op = "reset-all"
    <2>1. overtaken = {}
      BY <1>1, <1>7, TouchesOf DEF TypeOK
    <2>2. \A ns \in Namespaces : published[ns] = NoDoc
      BY <1>1, <1>7, <2>1 DEF SInv, JobInv, ResetIsDone, published, Recorded
    <2> QED
      BY <1>2, <1>3, <1>4, <1>5, <1>7, <2>2, SameEmptyTree
      DEF Contents!Acknowledge, Contents!Recorded, contents, published, active, carried
  <1>8. CASE Touches(i) \cap overtaken = {} /\ i.op # "reset-all"
    <2>1. \A ns \in Touches(i) : published[ns] = contents[ns]
      <3> SUFFICES ASSUME NEW ns \in Touches(i) PROVE published[ns] = contents[ns]
        OBVIOUS
      <3>1. nsState[ns] # NoDoc /\ nsState[ns].commitOid.tree = TreeOf(ns)
        BY <1>1, <1>8 DEF SInv, JobInv, AcknowledgedIsRecorded
      <3>2. ns \in Namespaces
        BY <1>1, TouchesOf, InstructionFields
      <3> QED
        BY <3>1, <3>2 DEF published, contents, Recorded
    <2> QED
      BY <1>2, <1>3, <1>4, <1>5, <1>8, <2>1, SameTouches, SameEmptyTree
      DEF Contents!Acknowledge, Contents!Recorded, contents, published, active, carried
  <1> QED
    BY <1>6, <1>7, <1>8

(* A failed handler or a dead process gives the instruction up. *)
LEMMA AbandonRefines ==
    ASSUME TypeOK, job # Idle, job' = Idle, UNCHANGED <<ref, nsState, processed>>
    PROVE  Contents!Abandon
  <1>1. active # NoDoc /\ active' = NoDoc /\ carried' = EmptyTree
    BY ActiveIs DEF active, carried
  <1>2. Pending' = {}
    BY IdleIsAt DEF Pending
  <1>3. contents' = contents /\ published' = published
    BY DEF contents, published, TreeOf, Recorded
  <1> QED
    BY <1>1, <1>2, <1>3, SameEmptyTree
    DEF Contents!Abandon, contents, published, active, carried

-----------------------------------------------------------------------------
(* The steps that the abstract specification does not see, and the squashes. *)

(* Steps that change nothing the abstract specification sees. *)
Unseen ==
    /\ contents' = contents /\ published' = published /\ active' = active
    /\ Pending' = Pending /\ carried' = carried /\ processed' = processed

LEMMA UnseenRefines == Unseen => UNCHANGED Contents!avars
  BY SameEmptyTree DEF Unseen, Contents!avars, contents, published, active, carried

LEMMA ReadDestinationUnseen == SInv /\ ReadDestination => Unseen
  <1> SUFFICES ASSUME SInv, ReadDestination PROVE Unseen
    OBVIOUS
  <1>1. job \in Job /\ job.at = "dest" /\ job # Idle /\ job.instr \in Instructions
    BY JobInProgress, IdleIsAt DEF SInv, ReadDestination, Job
  <1>2. /\ job'.at = "ref" /\ job'.ns = job.instr.ns /\ job'.instr = job.instr
        /\ job'.src = job.src /\ UNCHANGED <<ref, nsState, processed>>
    BY <1>1 DEF ReadDestination, Job
  <1>3. job' # Idle
    BY <1>2, IdleIsAt
  <1>4. job.instr.op = "grant-change-prefix" /\ job.instr.ns # job.instr.fromNs
    BY <1>1, InstructionFields DEF SInv, Carried, SourceHalf
  <1>5. Pending' = Pending
    BY <1>1, <1>2, <1>4 DEF Pending, SourceHalf
  <1> QED
    BY <1>1, <1>2, <1>3, <1>5
    DEF Unseen, contents, published, TreeOf, Recorded, active, carried

LEMMA DeleteViewsUnseen == SInv /\ DeleteViews => Unseen
  <1> SUFFICES ASSUME SInv, DeleteViews PROVE Unseen
    OBVIOUS
  <1>1. job \in Job /\ job.at = "views" /\ job # Idle
    BY JobInProgress, IdleIsAt DEF SInv, DeleteViews
  <1>2. /\ job'.at = "ack" /\ job'.instr = job.instr /\ job'.src = job.src
        /\ UNCHANGED <<ref, nsState, processed>>
    BY <1>1 DEF DeleteViews, Job
  <1>3. job' # Idle
    BY <1>2, IdleIsAt
  <1> QED
    BY <1>1, <1>2, <1>3
    DEF Unseen, Pending, contents, published, TreeOf, Recorded, active, carried

(* A squash changes nothing, or a namespace that it has overtaken. *)
LEMMA SquashRefines ==
    ASSUME SInv, NEW ns \in Namespaces,
           SquashBegin(ns) \/ SquashRef(ns) \/ SquashState(ns) \/ SquashFail(ns)
    PROVE  Unseen \/ Contents!Overwrite(ns)
  <1>1. job' = job /\ processed' = processed
    BY SquashSettles
  <1>2. /\ active' = active /\ carried' = carried /\ Pending' = Pending
    BY <1>1 DEF active, carried, Pending, SourceHalf
  <1>3. \A n \in Namespaces \ {ns} :
          TreeOf(n)' = TreeOf(n) /\ Recorded(n)' = Recorded(n)
    BY SquashSettles DEF Recorded
  <1>4. CASE TreeOf(ns)' = TreeOf(ns) /\ Recorded(ns)' = Recorded(ns)
    <2>1. contents' = contents /\ published' = published
      BY <1>3, <1>4 DEF contents, published
    <2> QED
      BY <1>1, <1>2, <2>1 DEF Unseen
  <1>5. CASE ~(TreeOf(ns)' = TreeOf(ns) /\ Recorded(ns)' = Recorded(ns))
    <2>1. ns \in overtaken'
      BY <1>5, SquashSettles DEF Recorded
    <2>2. ~SquashBegin(ns)
      BY <1>5 DEF SquashBegin, TreeOf, Recorded
    <2>3. ns \in overtaken
      BY <2>1, <2>2 DEF SquashRef, SquashState, SquashFail
    <2> QED
      BY <1>1, <1>2, <1>3, <2>3, OverwriteRefines
  <1> QED
    BY <1>4, <1>5

-----------------------------------------------------------------------------
(* Every step is a step of the abstract specification or invisible to it. *)
LEMMA StepRefines ==
    ASSUME SInv, SInv', [Next]_vars
    PROVE  [Contents!Next]_(Contents!avars)
  <1>1. ASSUME NEW i \in Instructions, Begin(i)
        PROVE  Contents!Next
    BY <1>1, BeginRefines DEF Contents!Next
  <1>2. CASE WriteRef
    <2>1. job.ns \in Namespaces
      BY <1>2, JobInProgress, IdleIsAt DEF SInv, WriteRef, Job
    <2> QED
      BY <1>2, <2>1, WriteRefRefines DEF Contents!Next
  <1>3. CASE WriteState
    <2>1. job.ns \in Namespaces
      BY <1>3, JobInProgress, IdleIsAt DEF SInv, WriteState, Job
    <2> QED
      BY <1>3, <2>1, WriteStateRefines DEF Contents!Next
  <1>4. ASSUME NEW ns \in Namespaces, DeleteRef(ns)
        PROVE  Contents!Next
    BY <1>4, DeleteRefRefines DEF Contents!Next
  <1>5. CASE DeleteStates
    BY <1>5, DeleteStatesRefines DEF Contents!Next
  <1>6. CASE Acknowledge
    BY <1>6, AcknowledgeRefines DEF Contents!Next
  <1>7. CASE Fail
    BY <1>7, AbandonRefines DEF Fail, SInv, Contents!Next
  <1>8. CASE ReadDestination \/ DeleteViews
    BY <1>8, ReadDestinationUnseen, DeleteViewsUnseen, UnseenRefines
  <1>9. ASSUME NEW ns \in Namespaces,
               SquashBegin(ns) \/ SquashRef(ns) \/ SquashState(ns) \/ SquashFail(ns)
        PROVE  [Contents!Next]_(Contents!avars)
    BY <1>9, SquashRefines, UnseenRefines DEF Contents!Next
  <1>10. CASE Crash
    <2>1. CASE job # Idle
      BY <1>10, <2>1, AbandonRefines DEF Crash, SInv, Contents!Next
    <2>2. CASE job = Idle
      <3>1. Unseen
        BY <1>10, <2>2
        DEF Crash, Unseen, contents, published, TreeOf, Recorded, active, carried,
            Pending, SourceHalf
      <3> QED
        BY <3>1, UnseenRefines
    <2> QED
      BY <2>1, <2>2
  <1>11. CASE UNCHANGED vars
    <2>1. Unseen
      BY <1>11
      DEF vars, Unseen, contents, published, TreeOf, Recorded, active, carried,
          Pending, SourceHalf
    <2> QED
      BY <2>1, UnseenRefines
  <1> QED
    BY <1>1, <1>2, <1>3, <1>4, <1>5, <1>6, <1>7, <1>8, <1>9, <1>10, <1>11
    DEF Next, Build, Maintain

(* Beside any squashes, failures and crashes the builder and the scheduler    *)
(* implement the contents specification: whole trees, one instruction at a    *)
(* time, acknowledged when visible and recorded.  It leaves open only what    *)
(* becomes of a namespace while it is overtaken.                              *)
THEOREM Refinement == Spec => ImplementsContents
  <1>1. Init => Contents!Init
    BY RefinesInit
  <1>2. SInv /\ SInv' /\ [Next]_vars => [Contents!Next]_(Contents!avars)
    BY StepRefines
  <1> QED
    BY <1>1, <1>2, SInvAlways, PTL
    DEF Spec, ImplementsContents, Contents!Spec
===============================================================================
