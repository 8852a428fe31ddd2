----------------------- MODULE VaultViewComposer_proofs -----------------------
(***************************************************************************)
(* Proofs about the view composer, for any sets of namespaces and requests *)
(* of a user, any commits, squashes and resets: a view is at least as new  *)
(* as the request that is answered with it, and a compose that no other    *)
(* overlaps answers with the tip of the view ref.                          *)
(***************************************************************************)
EXTENDS VaultCloneSession, TLAPS

-----------------------------------------------------------------------------
(* The inductive invariant. *)

Parts == UNION {[S -> Number] : S \in SUBSET Namespaces}

Failed == [at |-> "failed"]

(* A request after its first await; it keeps its local variables when it is  *)
(* done.                                                                     *)
Asked == [at : {"find", "merge", "cache", "done"}, versions : Versions,
          existing : BOOLEAN, content : Parts, result : View \cup {NoView},
          alone : BOOLEAN]

NumberTypes ==
    /\ ref \in [Namespaces -> Commit] /\ recorded \in [Namespaces -> Commit]
    /\ last \in [Namespaces -> Number] /\ undone \in [Namespaces -> Number]

WriterTypes ==
    /\ builder \in {Free, Wipe("states"), Wipe("views")}
                   \cup {Record(ns, c) : ns \in Namespaces, c \in Commit}
    /\ squash \in [Namespaces -> {NoSquash} \cup
                     {Squashing(at, c) : at \in {"ref", "state"}, c \in Commit}]

Types ==
    /\ NumberTypes /\ WriterTypes
    /\ viewRef \in View \cup {NoView}
    /\ torn \in BOOLEAN
    /\ cache \in Cached \cup {NoView}
    /\ request \in [Requests -> Asked \cup {New, Failed}]
    /\ \A q \in Requests : Done(q) => request[q].result \in View

(* A commit whose tree the ref shows or has gone beyond, unless it was undone. *)
Known(c, ns) == c.tree <= ref[ns].tree \/ c.tree <= undone[ns]

AllKnown(versions) == \A ns \in DOMAIN versions : Known(versions[ns], ns)

(* The commits that are recorded for a namespace or still may be. *)
AtHand(ns) ==
    {recorded[ns]}
    \cup (IF builder.at = "record" /\ builder.ns = ns THEN {builder.commit} ELSE {})
    \cup (IF squash[ns] = NoSquash THEN {} ELSE {squash[ns].commit})

Numbered ==
    \A ns \in Namespaces :
        /\ ref[ns].tree <= last[ns] /\ undone[ns] <= last[ns]
        /\ \A c \in AtHand(ns) : Known(c, ns)

(* What has been merged is as new as the versions. *)
Current(content, versions) ==
    \A ns \in DOMAIN content \cap DOMAIN versions :
        content[ns] >= versions[ns].tree \/ versions[ns].tree <= undone[ns]

Whole(content, versions) ==
    DOMAIN content = DOMAIN versions /\ Current(content, versions)

Sound(q) ==
    /\ InProgress(q) \/ Done(q) => AllKnown(request[q].versions)
    /\ InProgress(q) =>
          /\ DOMAIN request[q].content \subseteq DOMAIN request[q].versions
          /\ Current(request[q].content, request[q].versions)
    /\ request[q].at = "cache" => Whole(request[q].content, request[q].versions)
    /\ Done(q) => Whole(request[q].result.content, request[q].versions)

Kept == cache # NoView => Whole(cache.commit.content, cache.versions)

(* A compose that has not been overlapped is the only one in progress, and   *)
(* the view ref is where it has left it.                                     *)
Lone ==
    \A q \in Requests : (InProgress(q) /\ request[q].alone) =>
        /\ \A o \in Requests \ {q} : ~InProgress(o)
        /\ request[q].at = "cache" => viewRef = [by |-> q, content |-> request[q].content]

Together ==
    (~torn /\ \A q \in Requests : request[q].at # "cache") =>
        cache = NoView \/ viewRef = cache.commit

Fresh == Numbered /\ Kept /\ \A q \in Requests : Sound(q)

CInv == Types /\ Fresh /\ Lone /\ Together

-----------------------------------------------------------------------------
(* Lemmas. *)

LEMMA ConstantFacts ==
    /\ Accessible \subseteq SUBSET Namespaces /\ MaxCommits \in Nat
    /\ Number \subseteq Nat /\ 0 \in Number
    /\ NoCommit \in Commit /\ NoCommit.tree = 0
    /\ \A c \in Commit : c.tree \in Nat
  BY ComposerAssumption DEF Commit, NoCommit, Number

(* Versions and merged parts are functions on sets of namespaces. *)
LEMMA PartsAre ==
    /\ \A f \in Parts : /\ DOMAIN f \subseteq Namespaces
                        /\ \A ns \in DOMAIN f : f[ns] \in Nat /\ f[ns] \in Number
                        /\ f \in [DOMAIN f -> Number]
    /\ \A f \in Versions : /\ DOMAIN f \in Accessible /\ DOMAIN f \subseteq Namespaces
                           /\ \A ns \in DOMAIN f : f[ns].tree \in Nat
    /\ Merged \subseteq Parts
    /\ \A f \in Parts : DOMAIN f \in Accessible => f \in Merged
    /\ <<>> \in Parts /\ DOMAIN <<>> = {}
  <1>1. \A f \in Parts : /\ DOMAIN f \subseteq Namespaces
                         /\ \A ns \in DOMAIN f : f[ns] \in Nat /\ f[ns] \in Number
                         /\ f \in [DOMAIN f -> Number]
    BY ConstantFacts DEF Parts
  <1>2. \A f \in Versions : /\ DOMAIN f \in Accessible /\ DOMAIN f \subseteq Namespaces
                            /\ \A ns \in DOMAIN f : f[ns].tree \in Nat
    BY ConstantFacts DEF Versions
  <1>3. Merged \subseteq Parts
    BY ConstantFacts DEF Merged, Parts
  <1>4. \A f \in Parts : DOMAIN f \in Accessible => f \in Merged
    BY <1>1 DEF Merged
  <1>5. DOMAIN <<>> = {}
    OBVIOUS
  <1>6. <<>> \in [{} -> Number]
    OBVIOUS
  <1>7. <<>> \in Parts
    BY <1>6 DEF Parts
  <1> QED
    BY <1>1, <1>2, <1>3, <1>4, <1>5, <1>7

(* The fields of a request. *)
LEMMA AskedFields ==
    ASSUME Types, NEW q \in Requests, InProgress(q) \/ Done(q)
    PROVE  /\ request[q] \in Asked
           /\ request[q].versions \in Versions /\ request[q].content \in Parts
           /\ request[q].existing \in BOOLEAN /\ request[q].alone \in BOOLEAN
           /\ request[q].result \in View \cup {NoView}
  <1>1. request[q] \in Asked \cup {New, Failed}
    BY DEF Types
  <1>2. New.at = "new" /\ Failed.at = "failed"
    BY DEF New, Failed
  <1>3. request[q] \in Asked
    BY <1>1, <1>2 DEF InProgress, Done
  <1> QED
    BY <1>3 DEF Asked

LEMMA NotAsked ==
    /\ New.at = "new" /\ Failed.at = "failed"
  BY DEF New, Failed

(* The writers never take a ref behind a tree without undoing it. *)
LEMMA StillKnown ==
    ASSUME NEW ns \in Namespaces, NEW c, c.tree \in Nat, Known(c, ns),
           Types, Types', undone[ns] <= undone'[ns],
           ref[ns].tree <= ref'[ns].tree \/ ref[ns].tree <= undone'[ns]
    PROVE  Known(c, ns)'
  <1>1. /\ ref[ns].tree \in Nat /\ ref'[ns].tree \in Nat
        /\ undone[ns] \in Nat /\ undone'[ns] \in Nat
    BY ConstantFacts DEF Types, NumberTypes
  <1>2. c.tree <= ref'[ns].tree \/ c.tree <= undone'[ns]
    BY <1>1 DEF Known
  <1> QED
    BY <1>2 DEF Known

(* What is undone stays undone. *)
LEMMA StillCurrent ==
    ASSUME NEW content \in Parts, NEW versions \in Versions, Current(content, versions),
           Types, Types', \A ns \in Namespaces : undone[ns] <= undone'[ns]
    PROVE  Current(content, versions)'
  <1> SUFFICES ASSUME NEW ns \in DOMAIN content \cap DOMAIN versions
               PROVE  content[ns] >= versions[ns].tree \/ versions[ns].tree <= undone'[ns]
    BY DEF Current
  <1>1. /\ ns \in Namespaces /\ content[ns] \in Nat /\ versions[ns].tree \in Nat
        /\ undone[ns] \in Nat /\ undone'[ns] \in Nat
    BY PartsAre, ConstantFacts DEF Types, NumberTypes
  <1> QED
    BY <1>1 DEF Current

(* A step that moves no ref and undoes nothing. *)
LEMMA SameCurrent ==
    ASSUME UNCHANGED <<ref, undone>>
    PROVE  /\ \A c, ns : Known(c, ns)' = Known(c, ns)
           /\ \A v : AllKnown(v)' = AllKnown(v)
           /\ \A c, v : Current(c, v)' = Current(c, v) /\ Whole(c, v)' = Whole(c, v)
  BY DEF Known, AllKnown, Current, Whole

LEMMA SameNumbered ==
    ASSUME Numbered, UNCHANGED <<ref, undone, last>>,
           \A ns \in Namespaces : AtHand(ns)' \subseteq AtHand(ns)
    PROVE  Numbered'
  BY SameCurrent DEF Numbered

(* The commits at hand are commits. *)
LEMMA AtHandAre ==
    ASSUME Types, NEW ns \in Namespaces
    PROVE  /\ \A c \in AtHand(ns) : c \in Commit /\ c.tree \in Nat
           /\ recorded[ns] \in AtHand(ns)
           /\ builder.at = "record" /\ builder.ns = ns => builder.commit \in AtHand(ns)
           /\ squash[ns] # NoSquash => squash[ns].commit \in AtHand(ns)
  <1>1. \A c \in AtHand(ns) : c \in Commit
    BY DEF Types, NumberTypes, WriterTypes, AtHand, Free, Wipe, Record, NoSquash, Squashing
  <1> QED
    BY <1>1, ConstantFacts DEF AtHand

-----------------------------------------------------------------------------
(* The steps of the two writers. *)

(* A writer keeps what the requests have read as new as it was, if what is at *)
(* hand then was at hand before, is the new tip, or is no commit.             *)
LEMMA WriterKeeps ==
    ASSUME CInv, Types', UNCHANGED <<request, viewRef, torn>>,
           cache' \in {cache, NoView},
           \A ns \in Namespaces :
              /\ undone[ns] <= undone'[ns]
              /\ ref[ns].tree <= ref'[ns].tree \/ ref[ns].tree <= undone'[ns]
              /\ ref'[ns].tree <= last'[ns] /\ undone'[ns] <= last'[ns]
              /\ AtHand(ns)' \subseteq AtHand(ns) \cup {ref'[ns], NoCommit}
    PROVE  CInv'
  <1>1. Types /\ Fresh /\ Numbered
    BY DEF CInv, Fresh
  <1>2. Numbered'
    <2> SUFFICES ASSUME NEW ns \in Namespaces, NEW c \in AtHand(ns)'
                 PROVE  Known(c, ns)'
      BY DEF Numbered
    <2>1. /\ ref'[ns].tree \in Nat /\ undone'[ns] \in Nat
      BY ConstantFacts DEF Types, NumberTypes
    <2>2. CASE c \in AtHand(ns)
      BY <1>1, <2>2, AtHandAre, StillKnown DEF Numbered
    <2>3. CASE c = ref'[ns]
      BY <2>1, <2>3 DEF Known
    <2>4. CASE c = NoCommit
      BY <2>1, <2>4, ConstantFacts DEF Known
    <2> QED
      BY <2>2, <2>3, <2>4
  <1>3. \A c \in Parts, v \in Versions : Current(c, v) => Current(c, v)'
    BY <1>1, StillCurrent
  <1>4. \A c \in Parts, v \in Versions : Whole(c, v) => Whole(c, v)'
    BY <1>3 DEF Whole
  <1>5. ASSUME NEW v \in Versions, AllKnown(v) PROVE AllKnown(v)'
    <2> SUFFICES ASSUME NEW ns \in DOMAIN v PROVE Known(v[ns], ns)'
      BY DEF AllKnown
    <2>1. ns \in Namespaces /\ v[ns].tree \in Nat
      BY PartsAre
    <2>2. Known(v[ns], ns)
      BY <1>5 DEF AllKnown
    <2> QED
      BY <1>1, <2>1, <2>2, StillKnown
  <1>6. Kept'
    <2> SUFFICES ASSUME cache' = cache, cache # NoView
                 PROVE  Whole(cache.commit.content, cache.versions)'
      BY DEF Kept
    <2>1. cache.commit.content \in Parts /\ cache.versions \in Versions
      BY <1>1, PartsAre DEF Types, Cached, View
    <2>2. Whole(cache.commit.content, cache.versions)
      BY <1>1 DEF Fresh, Kept
    <2> QED
      BY <1>4, <2>1, <2>2 DEF Whole, Current
  <1>7. ASSUME NEW q \in Requests PROVE Sound(q)'
    <2>1. Sound(q)
      BY <1>1 DEF Fresh
    <2>2. CASE InProgress(q)
      <3>1. request[q].versions \in Versions /\ request[q].content \in Parts
        BY <1>1, <2>2, AskedFields
      <3> QED
        BY <1>3, <1>4, <1>5, <2>1, <2>2, <3>1
           DEF Sound, InProgress, Done, AllKnown, Known, Current, Whole
    <2>3. CASE Done(q)
      <3>1. request[q].versions \in Versions /\ request[q].result.content \in Parts
        <4>1. request[q].versions \in Versions /\ request[q].result \in View
          BY <1>1, <2>3, AskedFields DEF Types
        <4> QED
          BY <4>1, PartsAre DEF View
      <3> QED
        BY <1>4, <1>5, <2>1, <2>3, <3>1
           DEF Sound, InProgress, Done, AllKnown, Known, Current, Whole
    <2>4. CASE ~InProgress(q) /\ ~Done(q)
      BY <2>4 DEF Sound, InProgress, Done
    <2> QED
      BY <2>2, <2>3, <2>4
  <1>8. Lone' /\ Together'
    BY DEF CInv, Lone, Together, InProgress
  <1> QED
    BY <1>2, <1>6, <1>7, <1>8 DEF CInv, Fresh

(* What the writers leave alone, and what they do to the numbers. *)
LEMMA WriterSteps ==
    ASSUME CInv, Build \/ Maintain
    PROVE  /\ Types' /\ UNCHANGED <<request, viewRef, torn>> /\ cache' \in {cache, NoView}
           /\ \A ns \in Namespaces :
                 /\ undone[ns] <= undone'[ns]
                 /\ ref[ns].tree <= ref'[ns].tree \/ ref[ns].tree <= undone'[ns]
                 /\ ref'[ns].tree <= last'[ns] /\ undone'[ns] <= last'[ns]
                 /\ AtHand(ns)' \subseteq AtHand(ns) \cup {ref'[ns], NoCommit}
  <1> USE ConstantFacts
  <1> DEFINE Goal == \A ns \in Namespaces :
                        /\ undone[ns] <= undone'[ns]
                        /\ ref[ns].tree <= ref'[ns].tree \/ ref[ns].tree <= undone'[ns]
                        /\ ref'[ns].tree <= last'[ns] /\ undone'[ns] <= last'[ns]
                        /\ AtHand(ns)' \subseteq AtHand(ns) \cup {ref'[ns], NoCommit}
  <1>1. /\ request' = request /\ viewRef' = viewRef /\ torn' = torn
        /\ cache' \in {cache, NoView}
    BY DEF Build, UpdateNamespaceRef, UpsertNamespace, ResetRefs, ResetStates,
           ResetViews, BuildFails, Maintain, SquashBegin, SquashRef, SquashState,
           SquashFails, views
  <1>2. Types /\ Numbered
    BY DEF CInv, Fresh
  <1>3. ASSUME ref' \in [Namespaces -> Commit], recorded' \in [Namespaces -> Commit],
               last' \in [Namespaces -> Number], undone' \in [Namespaces -> Number],
               builder' \in {Free, Wipe("states"), Wipe("views")}
                  \cup {Record(ns, c) : ns \in Namespaces, c \in Commit},
               squash' \in [Namespaces -> {NoSquash} \cup
                  {Squashing(at, c) : at \in {"ref", "state"}, c \in Commit}]
        PROVE  Types'
    BY <1>1, <1>2, <1>3 DEF Types, NumberTypes, WriterTypes, Done
  <1>4. \A ns \in Namespaces :
           /\ ref[ns].tree \in Nat /\ last[ns] \in Nat /\ undone[ns] \in Nat
           /\ ref[ns].tree <= last[ns] /\ undone[ns] <= last[ns]
    BY <1>2 DEF Types, NumberTypes, Numbered
  <1>5. ASSUME UNCHANGED <<ref, last, undone>>,
               \A ns \in Namespaces :
                  AtHand(ns)' \subseteq AtHand(ns) \cup {ref'[ns], NoCommit}
        PROVE  Goal
    BY <1>4, <1>5
  <1>6. CASE \E ns \in Namespaces : UpdateNamespaceRef(ns)
    <2> PICK ns \in Namespaces : UpdateNamespaceRef(ns)
      BY <1>6
    <2> DEFINE c == [tree |-> last[ns] + 1, id |-> last[ns] + 1]
    <2>1. /\ last[ns] < MaxCommits
          /\ last' = [last EXCEPT ![ns] = last[ns] + 1]
          /\ ref' = [ref EXCEPT ![ns] = c]
          /\ builder' = Record(ns, c)
          /\ UNCHANGED <<recorded, undone, squash>>
      BY DEF UpdateNamespaceRef
    <2>2. last[ns] + 1 \in Number /\ c \in Commit /\ c.tree = last[ns] + 1
      BY <1>4, <2>1 DEF Number, Commit
    <2> HIDE DEF c
    <2>3. Types'
      BY <1>2, <1>3, <2>1, <2>2 DEF Types, NumberTypes, WriterTypes
    <2>4. ASSUME NEW m \in Namespaces
          PROVE  /\ undone[m] <= undone'[m] /\ ref[m].tree <= ref'[m].tree
                 /\ ref'[m].tree <= last'[m] /\ undone'[m] <= last'[m]
      BY <1>2, <1>4, <2>1, <2>2 DEF Types, NumberTypes
    <2>5. ASSUME NEW m \in Namespaces
          PROVE  AtHand(m)' \subseteq AtHand(m) \cup {ref'[m]}
      <3>1. builder'.ns = ns /\ builder'.commit = c
        BY <2>1 DEF Record
      <3>2. builder'.ns = m => builder'.commit = ref'[m]
        BY <1>2, <2>1, <3>1 DEF Types, NumberTypes
      <3> QED
        BY <2>1, <3>2 DEF AtHand
    <2> QED
      BY <1>1, <2>3, <2>4, <2>5
  <1>7. CASE UpsertNamespace
    <2>1. /\ builder.at = "record" /\ builder' = Free
          /\ recorded' = [recorded EXCEPT ![builder.ns] = builder.commit]
          /\ UNCHANGED <<ref, last, undone, squash>>
      BY <1>7 DEF UpsertNamespace
    <2>2. builder.ns \in Namespaces /\ builder.commit \in Commit
      BY <1>2, <2>1 DEF Types, WriterTypes, Free, Record, Wipe
    <2>3. Types'
      BY <1>2, <1>3, <2>1, <2>2 DEF Types, NumberTypes, WriterTypes
    <2>4. ASSUME NEW m \in Namespaces PROVE AtHand(m)' \subseteq AtHand(m)
      BY <1>2, <2>1, <2>2 DEF AtHand, Types, NumberTypes, WriterTypes, Free
    <2>5. Goal
      BY <1>5, <2>1, <2>4
    <2> QED
      BY <1>1, <2>3, <2>5
  <1>8. CASE ResetRefs
    <2>1. /\ \A ns \in Namespaces :
                 \/ ref'[ns] = ref[ns] /\ undone'[ns] = undone[ns]
                 \/ ref'[ns] = NoCommit /\ undone'[ns] = last[ns]
          /\ ref' \in [Namespaces -> Commit] /\ undone' \in [Namespaces -> Number]
          /\ builder' = Wipe("states") /\ UNCHANGED <<recorded, last, squash>>
      BY <1>2, <1>8 DEF ResetRefs, Types, NumberTypes
    <2>2. Types'
      BY <1>2, <1>3, <2>1 DEF Types, NumberTypes, WriterTypes
    <2>3. ASSUME NEW m \in Namespaces
          PROVE  /\ undone[m] <= undone'[m]
                 /\ ref[m].tree <= ref'[m].tree \/ ref[m].tree <= undone'[m]
                 /\ ref'[m].tree <= last'[m] /\ undone'[m] <= last'[m]
      BY <1>4, <2>1
    <2>4. ASSUME NEW m \in Namespaces PROVE AtHand(m)' \subseteq AtHand(m)
      BY <2>1 DEF AtHand, Wipe
    <2> QED
      BY <1>1, <2>2, <2>3, <2>4
  <1>9. CASE ResetStates
    <2>1. /\ recorded' = [ns \in Namespaces |-> NoCommit] /\ builder' = Wipe("views")
          /\ UNCHANGED <<ref, last, undone, squash>>
      BY <1>9 DEF ResetStates
    <2>2. Types'
      BY <1>2, <1>3, <2>1 DEF Types, NumberTypes, WriterTypes
    <2>3. ASSUME NEW m \in Namespaces
          PROVE  AtHand(m)' \subseteq AtHand(m) \cup {NoCommit}
      BY <2>1 DEF AtHand, Wipe
    <2>4. Goal
      BY <1>5, <2>1, <2>3
    <2> QED
      BY <1>1, <2>2, <2>4
  <1>10. CASE ResetViews \/ BuildFails
    <2>1. builder' = Free /\ UNCHANGED <<ref, recorded, last, undone, squash>>
      BY <1>10 DEF ResetViews, BuildFails
    <2>2. Types'
      BY <1>2, <1>3, <2>1 DEF Types, NumberTypes, WriterTypes
    <2>3. ASSUME NEW m \in Namespaces PROVE AtHand(m)' \subseteq AtHand(m)
      BY <2>1 DEF AtHand, Free
    <2>4. Goal
      BY <1>5, <2>1, <2>3
    <2> QED
      BY <1>1, <2>2, <2>4
  <1>11. ASSUME NEW ns \in Namespaces, SquashBegin(ns)
         PROVE  Types' /\ Goal
    <2>1. /\ squash' = [squash EXCEPT ![ns] = Squashing("ref", recorded[ns])]
          /\ UNCHANGED <<ref, recorded, last, undone, builder>>
      BY <1>11 DEF SquashBegin
    <2>2. Squashing("ref", recorded[ns]).commit = recorded[ns] /\ recorded[ns] \in Commit
      BY <1>2 DEF Squashing, Types, NumberTypes
    <2>3. Types'
      BY <1>2, <1>3, <2>1, <2>2 DEF Types, NumberTypes, WriterTypes
    <2>4. ASSUME NEW m \in Namespaces PROVE AtHand(m)' \subseteq AtHand(m)
      BY <1>2, <2>1, <2>2 DEF AtHand, Types, NumberTypes, WriterTypes
    <2> QED
      BY <1>5, <2>1, <2>3, <2>4
  <1>12. ASSUME NEW ns \in Namespaces, SquashRef(ns)
         PROVE  Types' /\ Goal
    <2> DEFINE c == [tree |-> squash[ns].commit.tree, id |-> last[ns] + 1]
    <2>1. /\ squash[ns].at = "ref" /\ last[ns] < MaxCommits
          /\ ref' = [ref EXCEPT ![ns] = c]
          /\ squash' = [squash EXCEPT ![ns] = Squashing("state", c)]
          /\ undone' = IF squash[ns].commit.tree < ref[ns].tree
                       THEN [undone EXCEPT ![ns] = last[ns]] ELSE undone
          /\ last' = [last EXCEPT ![ns] = last[ns] + 1]
          /\ UNCHANGED <<recorded, builder>>
      BY <1>12 DEF SquashRef
    <2>2. squash[ns] # NoSquash
      BY <2>1 DEF NoSquash
    <2>3. squash[ns].commit \in AtHand(ns) /\ squash[ns].commit \in Commit
      BY <1>2, <2>2, AtHandAre
    <2>4. /\ squash[ns].commit.tree \in Number /\ last[ns] + 1 \in Number
          /\ c \in Commit /\ c.tree = squash[ns].commit.tree /\ c.tree \in Nat
      BY <1>4, <2>1, <2>3 DEF Number, Commit
    <2>5. c.tree <= last[ns]
      BY <1>2, <1>4, <2>3, <2>4 DEF Numbered, Known
    <2>6. Squashing("state", c).commit = c
      BY DEF Squashing
    <2> HIDE DEF c
    <2>7. undone' \in [Namespaces -> Number]
      BY <1>2, <2>1 DEF Types, NumberTypes
    <2>8. Types'
      BY <1>2, <1>3, <2>1, <2>4, <2>7 DEF Types, NumberTypes, WriterTypes
    <2>9. ASSUME NEW m \in Namespaces
          PROVE  /\ undone[m] <= undone'[m]
                 /\ ref[m].tree <= ref'[m].tree \/ ref[m].tree <= undone'[m]
                 /\ ref'[m].tree <= last'[m] /\ undone'[m] <= last'[m]
      <3>1. CASE m = ns
        <4>1. ref'[m].tree = c.tree /\ last'[m] = last[m] + 1
          BY <1>2, <2>1, <3>1 DEF Types, NumberTypes
        <4>2. undone'[m] = IF c.tree < ref[m].tree THEN last[m] ELSE undone[m]
          BY <1>2, <2>1, <2>4, <3>1 DEF Types, NumberTypes
        <4> QED
          BY <1>4, <2>4, <2>5, <3>1, <4>1, <4>2
      <3>2. CASE m # ns
        <4>1. ref'[m] = ref[m] /\ last'[m] = last[m] /\ undone'[m] = undone[m]
          BY <1>2, <2>1, <3>2 DEF Types, NumberTypes
        <4> QED
          BY <1>4, <4>1
      <3> QED
        BY <3>1, <3>2
    <2>10. ASSUME NEW m \in Namespaces
           PROVE  AtHand(m)' \subseteq AtHand(m) \cup {ref'[m]}
      BY <1>2, <2>1, <2>6 DEF AtHand, Types, NumberTypes, WriterTypes
    <2> QED
      BY <2>8, <2>9, <2>10
  <1>13. ASSUME NEW ns \in Namespaces, SquashState(ns)
         PROVE  Types' /\ Goal
    <2>1. /\ squash[ns].at = "state"
          /\ recorded' = [recorded EXCEPT ![ns] = squash[ns].commit]
          /\ squash' = [squash EXCEPT ![ns] = NoSquash]
          /\ UNCHANGED <<ref, last, undone, builder>>
      BY <1>13 DEF SquashState
    <2>2. squash[ns].commit \in AtHand(ns) /\ squash[ns].commit \in Commit
      BY <1>2, <2>1, AtHandAre DEF NoSquash
    <2>3. Types'
      BY <1>2, <1>3, <2>1, <2>2 DEF Types, NumberTypes, WriterTypes
    <2>4. ASSUME NEW m \in Namespaces PROVE AtHand(m)' \subseteq AtHand(m)
      BY <1>2, <2>1, <2>2 DEF AtHand, Types, NumberTypes, WriterTypes
    <2> QED
      BY <1>5, <2>1, <2>3, <2>4
  <1>14. ASSUME NEW ns \in Namespaces, SquashFails(ns)
         PROVE  Types' /\ Goal
    <2>1. /\ squash' = [squash EXCEPT ![ns] = NoSquash]
          /\ UNCHANGED <<ref, recorded, last, undone, builder>>
      BY <1>14 DEF SquashFails
    <2>2. Types'
      BY <1>2, <1>3, <2>1 DEF Types, NumberTypes, WriterTypes
    <2>3. ASSUME NEW m \in Namespaces PROVE AtHand(m)' \subseteq AtHand(m)
      BY <1>2, <2>1 DEF AtHand, Types, NumberTypes, WriterTypes
    <2> QED
      BY <1>5, <2>1, <2>2, <2>3
  <1> QED
    BY <1>1, <1>6, <1>7, <1>8, <1>9, <1>10, <1>11, <1>12, <1>13, <1>14 DEF Build, Maintain

LEMMA WritersKeep ==
    ASSUME CInv, Build \/ Maintain
    PROVE  CInv'
  BY WriterKeeps, WriterSteps

-----------------------------------------------------------------------------
(* The steps of a request. *)

LEMMA OtherSound ==
    ASSUME Fresh, UNCHANGED <<ref, undone>>, NEW r \in Requests,
           request'[r] = request[r]
    PROVE  Sound(r)'
  BY SameCurrent DEF Fresh, Sound, InProgress, Done

(* A step of one request that moves no namespace. *)
LEMMA RequestKeepsFresh ==
    ASSUME Fresh, UNCHANGED namespaces, Kept', NEW q \in Requests, Sound(q)',
           \A r \in Requests \ {q} : request'[r] = request[r]
    PROVE  Fresh'
  <1>1. UNCHANGED <<ref, recorded, last, undone, builder, squash>>
    BY DEF namespaces
  <1>2. Numbered'
    BY <1>1, SameNumbered DEF Fresh, AtHand
  <1>3. \A r \in Requests \ {q} : Sound(r)'
    BY <1>1, OtherSound
  <1> QED
    BY <1>2, <1>3 DEF Fresh

(* A step of one request keeps the types when its locals, the view ref and   *)
(* the document have theirs.                                                 *)
LEMMA RequestKeepsTypes ==
    ASSUME Types, UNCHANGED namespaces, NEW q \in Requests,
           NEW w \in Asked \cup {New, Failed}, request' = [request EXCEPT ![q] = w],
           w.at = "done" => w.result \in View,
           viewRef' \in View \cup {NoView}, cache' \in Cached \cup {NoView},
           torn' \in BOOLEAN
    PROVE  /\ Types' /\ request'[q] = w
           /\ \A r \in Requests \ {q} : request'[r] = request[r]
  <1>1. UNCHANGED <<ref, recorded, last, undone, builder, squash>>
    BY DEF namespaces
  <1>2. /\ request' \in [Requests -> Asked \cup {New, Failed}]
        /\ request'[q] = w /\ \A r \in Requests \ {q} : request'[r] = request[r]
    BY DEF Types
  <1>3. \A r \in Requests : Done(r)' => request'[r].result \in View
    BY <1>2 DEF Types, Done
  <1>4. NumberTypes' /\ WriterTypes'
    BY <1>1 DEF Types, NumberTypes, WriterTypes
  <1> QED
    BY <1>2, <1>3, <1>4 DEF Types

LEMMA GetVersionsKeeps ==
    ASSUME CInv, NEW q \in Requests, NEW S \in Accessible, GetVersions(q, S)
    PROVE  CInv'
  <1> DEFINE w == [at |-> "find", versions |-> [ns \in S |-> recorded[ns]],
                   existing |-> FALSE, content |-> <<>>, result |-> NoView,
                   alone |-> ~\E o \in Requests : InProgress(o)]
  <1>1. /\ request[q] = New /\ UNCHANGED <<namespaces, views>>
        /\ request' \in [Requests -> {request'[r] : r \in Requests}]
        /\ request'[q] = w
        /\ \A r \in Requests \ {q} :
              request'[r] = IF InProgress(r) THEN [request[r] EXCEPT !.alone = FALSE]
                            ELSE request[r]
    BY DEF GetVersions
  <1>2. UNCHANGED <<ref, recorded, last, undone, builder, squash, viewRef, cache, torn>>
    BY <1>1 DEF namespaces, views
  <1>3. Types /\ S \subseteq Namespaces /\ ~InProgress(q)
    BY <1>1, ConstantFacts, NotAsked DEF CInv, InProgress
  <1>4. w \in Asked
    <2>1. [ns \in S |-> recorded[ns]] \in Versions
      BY <1>3 DEF Types, NumberTypes, Versions
    <2>2. w.alone \in BOOLEAN
      OBVIOUS
    <2> QED
      BY <2>1, <2>2, PartsAre DEF Asked
  <1>5. ASSUME NEW r \in Requests \ {q}, InProgress(r)
        PROVE  /\ request'[r] \in Asked
               /\ request'[r].at = request[r].at /\ request'[r].alone = FALSE
               /\ request'[r].versions = request[r].versions
               /\ request'[r].content = request[r].content
               /\ request'[r].result = request[r].result
    <2>1. request[r] \in Asked
      BY <1>3, <1>5, AskedFields
    <2>2. request'[r] = [request[r] EXCEPT !.alone = FALSE]
      BY <1>1, <1>5
    <2> QED
      BY <2>1, <2>2 DEF Asked
  <1>6. ASSUME NEW r \in Requests \ {q}, ~InProgress(r)
        PROVE  request'[r] = request[r]
    BY <1>1, <1>6
  <1>7. \A r \in Requests \ {q} : InProgress(r)' = InProgress(r) /\ Done(r)' = Done(r)
    BY <1>5, <1>6 DEF InProgress, Done
  <1>8. Types'
    <2>1. \A r \in Requests : request'[r] \in Asked \cup {New, Failed}
      BY <1>1, <1>3, <1>4, <1>5, <1>6 DEF Types
    <2>2. request' \in [Requests -> Asked \cup {New, Failed}]
      BY <1>1, <2>1
    <2>3. \A r \in Requests : Done(r)' => request'[r].result \in View
      <3> SUFFICES ASSUME NEW r \in Requests, Done(r)'
                   PROVE  request'[r].result \in View
        OBVIOUS
      <3>1. r # q /\ Done(r)
        BY <1>1, <1>7 DEF Done
      <3>2. request'[r] = request[r]
        BY <1>6, <3>1 DEF Done, InProgress
      <3> QED
        BY <1>3, <3>1, <3>2 DEF Types
    <2> QED
      BY <1>2, <1>3, <2>2, <2>3 DEF Types, NumberTypes, WriterTypes
  <1>9. Fresh'
    <2>1. Numbered' /\ Kept'
      BY <1>2, SameCurrent, SameNumbered DEF CInv, Fresh, AtHand, Kept
    <2>2. Sound(q)'
      <3>1. \A ns \in S : Known(recorded[ns], ns)
        BY <1>3, AtHandAre DEF CInv, Fresh, Numbered
      <3>2. AllKnown(request'[q].versions)
        BY <1>1, <3>1 DEF AllKnown
      <3> QED
        BY <1>1, <1>2, <3>2, PartsAre DEF Sound, InProgress, Done, AllKnown, Known, Current
    <2>3. ASSUME NEW r \in Requests \ {q} PROVE Sound(r)'
      <3>1. CASE InProgress(r)
        <4>1. Sound(r)
          BY DEF CInv, Fresh
        <4>2. UNCHANGED <<ref, undone>>
          BY <1>2
        <4>3. /\ request'[r].versions = request[r].versions
              /\ request'[r].content = request[r].content
              /\ request'[r].at = request[r].at
          BY <1>5, <3>1
        <4>4. AllKnown(request[r].versions)'
          BY <3>1, <4>1, <4>2, <4>3 DEF Sound, AllKnown, Known
        <4>5. /\ DOMAIN request'[r].content \subseteq DOMAIN request'[r].versions
              /\ Current(request[r].content, request[r].versions)'
          BY <3>1, <4>1, <4>2, <4>3 DEF Sound, Current
        <4>6. request'[r].at = "cache" =>
                 Whole(request[r].content, request[r].versions)'
          BY <4>1, <4>2, <4>3 DEF Sound, Whole, Current
        <4>7. ~Done(r)'
          BY <3>1, <4>3 DEF Done, InProgress
        <4> QED
          BY <4>4, <4>5, <4>6, <4>7 DEF Sound
      <3>2. CASE ~InProgress(r)
        BY <1>2, <1>6, <3>2, OtherSound DEF CInv
      <3> QED
        BY <3>1, <3>2
    <2> QED
      BY <2>1, <2>2, <2>3 DEF Fresh
  <1>10. Lone'
    <2> SUFFICES ASSUME NEW r \in Requests, InProgress(r)', request'[r].alone
                 PROVE  /\ \A o \in Requests \ {r} : ~InProgress(o)'
                        /\ request'[r].at # "cache"
      BY DEF Lone
    <2>1. r = q
      BY <1>5, <1>7
    <2>2. \A o \in Requests : ~InProgress(o)
      <3>1. request'[q].alone = (~\E o \in Requests : InProgress(o))
        BY <1>1
      <3> QED
        BY <2>1, <3>1, Zenon
    <2> QED
      BY <1>1, <1>7, <2>1, <2>2
  <1>11. Together'
    <2>1. \A r \in Requests : request[r].at = "cache" => request'[r].at = "cache"
      BY <1>1, <1>5, <1>6, NotAsked
    <2> QED
      BY <1>2, <2>1 DEF CInv, Together
  <1> QED
    BY <1>8, <1>9, <1>10, <1>11 DEF CInv

(* The cached view answers a request that wants the same versions. *)
LEMMA FindViewKeeps ==
    ASSUME CInv, NEW q \in Requests, FindView(q)
    PROVE  CInv'
  <1>1. /\ request[q].at = "find" /\ UNCHANGED <<namespaces, views>>
        /\ UNCHANGED <<ref, recorded, last, undone, viewRef, cache, torn>>
    BY DEF FindView, namespaces, views
  <1>2. Types /\ InProgress(q) /\ Sound(q)
    BY <1>1 DEF CInv, Fresh, InProgress
  <1>3. request[q] \in Asked
    BY <1>2, AskedFields
  <1>4. PICK w : /\ request' = [request EXCEPT ![q] = w]
                 /\ \/ /\ cache # NoView /\ cache.versions = request[q].versions
                       /\ w = [request[q] EXCEPT !.at = "done", !.result = cache.commit]
                    \/ w = [request[q] EXCEPT !.at = "merge",
                                              !.existing = (cache # NoView)]
    BY DEF FindView
  <1>5. /\ w \in Asked /\ w.versions = request[q].versions
        /\ w.content = request[q].content /\ w.alone = request[q].alone
        /\ \/ /\ w.at = "done" /\ w.result = cache.commit /\ w.result \in View
              /\ cache # NoView /\ cache.versions = w.versions
           \/ w.at = "merge"
    <2>1. CASE /\ cache # NoView /\ cache.versions = request[q].versions
               /\ w = [request[q] EXCEPT !.at = "done", !.result = cache.commit]
      <3>1. cache.commit \in View
        BY <1>2, <2>1 DEF Types, Cached
      <3> QED
        BY <1>3, <2>1, <3>1 DEF Asked
    <2>2. CASE w = [request[q] EXCEPT !.at = "merge", !.existing = (cache # NoView)]
      <3>1. (cache # NoView) \in BOOLEAN
        OBVIOUS
      <3> QED
        BY <1>3, <2>2, <3>1 DEF Asked
    <2> QED
      BY <1>4, <2>1, <2>2
  <1>6. /\ Types' /\ request'[q] = w
        /\ \A r \in Requests \ {q} : request'[r] = request[r]
    BY <1>1, <1>2, <1>4, <1>5, RequestKeepsTypes DEF Types
  <1>7. Kept'
    BY <1>1, SameCurrent DEF CInv, Fresh, Kept
  <1>8. Sound(q)'
    <2>1. CASE w.at = "merge"
      BY <1>1, <1>2, <1>5, <1>6, <2>1, SameCurrent DEF Sound, InProgress, Done
    <2>2. CASE /\ w.at = "done" /\ w.result = cache.commit
               /\ cache # NoView /\ cache.versions = w.versions
      <3>1. Whole(cache.commit.content, cache.versions)
        BY <2>2 DEF CInv, Fresh, Kept
      <3>2. Whole(w.result.content, w.versions)'
        BY <1>1, <2>2, <3>1 DEF Whole, Current
      <3>3. AllKnown(w.versions)'
        BY <1>1, <1>2, <1>5 DEF Sound, AllKnown, Known
      <3> QED
        BY <1>6, <2>2, <3>2, <3>3 DEF Sound, InProgress, Done, AllKnown, Known, Whole, Current
    <2> QED
      BY <1>5, <2>1, <2>2
  <1>9. Fresh'
    BY <1>1, <1>6, <1>7, <1>8, RequestKeepsFresh DEF CInv
  <1>10. \A r \in Requests : /\ InProgress(r)' => InProgress(r)
                             /\ request'[r].at = "cache" <=> request[r].at = "cache"
                             /\ InProgress(r) => /\ request'[r].alone = request[r].alone
                                                 /\ request'[r].content = request[r].content
    BY <1>1, <1>5, <1>6 DEF InProgress
  <1>11. Lone' /\ Together'
    BY <1>1, <1>10 DEF CInv, Lone, Together
  <1> QED
    BY <1>6, <1>9, <1>11 DEF CInv

LEMMA ReadRefKeeps ==
    ASSUME CInv, NEW q \in Requests, NEW ns \in Namespaces, ReadRef(q, ns)
    PROVE  CInv'
  <1> DEFINE content == request[q].content
             read == [m \in DOMAIN content \cup {ns} |->
                        IF m = ns THEN ref[ns].tree ELSE content[m]]
             w == [request[q] EXCEPT !.content = read]
  <1>1. /\ request[q].at = "merge" /\ UNCHANGED <<namespaces, views>>
        /\ UNCHANGED <<ref, recorded, last, undone, viewRef, cache, torn>>
        /\ ns \in DOMAIN request[q].versions
        /\ request' = [request EXCEPT ![q] = w]
    BY DEF ReadRef, namespaces, views
  <1>2. Types /\ InProgress(q) /\ Sound(q)
    BY <1>1 DEF CInv, Fresh, InProgress
  <1>3. request[q] \in Asked /\ content \in Parts /\ request[q].versions \in Versions
    BY <1>2, AskedFields
  <1>4. read \in Parts
    <2>1. DOMAIN content \cup {ns} \subseteq Namespaces
      BY <1>3, PartsAre
    <2>2. ref[ns].tree \in Number
      BY <1>2 DEF Types, NumberTypes, Commit
    <2>3. read \in [DOMAIN content \cup {ns} -> Number]
      BY <1>3, <2>2, PartsAre
    <2> QED
      BY <2>1, <2>3 DEF Parts
  <1>5. /\ w \in Asked /\ w.at = "merge" /\ w.versions = request[q].versions
        /\ w.content = read /\ w.alone = request[q].alone
    <2> HIDE DEF read
    <2> QED
      BY <1>1, <1>3, <1>4 DEF Asked
  <1>6. /\ Types' /\ request'[q] = w
        /\ \A r \in Requests \ {q} : request'[r] = request[r]
    <2> HIDE DEF w
    <2> QED
      BY <1>1, <1>2, <1>5, RequestKeepsTypes DEF Types
  <1>7. Kept'
    BY <1>1, SameCurrent DEF CInv, Fresh, Kept
  <1>8. Current(read, request[q].versions)
    <2> SUFFICES ASSUME NEW m \in (DOMAIN content \cup {ns}) \cap DOMAIN request[q].versions
                 PROVE  \/ read[m] >= request[q].versions[m].tree
                        \/ request[q].versions[m].tree <= undone[m]
      BY DEF Current
    <2>1. CASE m = ns
      <3>1. Known(request[q].versions[ns], ns)
        BY <1>1, <1>2 DEF Sound, AllKnown
      <3>2. /\ request[q].versions[ns].tree \in Nat /\ ref[ns].tree \in Nat
            /\ read[m] = ref[ns].tree
        BY <1>1, <1>2, <1>3, <2>1, PartsAre, ConstantFacts DEF Types, NumberTypes
      <3> QED
        BY <2>1, <3>1, <3>2 DEF Known
    <2>2. CASE m # ns
      BY <1>2, <2>2 DEF Sound, Current
    <2> QED
      BY <2>1, <2>2
  <1>9. Sound(q)'
    <2>1. DOMAIN read \subseteq DOMAIN request[q].versions
      BY <1>1, <1>2 DEF Sound
    <2> HIDE DEF read, w
    <2> QED
      BY <1>1, <1>2, <1>5, <1>6, <1>8, <2>1, SameCurrent
         DEF Sound, InProgress, Done, AllKnown, Known, Current
  <1>10. Fresh'
    BY <1>1, <1>6, <1>7, <1>9, RequestKeepsFresh DEF CInv
  <1>11. \A r \in Requests : /\ InProgress(r)' = InProgress(r)
                             /\ request'[r].at = request[r].at
                             /\ InProgress(r) => request'[r].alone = request[r].alone
                             /\ request[r].at = "cache" => request'[r] = request[r]
    <2> HIDE DEF w
    <2> QED
      BY <1>1, <1>5, <1>6 DEF InProgress
  <1>12. Lone' /\ Together'
    BY <1>1, <1>11 DEF CInv, Lone, Together
  <1> QED
    BY <1>6, <1>10, <1>12 DEF CInv

LEMMA FallBackKeeps ==
    ASSUME CInv, NEW q \in Requests, FallBack(q)
    PROVE  CInv'
  <1> DEFINE w == [request[q] EXCEPT !.existing = FALSE, !.content = <<>>]
  <1>1. /\ request[q].at = "merge" /\ UNCHANGED <<namespaces, views>>
        /\ UNCHANGED <<ref, recorded, last, undone, viewRef, cache, torn>>
    BY DEF FallBack, namespaces, views
  <1>2. Types /\ InProgress(q) /\ Sound(q)
    BY <1>1 DEF CInv, Fresh, InProgress
  <1>3. request[q] \in Asked
    BY <1>2, AskedFields
  <1>4. request' = [request EXCEPT ![q] = w]
    BY <1>2, <1>3 DEF FallBack, Types
  <1>5. /\ w \in Asked /\ w.at = "merge" /\ w.versions = request[q].versions
        /\ w.content = <<>> /\ w.alone = request[q].alone
    BY <1>1, <1>3, PartsAre DEF Asked
  <1> HIDE DEF w
  <1>6. /\ Types' /\ request'[q] = w
        /\ \A r \in Requests \ {q} : request'[r] = request[r]
    BY <1>1, <1>2, <1>4, <1>5, RequestKeepsTypes DEF Types
  <1>7. Kept'
    BY <1>1, SameCurrent DEF CInv, Fresh, Kept
  <1>8. Sound(q)'
    BY <1>1, <1>2, <1>5, <1>6, PartsAre
       DEF Sound, InProgress, Done, AllKnown, Known, Current
  <1>9. Fresh'
    BY <1>1, <1>6, <1>7, <1>8, RequestKeepsFresh DEF CInv
  <1>10. \A r \in Requests : /\ InProgress(r)' = InProgress(r)
                             /\ request'[r].at = request[r].at
                             /\ InProgress(r) => request'[r].alone = request[r].alone
                             /\ request[r].at = "cache" => request'[r] = request[r]
    BY <1>1, <1>5, <1>6 DEF InProgress
  <1>11. Lone' /\ Together'
    BY <1>1, <1>10 DEF CInv, Lone, Together
  <1> QED
    BY <1>6, <1>9, <1>11 DEF CInv

LEMMA UpdateViewRefKeeps ==
    ASSUME CInv, NEW q \in Requests, UpdateViewRef(q)
    PROVE  CInv' /\ viewRef' \in View
  <1> DEFINE w == [request[q] EXCEPT !.at = "cache"]
  <1>1. /\ request[q].at = "merge"
        /\ DOMAIN request[q].content = DOMAIN request[q].versions
        /\ viewRef' = [by |-> q, content |-> request[q].content]
        /\ UNCHANGED namespaces
        /\ UNCHANGED <<ref, recorded, last, undone, cache, torn>>
    BY DEF UpdateViewRef, namespaces
  <1>2. Types /\ InProgress(q) /\ Sound(q)
    BY <1>1 DEF CInv, Fresh, InProgress
  <1>3. /\ request[q] \in Asked
        /\ request[q].content \in Parts /\ request[q].versions \in Versions
    BY <1>2, AskedFields
  <1>4. request' = [request EXCEPT ![q] = w]
    BY <1>2, <1>3 DEF UpdateViewRef, Types
  <1>5. /\ w \in Asked /\ w.at = "cache" /\ w.versions = request[q].versions
        /\ w.content = request[q].content /\ w.alone = request[q].alone
    BY <1>1, <1>3 DEF Asked
  <1> HIDE DEF w
  <1>6. viewRef' \in View
    BY <1>1, <1>3, PartsAre DEF View
  <1>7. /\ Types' /\ request'[q] = w
        /\ \A r \in Requests \ {q} : request'[r] = request[r]
    BY <1>1, <1>2, <1>4, <1>5, <1>6, RequestKeepsTypes DEF Types
  <1>8. Kept'
    BY <1>1, SameCurrent DEF CInv, Fresh, Kept
  <1>9. Sound(q)'
    BY <1>1, <1>2, <1>5, <1>7
       DEF Sound, InProgress, Done, AllKnown, Known, Current, Whole
  <1>10. Fresh'
    BY <1>1, <1>7, <1>8, <1>9, RequestKeepsFresh DEF CInv
  <1>11. \A r \in Requests : InProgress(r)' = InProgress(r)
    BY <1>1, <1>5, <1>7 DEF InProgress
  <1>12. Lone'
    <2> SUFFICES ASSUME NEW r \in Requests, InProgress(r)', request'[r].alone
                 PROVE  /\ \A o \in Requests \ {r} : ~InProgress(o)'
                        /\ request'[r].at = "cache" =>
                              viewRef' = [by |-> r, content |-> request'[r].content]
      BY DEF Lone
    <2>1. CASE r = q
      BY <1>1, <1>2, <1>5, <1>7, <1>11, <2>1 DEF CInv, Lone
    <2>2. CASE r # q
      <3>1. InProgress(r) /\ request[r].alone
        BY <1>7, <1>11, <2>2
      <3>2. ~InProgress(q)
        BY <2>2, <3>1 DEF CInv, Lone
      <3> QED
        BY <1>2, <3>2
    <2> QED
      BY <2>1, <2>2
  <1>13. Together'
    BY <1>5, <1>7 DEF Together
  <1> QED
    BY <1>6, <1>7, <1>10, <1>12, <1>13 DEF CInv

LEMMA UpsertViewKeeps ==
    ASSUME CInv, NEW q \in Requests, UpsertView(q)
    PROVE  /\ CInv' /\ cache' \in Cached
           /\ torn' = ~request[q].alone
           /\ request'[q].result = [by |-> q, content |-> request[q].content]
  <1> DEFINE commit == [by |-> q, content |-> request[q].content]
             w == [request[q] EXCEPT !.at = "done", !.result = commit]
  <1>1. /\ request[q].at = "cache"
        /\ cache' = [commit |-> commit, versions |-> request[q].versions]
        /\ torn' = ~request[q].alone
        /\ UNCHANGED namespaces
        /\ UNCHANGED <<ref, recorded, last, undone, viewRef>>
    BY DEF UpsertView, namespaces
  <1>2. Types /\ InProgress(q) /\ Sound(q)
    BY <1>1 DEF CInv, Fresh, InProgress
  <1>3. /\ request[q] \in Asked /\ request[q].alone \in BOOLEAN
        /\ request[q].content \in Parts /\ request[q].versions \in Versions
        /\ Whole(request[q].content, request[q].versions)
    BY <1>1, <1>2, AskedFields DEF Sound
  <1>4. commit \in View
    BY <1>3, PartsAre DEF View, Whole
  <1>5. cache'.commit = commit /\ cache'.versions = request[q].versions /\ cache' \in Cached
    BY <1>1, <1>3, <1>4 DEF Cached
  <1>6. request' = [request EXCEPT ![q] = w]
    <2>1. request' = [request EXCEPT ![q].at = "done", ![q].result = commit]
      BY <1>5 DEF UpsertView
    <2> HIDE DEF commit
    <2> QED
      BY <1>2, <1>3, <2>1 DEF Types
  <1>7. /\ w \in Asked /\ w.at = "done" /\ w.versions = request[q].versions
        /\ w.content = request[q].content /\ w.result = commit
    <2> HIDE DEF commit
    <2> QED
      BY <1>3, <1>4 DEF Asked
  <1>8. commit.content = request[q].content
    OBVIOUS
  <1>9. torn' \in BOOLEAN
    BY <1>1, <1>3
  <1>10. Kept'
    BY <1>1, <1>3, <1>5, <1>8 DEF Kept, Whole, Current
  <1> HIDE DEF w
  <1>11. /\ Types' /\ request'[q] = w
         /\ \A r \in Requests \ {q} : request'[r] = request[r]
    <2> HIDE DEF commit
    <2> QED
      BY <1>1, <1>2, <1>4, <1>5, <1>6, <1>7, <1>9, RequestKeepsTypes DEF Types
  <1>12. Sound(q)'
    <2>1. request'[q].result.content = request[q].content
      BY <1>7, <1>8, <1>11
    <2> QED
      BY <1>1, <1>2, <1>3, <1>7, <1>11, <2>1
         DEF Sound, InProgress, Done, AllKnown, Known, Whole, Current
  <1>13. Fresh'
    BY <1>1, <1>10, <1>11, <1>12, RequestKeepsFresh DEF CInv
  <1>14. \A r \in Requests : /\ InProgress(r)' => InProgress(r) /\ r # q
                             /\ r # q => request'[r] = request[r]
    BY <1>7, <1>11 DEF InProgress
  <1>15. Lone'
    BY <1>1, <1>14 DEF CInv, Lone
  <1>16. Together'
    <2> SUFFICES ASSUME ~torn' PROVE viewRef' = cache'.commit
      BY DEF Together
    <2>1. request[q].alone
      BY <1>1, <1>3
    <2> QED
      BY <1>1, <1>2, <1>5, <2>1 DEF CInv, Lone
  <1> QED
    BY <1>1, <1>5, <1>7, <1>11, <1>13, <1>15, <1>16 DEF CInv

(* A failure or a crash ends the request; one that had moved the view ref    *)
(* leaves it apart from the document.                                        *)
LEMMA EndKeeps ==
    ASSUME CInv, NEW ended \in SUBSET Requests,
           \A q \in ended : InProgress(q),
           request' = [q \in Requests |-> IF q \in ended THEN Failed ELSE request[q]],
           torn' \in BOOLEAN,
           (torn \/ \E q \in ended : request[q].at = "cache") => torn',
           UNCHANGED <<ref, recorded, last, undone, viewRef, cache>>,
           builder' \in {builder, Free},
           squash' \in {squash, [ns \in Namespaces |-> NoSquash]}
    PROVE  CInv'
  <1>1. Types'
    <2>1. request' \in [Requests -> Asked \cup {New, Failed}]
      BY DEF CInv, Types
    <2>2. \A r \in Requests : Done(r)' => request'[r].result \in View
      BY NotAsked DEF CInv, Types, Done
    <2>3. NumberTypes' /\ WriterTypes'
      BY DEF CInv, Types, NumberTypes, WriterTypes
    <2> QED
      BY <2>1, <2>2, <2>3 DEF CInv, Types
  <1>2. \A r \in Requests : r \in ended => request'[r].at = "failed"
    BY NotAsked
  <1>3. \A r \in Requests : r \notin ended => request'[r] = request[r]
    OBVIOUS
  <1>4. Numbered' /\ Kept'
    <2>1. \A ns \in Namespaces : AtHand(ns)' \subseteq AtHand(ns)
      BY DEF AtHand, Free
    <2> QED
      BY <2>1, SameCurrent, SameNumbered DEF CInv, Fresh, Kept
  <1>5. ASSUME NEW r \in Requests PROVE Sound(r)'
    <2>1. CASE r \in ended
      BY <1>2, <2>1 DEF Sound, InProgress, Done
    <2>2. CASE r \notin ended
      BY <1>3, <2>2, OtherSound DEF CInv
    <2> QED
      BY <2>1, <2>2
  <1>6. \A r \in Requests : InProgress(r)' => InProgress(r) /\ request'[r] = request[r]
    BY <1>2, <1>3 DEF InProgress
  <1>7. Lone'
    BY <1>6 DEF CInv, Lone
  <1>8. Together'
    BY <1>3 DEF CInv, Together
  <1> QED
    BY <1>1, <1>4, <1>5, <1>7, <1>8 DEF CInv, Fresh

LEMMA ComposeFailsKeeps ==
    ASSUME CInv, NEW q \in Requests, ComposeFails(q)
    PROVE  CInv'
  <1>1. request' = [r \in Requests |-> IF r \in {q} THEN Failed ELSE request[r]]
    BY DEF ComposeFails, Failed, CInv, Types
  <1>2. /\ torn' = (torn \/ request[q].at = "cache")
        /\ UNCHANGED <<ref, recorded, last, undone, builder, squash, viewRef, cache>>
        /\ InProgress(q)
    BY DEF ComposeFails, namespaces
  <1>3. torn' \in BOOLEAN
    BY <1>2
  <1>4. (torn \/ \E r \in {q} : request[r].at = "cache") => torn'
    BY <1>2
  <1>5. {q} \in SUBSET Requests /\ \A r \in {q} : InProgress(r)
    BY <1>2
  <1> DEFINE ended == {q}
  <1> HIDE DEF ended
  <1> QED
    BY <1>1, <1>2, <1>3, <1>4, <1>5, EndKeeps DEF ended

LEMMA CrashKeeps ==
    ASSUME CInv, Crash
    PROVE  CInv'
  <1> DEFINE ended == {q \in Requests : InProgress(q)}
  <1>1. request' = [q \in Requests |-> IF q \in ended THEN Failed ELSE request[q]]
    BY DEF Crash, Failed
  <1>2. /\ torn' = (torn \/ \E q \in Requests : request[q].at = "cache")
        /\ builder' = Free /\ squash' = [ns \in Namespaces |-> NoSquash]
        /\ UNCHANGED <<ref, recorded, last, undone, viewRef, cache>>
    BY DEF Crash
  <1>3. torn' \in BOOLEAN
    BY <1>2
  <1>4. (torn \/ \E q \in ended : request[q].at = "cache") => torn'
    BY <1>2
  <1> HIDE DEF ended
  <1>5. ended \in SUBSET Requests /\ \A q \in ended : InProgress(q)
    BY DEF ended
  <1> QED
    BY <1>1, <1>2, <1>3, <1>4, <1>5, EndKeeps

-----------------------------------------------------------------------------
(* The invariant and the theorems. *)

LEMMA CInvInit == Init => CInv
  <1> SUFFICES ASSUME Init PROVE CInv
    OBVIOUS
  <1>1. \A q \in Requests : request[q].at = "new"
    BY NotAsked DEF Init
  <1>2. Types
    <2>1. NumberTypes /\ WriterTypes
      BY ConstantFacts DEF Init, NumberTypes, WriterTypes
    <2> QED
      BY <1>1, <2>1 DEF Init, Types, Done
  <1>3. Fresh
    <2>1. Numbered
      <3> SUFFICES ASSUME NEW ns \in Namespaces
                   PROVE  /\ ref[ns].tree <= last[ns] /\ undone[ns] <= last[ns]
                          /\ \A c \in AtHand(ns) : c.tree <= ref[ns].tree
        BY DEF Numbered, Known
      <3>1. /\ ref[ns] = NoCommit /\ recorded[ns] = NoCommit
            /\ last[ns] = 0 /\ undone[ns] = 0
            /\ builder = Free /\ squash[ns] = NoSquash
        BY DEF Init
      <3>2. AtHand(ns) = {NoCommit}
        BY <3>1 DEF AtHand, Free
      <3> QED
        BY <3>1, <3>2, ConstantFacts
    <2> QED
      BY <1>1, <2>1 DEF Init, Fresh, Kept, Sound, InProgress, Done
  <1>4. Lone /\ Together
    BY <1>1 DEF Init, Lone, Together, InProgress
  <1> QED
    BY <1>2, <1>3, <1>4 DEF CInv

LEMMA CInvNext == CInv /\ [Next]_vars => CInv'
  <1> SUFFICES ASSUME CInv, [Next]_vars PROVE CInv'
    OBVIOUS
  <1>1. CASE UNCHANGED vars
    <2>1. /\ UNCHANGED <<ref, recorded, last, undone, builder, squash>>
          /\ UNCHANGED <<viewRef, cache, torn, request>>
      BY <1>1 DEF vars, namespaces, views
    <2>2. Types'
      BY <2>1 DEF CInv, Types, NumberTypes, WriterTypes, Done
    <2>3. Fresh'
      BY <2>1, OtherSound, SameCurrent, SameNumbered DEF CInv, Fresh, AtHand, Kept
    <2> QED
      BY <2>1, <2>2, <2>3 DEF CInv, Lone, Together, InProgress
  <1>2. CASE Build \/ Maintain
    BY <1>2, WritersKeep
  <1>3. ASSUME NEW q \in Requests, Compose(q) PROVE CInv'
    BY <1>3, GetVersionsKeeps, FindViewKeeps, ReadRefKeeps, FallBackKeeps,
       UpdateViewRefKeeps, UpsertViewKeeps, ComposeFailsKeeps DEF Compose
  <1>4. CASE Crash
    BY <1>4, CrashKeeps
  <1> QED
    BY <1>1, <1>2, <1>3, <1>4 DEF Next

LEMMA CInvariant == Spec => []CInv
  BY CInvInit, CInvNext, PTL DEF Spec

(* The view ref, the view document and what a request returns are merges of  *)
(* commits, and the locals of compose are what each await expects, for any   *)
(* namespaces, requests, commits and resets (vault-view-composer.ts).        *)
THEOREM TypesHold == Spec => []TypeOK
  <1>1. CInv => TypeOK
    <2> SUFFICES ASSUME CInv PROVE TypeOK
      OBVIOUS
    <2>1. Types /\ Kept
      BY DEF CInv, Fresh
    <2>2. cache # NoView => DOMAIN cache.versions = DOMAIN cache.commit.content
      BY <2>1 DEF Kept, Whole
    <2>3. ASSUME NEW q \in Requests
          PROVE  request[q].at \in {"new", "find", "merge", "cache", "done", "failed"}
      BY <2>1, NotAsked DEF Types, Asked
    <2> QED
      BY <2>1, <2>2, <2>3 DEF Types, NumberTypes, WriterTypes, TypeOK
  <1> QED
    BY <1>1, CInvariant, PTL

(* A view that answers a request shows each namespace with the tree that was *)
(* recorded when the request began, or a later one, unless a reset or an     *)
(* overtaking squash undid it: compose of vault-view-composer.ts, merged or  *)
(* from the cache, beside the builder and vault-maintenance-scheduler.ts.    *)
THEOREM ViewsAreFresh == Spec => []FreshView
  <1>1. CInv => FreshView
    <2> SUFFICES ASSUME CInv, NEW q \in Requests, Done(q)
                 PROVE  Whole(request[q].result.content, request[q].versions)
      BY DEF FreshView, Whole, Current
    <2> QED
      BY DEF CInv, Fresh, Sound
  <1> QED
    BY <1>1, CInvariant, PTL

(* A compose that no other of the user overlaps returns the tip of the view  *)
(* ref, unless ref and document were left apart ("viewRef and the commitOid  *)
(* at its tip").                                                             *)
THEOREM TipReturned == Spec => ReturnsTheTip
  <1>1. ASSUME CInv, [Next]_vars, NEW q \in Requests, ~Done(q), Done(q)'
        PROVE  viewRef' = request'[q].result \/ ~request[q].alone \/ torn'
    <2>1. request'[q] # request[q]
      BY <1>1 DEF Done
    <2>2. CASE FindView(q)
      <3>1. /\ request[q].at = "find" /\ viewRef' = viewRef /\ torn' = torn
        BY <2>2 DEF FindView, views
      <3>2. InProgress(q) /\ request[q] \in Asked
        BY <1>1, <3>1, AskedFields DEF InProgress, CInv
      <3>3. cache # NoView /\ request'[q].result = cache.commit
        BY <1>1, <2>2, <3>2 DEF FindView, Done, CInv, Types, Asked
      <3>4. request[q].alone => \A r \in Requests : request[r].at # "cache"
        BY <1>1, <3>1, <3>2 DEF CInv, Lone, InProgress
      <3> QED
        BY <1>1, <3>1, <3>3, <3>4 DEF CInv, Together
    <2>3. CASE UpsertView(q)
      <3>1. /\ request[q].at = "cache" /\ viewRef' = viewRef
            /\ request'[q].result = [by |-> q, content |-> request[q].content]
        BY <1>1, <2>3, UpsertViewKeeps DEF UpsertView
      <3> QED
        BY <1>1, <3>1 DEF CInv, Lone, InProgress
    <2>4. CASE ~FindView(q) /\ ~UpsertView(q)
      <3>1. ASSUME UNCHANGED vars \/ Build \/ Maintain PROVE FALSE
        BY <1>1, <2>1, <3>1, WriterSteps DEF vars
      <3>2. ASSUME Crash PROVE FALSE
        BY <1>1, <3>2 DEF Crash, Done
      <3>3. ASSUME NEW r \in Requests, r # q, Compose(r) PROVE FALSE
        <4>1. CASE \E S \in Accessible : GetVersions(r, S)
          <5>1. request'[q] = IF InProgress(q) THEN [request[q] EXCEPT !.alone = FALSE]
                              ELSE request[q]
            BY <3>3, <4>1 DEF GetVersions
          <5>2. InProgress(q) => request[q] \in Asked
            BY <1>1, AskedFields DEF CInv
          <5> QED
            BY <1>1, <5>1, <5>2 DEF Asked, Done, InProgress
        <4>2. CASE \/ FindView(r) \/ \E ns \in Namespaces : ReadRef(r, ns)
                   \/ FallBack(r) \/ UpdateViewRef(r) \/ UpsertView(r) \/ ComposeFails(r)
          <5>1. request'[q] = request[q]
            BY <1>1, <3>3, <4>2 DEF FindView, ReadRef, FallBack, UpdateViewRef,
               UpsertView, ComposeFails, CInv, Types
          <5> QED
            BY <2>1, <5>1
        <4> QED
          BY <3>3, <4>1, <4>2 DEF Compose
      <3>4. ASSUME Compose(q) PROVE FALSE
        <4>1. CASE \E S \in Accessible : GetVersions(q, S)
          BY <1>1, <4>1 DEF GetVersions, Done
        <4>2. CASE ComposeFails(q)
          BY <1>1, <4>2 DEF ComposeFails, Done, CInv, Types
        <4>3. CASE \/ \E ns \in Namespaces : ReadRef(q, ns)
                   \/ FallBack(q) \/ UpdateViewRef(q)
          <5>1. request[q].at = "merge"
            BY <4>3 DEF ReadRef, FallBack, UpdateViewRef
          <5>2. request[q] \in Asked
            BY <1>1, <5>1, AskedFields DEF CInv, InProgress
          <5> QED
            BY <1>1, <4>3, <5>1, <5>2
               DEF ReadRef, FallBack, UpdateViewRef, Done, CInv, Types, Asked
        <4> QED
          BY <2>4, <3>4, <4>1, <4>2, <4>3 DEF Compose
      <3> QED
        BY <1>1, <3>1, <3>2, <3>3, <3>4 DEF Next
    <2> QED
      BY <2>2, <2>3, <2>4
  <1>2. CInv /\ [Next]_vars =>
          [\A q \in Requests : (~Done(q) /\ Done(q)') =>
              \/ viewRef' = request'[q].result
              \/ ~request[q].alone
              \/ torn']_vars
    BY <1>1
  <1> QED
    BY <1>2, CInvariant, PTL DEF Spec, ReturnsTheTip

-----------------------------------------------------------------------------
(* Sessions: the inductive invariant of VaultCloneSession beside that of the *)
(* composer.                                                                 *)

SessionTypes ==
    /\ want \in [Requests -> Requests \cup {NoView}]
    /\ parent \in [Requests -> Requests \cup {NoView}]
    /\ tip \in [Requests -> Requests \cup {NoView}]
    /\ reach \in [Requests -> SUBSET Requests]
    /\ answer \in [Requests -> {"none", "told", "served", "refused"}]
    /\ firm \in SUBSET Requests

(* A request is answered when its compose is done, and followed up when it   *)
(* has been told a tip.                                                      *)
Answered ==
    \A q \in Requests :
        /\ answer[q] # "none" => Done(q)
        /\ Told(q) => tip[q] \in Requests
        /\ want[q] # NoView => Told(want[q])
        /\ q \in firm => Told(q)

(* A commit that has not been made reaches nothing yet, and one that has been *)
(* reaches itself; from the first one on there is a tip.                     *)
Made ==
    /\ \A q \in Requests : request[q].at \in {"new", "find", "merge"} => reach[q] = {}
    /\ viewRef # NoView => viewRef.by \in reach[viewRef.by]
    /\ \A q \in Requests : request[q].at \in {"cache", "done"} => viewRef # NoView
    /\ cache # NoView => viewRef # NoView

(* What was told firmly is behind the tip, behind the document, and behind   *)
(* every commit that is being made.                                          *)
Held(commit) ==
    /\ viewRef # NoView /\ commit \in reach[viewRef.by]
    /\ cache # NoView /\ commit \in reach[cache.commit.by]
    /\ \A r \in Requests :
          /\ request[r].at = "merge" => parent[r] # NoView /\ commit \in reach[parent[r]]
          /\ request[r].at = "cache" => commit \in reach[r]

FirmHeld == \A o \in firm : Held(tip[o])

SInv == SessionTypes /\ Answered /\ Made /\ FirmHeld /\ ToldIsServed

(* Once a compose that no other overlapped with is done, neither the         *)
(* document nor a later compose goes back behind its versions.               *)
Onward ==
    \A q \in Requests : (Done(q) /\ request[q].alone) =>
        /\ cache # NoView => Current(cache.commit.content, request[q].versions)
        /\ \A r \in Requests : InProgress(r) =>
              Current(request[r].content, request[q].versions)

-----------------------------------------------------------------------------
(* A session takes the steps of the composer and some that it does not see.  *)

LEMMA SessionSteps ==
    ASSUME [SessionNext]_allVars
    PROVE  [Next]_vars
  <1>1. CASE UNCHANGED allVars
    BY <1>1 DEF allVars
  <1>2. CASE BuildBeside
    BY <1>2 DEF BuildBeside, Next
  <1>3. ASSUME NEW q \in Requests,
               \/ Ask(q) \/ FindParent(q) \/ Merge(q) \/ WriteCommit(q) \/ Finish(q)
        PROVE  Compose(q)
    BY <1>3 DEF Ask, FindParent, Merge, WriteCommit, Finish, Compose
  <1>4. ASSUME NEW q \in Requests, AdvertiseRefs(q) \/ UploadPack(q)
        PROVE  UNCHANGED vars
    BY <1>4 DEF AdvertiseRefs, UploadPack
  <1>5. CASE Crash /\ UNCHANGED session
    BY <1>5 DEF Next
  <1> QED
    BY <1>1, <1>2, <1>3, <1>4, <1>5 DEF SessionNext, Next

(* The composer that sessions drive is the composer: whatever clients ask    *)
(* for and are told, and when, it only composes, builds or dies as it may.   *)
(* What holds of every composer, as that a view is fresh, holds of theirs.   *)
THEOREM SessionsCompose == SessionSpec => Spec
  <1>1. SessionInit => Init
    BY DEF SessionInit
  <1> QED
    BY <1>1, SessionSteps, PTL DEF SessionSpec, Spec

LEMMA SessionCInvariant == SessionSpec => []CInv
  BY SessionsCompose, CInvariant

(* Where a request is, for one that has not begun or has failed too. *)
LEMMA Places ==
    ASSUME Types, NEW q \in Requests
    PROVE  /\ request[q].at \in {"new", "find", "merge", "cache", "done", "failed"}
           /\ request[q].at = "new" => request[q] = New
           /\ request[q].at \in {"find", "merge", "cache", "done"} => request[q] \in Asked
  BY NotAsked DEF Types, Asked

(* A step that makes no commit, finds no parent and answers nothing. *)
LEMMA QuietKeeps ==
    ASSUME SInv, UNCHANGED <<viewRef, parent, reach, tip, answer>>,
           firm' \in SUBSET firm, cache' = cache \/ (cache' = NoView /\ firm' = {}),
           want' \in [Requests -> Requests \cup {NoView}],
           \A q \in Requests :
              /\ Done(q) => Done(q)'
              /\ request'[q].at \in {"merge", "cache", "done"} =>
                    request'[q].at = request[q].at
              /\ request'[q].at \in {"new", "find"} =>
                    request[q].at \in {"new", "find", "merge"}
              /\ want'[q] # want[q] =>
                    answer[q] = "none" /\ (want'[q] = NoView \/ Told(want'[q]))
    PROVE  SInv'
  <1>1. SessionTypes'
    BY DEF SInv, SessionTypes
  <1>2. Answered'
    BY DEF SInv, Answered, Told
  <1>3. Made'
    BY DEF SInv, Made
  <1>4. FirmHeld'
    BY DEF SInv, FirmHeld, Held
  <1>5. ToldIsServed'
    BY DEF SInv, ToldIsServed
  <1> QED
    BY <1>1, <1>2, <1>3, <1>4, <1>5 DEF SInv

LEMMA SInvInit == SessionInit => SInv
  <1> SUFFICES ASSUME SessionInit PROVE SInv
    OBVIOUS
  <1>1. /\ want = [q \in Requests |-> NoView] /\ parent = want /\ tip = want
        /\ reach = [q \in Requests |-> {}] /\ answer = [q \in Requests |-> "none"]
        /\ firm = {} /\ viewRef = NoView /\ cache = NoView
        /\ request = [q \in Requests |-> New]
    BY DEF SessionInit, Init
  <1>2. SessionTypes
    BY <1>1 DEF SessionTypes
  <1>3. Answered /\ FirmHeld /\ ToldIsServed
    BY <1>1 DEF Answered, Told, FirmHeld, ToldIsServed
  <1>4. Made
    BY <1>1, NotAsked DEF Made
  <1> QED
    BY <1>2, <1>3, <1>4 DEF SInv

LEMMA BuildBesideKeeps ==
    ASSUME CInv, SInv, BuildBeside
    PROVE  SInv'
  <1>1. request' = request /\ viewRef' = viewRef /\ cache' \in {cache, NoView}
    BY WriterSteps DEF BuildBeside
  <1>2. /\ UNCHANGED <<want, parent, reach, tip, answer>>
        /\ firm' = IF cache' = NoView THEN {} ELSE firm
    BY DEF BuildBeside
  <1>3. want' \in [Requests -> Requests \cup {NoView}]
    BY <1>2 DEF SInv, SessionTypes
  <1>4. firm' \in SUBSET firm /\ (cache' = cache \/ (cache' = NoView /\ firm' = {}))
    BY <1>1, <1>2
  <1>5. \A q \in Requests : (Done(q)' <=> Done(q)) /\ want'[q] = want[q]
                            /\ request'[q].at = request[q].at
    BY <1>1, <1>2 DEF Done
  <1> QED
    BY <1>1, <1>2, <1>3, <1>4, <1>5, QuietKeeps

LEMMA AskKeeps ==
    ASSUME CInv, SInv, NEW q \in Requests, Ask(q)
    PROVE  SInv'
  <1>1. PICK S \in Accessible : GetVersions(q, S)
    BY DEF Ask
  <1>2. PICK o \in {NoView} \cup {r \in Requests : Told(r)} :
           want' = [want EXCEPT ![q] = o]
    BY DEF Ask
  <1>3. /\ UNCHANGED <<viewRef, cache, parent, reach, tip, answer, firm>>
        /\ request[q] = New
    BY <1>1 DEF Ask, GetVersions, views
  <1>4. ASSUME NEW r \in Requests, r # q PROVE request'[r].at = request[r].at
    <2>1. request'[r] = IF InProgress(r) THEN [request[r] EXCEPT !.alone = FALSE]
                        ELSE request[r]
      BY <1>1, <1>4 DEF GetVersions
    <2>2. InProgress(r) => request[r] \in Asked
      BY AskedFields DEF CInv
    <2> QED
      BY <2>1, <2>2 DEF Asked
  <1>5. request[q].at = "new" /\ request'[q].at = "find"
    BY <1>1, <1>3, NotAsked DEF GetVersions
  <1>6. answer[q] = "none"
    BY <1>5 DEF SInv, Answered, Done
  <1>7. want' \in [Requests -> Requests \cup {NoView}]
    BY <1>2 DEF SInv, SessionTypes
  <1>8. \A r \in Requests :
           want'[r] # want[r] =>
              answer[r] = "none" /\ (want'[r] = NoView \/ Told(want'[r]))
    BY <1>2, <1>6 DEF SInv, SessionTypes
  <1> QED
    BY <1>3, <1>4, <1>5, <1>7, <1>8, QuietKeeps DEF Done

LEMMA FindParentKeeps ==
    ASSUME CInv, SInv, NEW q \in Requests, FindParent(q)
    PROVE  SInv'
  <1>1. /\ UNCHANGED <<viewRef, cache, want, reach, tip, answer, firm>>
        /\ parent' = [parent EXCEPT ![q] = IF cache = NoView THEN NoView
                                           ELSE cache.commit.by]
        /\ request[q].at = "find"
    BY DEF FindParent, FindView, views
  <1>2. request[q] \in Asked
    BY <1>1, AskedFields DEF CInv, InProgress
  <1>3. /\ \A r \in Requests \ {q} : request'[r] = request[r]
        /\ request'[q].at \in {"merge", "done"}
        /\ request'[q].at = "done" => cache # NoView
    BY <1>2 DEF FindParent, FindView, CInv, Types, Asked
  <1>4. cache # NoView => cache.commit.by \in Requests
    BY DEF CInv, Types, Cached, View
  <1>5. SessionTypes'
    BY <1>1, <1>4 DEF SInv, SessionTypes
  <1>6. Answered'
    BY <1>1, <1>3 DEF SInv, Answered, Told, Done
  <1>7. Made'
    BY <1>1, <1>3 DEF SInv, Made
  <1>8. FirmHeld'
    <2> SUFFICES ASSUME NEW o \in firm
                 PROVE  Held(tip[o])'
      BY <1>1 DEF FirmHeld
    <2>1. Held(tip[o])
      BY DEF SInv, FirmHeld
    <2>2. ASSUME NEW r \in Requests
          PROVE  /\ request'[r].at = "merge" =>
                        parent'[r] # NoView /\ tip[o] \in reach[parent'[r]]
                 /\ request'[r].at = "cache" => tip[o] \in reach[r]
      <3>1. CASE r = q
        <4>1. parent'[r] = cache.commit.by
          BY <1>1, <2>1, <3>1 DEF Held, SInv, SessionTypes
        <4> QED
          BY <1>3, <1>4, <2>1, <3>1, <4>1, SessionAssumption DEF Held
      <3>2. CASE r # q
        BY <1>1, <1>3, <2>1, <3>2 DEF Held, SInv, SessionTypes
      <3> QED
        BY <3>1, <3>2
    <2> QED
      BY <1>1, <2>1, <2>2 DEF Held
  <1>9. ToldIsServed'
    BY <1>1 DEF SInv, ToldIsServed
  <1> QED
    BY <1>5, <1>6, <1>7, <1>8, <1>9 DEF SInv

LEMMA MergeKeeps ==
    ASSUME CInv, SInv, NEW q \in Requests, Merge(q)
    PROVE  SInv'
  <1>1. /\ UNCHANGED <<viewRef, cache, session>> /\ request[q].at = "merge"
    BY DEF Merge, ReadRef, FallBack, views
  <1>2. request[q] \in Asked
    BY <1>1, AskedFields DEF CInv, InProgress
  <1>3. \A r \in Requests : request'[r].at = request[r].at
    <2>1. ASSUME NEW ns \in Namespaces, ReadRef(q, ns)
          PROVE  \A r \in Requests : request'[r].at = request[r].at
      <3> DEFINE c == [m \in DOMAIN request[q].content \cup {ns} |->
                         IF m = ns THEN ref[ns].tree ELSE request[q].content[m]]
      <3>1. request' = [request EXCEPT ![q].content = c]
        BY <2>1 DEF ReadRef
      <3> HIDE DEF c
      <3> QED
        BY <1>2, <3>1 DEF CInv, Types, Asked
    <2>2. ASSUME FallBack(q)
          PROVE  \A r \in Requests : request'[r].at = request[r].at
      BY <1>2, <2>2 DEF FallBack, CInv, Types, Asked
    <2> QED
      BY <2>1, <2>2 DEF Merge
  <1>4. want' \in [Requests -> Requests \cup {NoView}]
    BY <1>1 DEF session, SInv, SessionTypes
  <1> QED
    BY <1>1, <1>3, <1>4, QuietKeeps DEF session, Done

LEMMA WriteCommitKeeps ==
    ASSUME CInv, SInv, NEW q \in Requests, WriteCommit(q)
    PROVE  SInv'
  <1>1. /\ UNCHANGED <<cache, want, parent, tip, answer, firm>>
        /\ viewRef' = [by |-> q, content |-> request[q].content]
        /\ request[q].at = "merge"
        /\ reach' = [reach EXCEPT ![q] =
                       {q} \cup (IF parent[q] = NoView THEN {} ELSE reach[parent[q]])]
    BY DEF WriteCommit, UpdateViewRef
  <1>2. request[q] \in Asked
    BY <1>1, AskedFields DEF CInv, InProgress
  <1>3. /\ \A r \in Requests \ {q} : request'[r] = request[r]
        /\ request'[q].at = "cache"
    BY <1>2 DEF WriteCommit, UpdateViewRef, CInv, Types, Asked
  <1>4. viewRef' # NoView
    <2>1. viewRef' \in View
      BY UpdateViewRefKeeps DEF WriteCommit
    <2> QED
      BY <2>1, SessionAssumption
  <1>5. SessionTypes'
    <2>1. parent[q] # NoView => reach[parent[q]] \in SUBSET Requests
      BY DEF SInv, SessionTypes
    <2> QED
      BY <1>1, <2>1 DEF SInv, SessionTypes
  <1>6. Answered'
    BY <1>1, <1>3 DEF SInv, Answered, Told, Done
  <1>7. /\ q \in reach'[q]
        /\ parent[q] # NoView => reach[parent[q]] \subseteq reach'[q]
        /\ \A r \in Requests \ {q} : reach'[r] = reach[r]
        /\ \A r \in Requests : reach[r] \subseteq reach'[r]
    BY <1>1 DEF SInv, SessionTypes, Made
  <1>8. Made'
    BY <1>1, <1>3, <1>4, <1>7 DEF SInv, Made
  <1>9. FirmHeld'
    <2> SUFFICES ASSUME NEW o \in firm
                 PROVE  Held(tip[o])'
      BY <1>1 DEF FirmHeld
    <2>1. Held(tip[o])
      BY DEF SInv, FirmHeld
    <2>2. tip[o] \in reach'[q]
      BY <1>1, <1>7, <2>1 DEF Held
    <2>3. cache # NoView /\ tip[o] \in reach'[cache.commit.by]
      <3>1. cache.commit.by \in Requests
        BY <2>1 DEF Held, CInv, Types, Cached, View
      <3> QED
        BY <1>7, <2>1, <3>1 DEF Held
    <2>4. ASSUME NEW r \in Requests
          PROVE  /\ request'[r].at = "merge" =>
                        parent[r] # NoView /\ tip[o] \in reach'[parent[r]]
                 /\ request'[r].at = "cache" => tip[o] \in reach'[r]
      <3>1. CASE r = q
        BY <1>3, <2>2, <3>1
      <3>2. CASE r # q
        <4>1. parent[r] # NoView => parent[r] \in Requests
          BY DEF SInv, SessionTypes
        <4> QED
          BY <1>3, <1>7, <2>1, <3>2, <4>1 DEF Held
      <3> QED
        BY <3>1, <3>2
    <2> QED
      BY <1>1, <1>4, <2>2, <2>3, <2>4 DEF Held
  <1>10. ToldIsServed'
    BY <1>1 DEF SInv, ToldIsServed
  <1> QED
    BY <1>5, <1>6, <1>8, <1>9, <1>10 DEF SInv

LEMMA FinishKeeps ==
    ASSUME CInv, SInv, NEW q \in Requests, Finish(q)
    PROVE  SInv'
  <1>1. UNCHANGED <<viewRef, session>>
    BY DEF Finish, UpsertView, ComposeFails
  <1>2. InProgress(q) /\ request[q] \in Asked
    BY AskedFields DEF Finish, UpsertView, ComposeFails, InProgress, CInv
  <1>3. CASE UpsertView(q)
    <2>1. /\ request[q].at = "cache"
          /\ cache' = [commit |-> [by |-> q, content |-> request[q].content],
                       versions |-> request[q].versions]
          /\ request'[q].at = "done"
          /\ \A r \in Requests \ {q} : request'[r] = request[r]
      BY <1>2, <1>3 DEF UpsertView, CInv, Types, Asked
    <2>2. SessionTypes'
      BY <1>1 DEF session, SInv, SessionTypes
    <2>3. Answered'
      BY <1>1, <2>1 DEF session, SInv, Answered, Told, Done
    <2>4. Made'
      BY <1>1, <2>1 DEF session, SInv, Made
    <2>5. FirmHeld'
      <3> SUFFICES ASSUME NEW o \in firm
                   PROVE  Held(tip[o])'
        BY <1>1 DEF session, FirmHeld
      <3>1. Held(tip[o])
        BY DEF SInv, FirmHeld
      <3>2. cache'.commit.by = q /\ tip[o] \in reach[q]
        BY <2>1, <3>1 DEF Held
      <3>3. cache' # NoView
        BY <1>3, UpsertViewKeeps, SessionAssumption
      <3> QED
        BY <1>1, <2>1, <3>1, <3>2, <3>3 DEF session, Held
    <2>6. ToldIsServed'
      BY <1>1 DEF session, SInv, ToldIsServed
    <2> QED
      BY <2>2, <2>3, <2>4, <2>5, <2>6 DEF SInv
  <1>4. CASE ComposeFails(q)
    <2>1. /\ cache' = cache /\ request'[q].at = "failed"
          /\ \A r \in Requests \ {q} : request'[r] = request[r]
      BY <1>4 DEF ComposeFails, CInv, Types
    <2>2. want' \in [Requests -> Requests \cup {NoView}]
      BY <1>1 DEF session, SInv, SessionTypes
    <2> QED
      BY <1>1, <1>2, <2>1, <2>2, QuietKeeps DEF session, Done, InProgress
  <1> QED
    BY <1>3, <1>4 DEF Finish

LEMMA AdvertiseRefsKeeps ==
    ASSUME CInv, SInv, NEW q \in Requests, AdvertiseRefs(q)
    PROVE  SInv'
  <1>1. /\ UNCHANGED <<vars, want, parent, reach>> /\ Done(q) /\ answer[q] = "none"
        /\ tip' = [tip EXCEPT ![q] = viewRef.by]
        /\ answer' = [answer EXCEPT ![q] = "told"]
        /\ firm' = IF Agree THEN firm \cup {q} ELSE firm
    BY DEF AdvertiseRefs
  <1>2. /\ request' = request /\ viewRef' = viewRef /\ cache' = cache
        /\ want' = want /\ parent' = parent /\ reach' = reach
    BY <1>1 DEF vars, views
  <1>3. viewRef # NoView /\ viewRef.by \in Requests
    BY <1>1 DEF SInv, Made, Done, CInv, Types, View
  <1>4. q \notin firm
    BY <1>1 DEF SInv, Answered, Told
  <1>5. /\ tip'[q] = viewRef.by /\ answer'[q] = "told"
        /\ \A r \in Requests \ {q} : tip'[r] = tip[r] /\ answer'[r] = answer[r]
    BY <1>1 DEF SInv, SessionTypes
  <1>6. SessionTypes'
    BY <1>1, <1>2, <1>3 DEF SInv, SessionTypes
  <1>7. Answered'
    BY <1>1, <1>2, <1>3, <1>5 DEF SInv, Answered, Told, Done, SessionTypes
  <1>8. Made'
    BY <1>2 DEF SInv, Made
  <1>9. FirmHeld'
    <2> SUFFICES ASSUME NEW o \in firm'
                 PROVE  Held(tip[o])'
      BY DEF FirmHeld
    <2>1. CASE o = q
      <3>1. Agree
        BY <1>1, <1>4, <2>1
      <3> QED
        BY <1>2, <1>3, <1>5, <2>1, <3>1 DEF Held, Agree, SInv, Made
    <2>2. CASE o # q
      <3>1. o \in firm /\ tip'[o] = tip[o]
        BY <1>1, <1>5, <2>2 DEF SInv, SessionTypes
      <3>2. Held(tip[o])
        BY <3>1 DEF SInv, FirmHeld
      <3> QED
        BY <1>2, <3>1, <3>2 DEF Held
    <2> QED
      BY <2>1, <2>2
  <1>10. ToldIsServed'
    <2> SUFFICES ASSUME NEW r \in Requests, answer'[r] = "refused"
                 PROVE  want[r] \notin firm'
      BY <1>2 DEF ToldIsServed
    <2>1. answer[r] = "refused"
      BY <1>5
    <2>2. want[r] \notin firm
      BY <2>1 DEF SInv, ToldIsServed
    <2>3. want[r] # q
      BY <1>1, SessionAssumption DEF SInv, Answered, Told
    <2> QED
      BY <1>1, <2>2, <2>3
  <1> QED
    BY <1>6, <1>7, <1>8, <1>9, <1>10 DEF SInv

LEMMA UploadPackKeeps ==
    ASSUME CInv, SInv, NEW q \in Requests, UploadPack(q)
    PROVE  SInv'
  <1>1. /\ UNCHANGED <<vars, want, parent, reach, tip, firm>>
        /\ Done(q) /\ answer[q] = "none"
        /\ answer' = [answer EXCEPT ![q] =
                        IF Reachable(tip[want[q]]) THEN "served" ELSE "refused"]
    BY DEF UploadPack
  <1>2. /\ request' = request /\ viewRef' = viewRef /\ cache' = cache
        /\ want' = want /\ parent' = parent /\ reach' = reach /\ tip' = tip
        /\ firm' = firm
    BY <1>1 DEF vars, views
  <1>3. /\ answer'[q] = IF Reachable(tip[want[q]]) THEN "served" ELSE "refused"
        /\ \A r \in Requests \ {q} : answer'[r] = answer[r]
    BY <1>1 DEF SInv, SessionTypes
  <1>4. SessionTypes'
    BY <1>1, <1>2 DEF SInv, SessionTypes
  <1>5. Answered'
    <2>1. \A r \in Requests : Told(r) <=> Told(r)'
      BY <1>1, <1>3 DEF Told
    <2>2. \A r \in Requests : Done(r)' <=> Done(r)
      BY <1>2 DEF Done
    <2>3. \A r \in Requests : want[r] # NoView => want[r] \in Requests
      BY DEF SInv, SessionTypes
    <2> QED
      BY <1>1, <1>2, <1>3, <2>1, <2>2, <2>3 DEF SInv, Answered
  <1>6. Made' /\ FirmHeld'
    BY <1>2 DEF SInv, Made, FirmHeld, Held
  <1>7. ToldIsServed'
    <2> SUFFICES ASSUME NEW r \in Requests, answer'[r] = "refused"
                 PROVE  want[r] \notin firm
      BY <1>2 DEF ToldIsServed
    <2>1. CASE r = q
      <3>1. tip[want[q]] \notin reach[viewRef.by]
        BY <1>3, <2>1 DEF Reachable
      <3> QED
        BY <2>1, <3>1 DEF SInv, FirmHeld, Held
    <2>2. CASE r # q
      BY <1>3, <2>2 DEF SInv, ToldIsServed
    <2> QED
      BY <2>1, <2>2
  <1> QED
    BY <1>4, <1>5, <1>6, <1>7 DEF SInv

LEMMA SInvNext == CInv /\ SInv /\ [SessionNext]_allVars => SInv'
  <1> SUFFICES ASSUME CInv, SInv, [SessionNext]_allVars PROVE SInv'
    OBVIOUS
  <1>1. CASE UNCHANGED allVars
    BY <1>1 DEF allVars, vars, views, session, SInv, SessionTypes, Answered, Told, Done,
                Made, FirmHeld, Held, ToldIsServed
  <1>2. CASE BuildBeside
    BY <1>2, BuildBesideKeeps
  <1>3. ASSUME NEW q \in Requests,
               \/ Ask(q) \/ FindParent(q) \/ Merge(q) \/ WriteCommit(q) \/ Finish(q)
               \/ AdvertiseRefs(q) \/ UploadPack(q)
        PROVE  SInv'
    BY <1>3, AskKeeps, FindParentKeeps, MergeKeeps, WriteCommitKeeps, FinishKeeps,
       AdvertiseRefsKeeps, UploadPackKeeps
  <1>4. CASE Crash /\ UNCHANGED session
    <2>1. UNCHANGED <<viewRef, cache, session>>
      BY <1>4 DEF Crash
    <2>2. \A q \in Requests : request'[q] = IF InProgress(q) THEN [at |-> "failed"]
                                            ELSE request[q]
      BY <1>4 DEF Crash
    <2>3. want' \in [Requests -> Requests \cup {NoView}]
      BY <2>1 DEF session, SInv, SessionTypes
    <2> QED
      BY <2>1, <2>2, <2>3, QuietKeeps DEF session, Done, InProgress
  <1> QED
    BY <1>1, <1>2, <1>3, <1>4 DEF SessionNext

(* A client is served the commit it was told, although each of its two       *)
(* requests composes the view anew and others of the user do so in between,  *)
(* overlap, fail or die: vault-want-guard.ts and the parents of compose.     *)
(* Resets, and answers given while tip and document were apart, are excepted.*)
THEOREM ToldCommitsServed == SessionSpec => []ToldIsServed
  <1>1. SInv => ToldIsServed
    BY DEF SInv
  <1> QED
    BY <1>1, SInvInit, SInvNext, SessionCInvariant, PTL DEF SessionSpec

-----------------------------------------------------------------------------
(* Sessions: a tip is as new as the request that is told it. *)

LEMMA OnwardInit == SessionInit => Onward
  BY NotAsked DEF SessionInit, Init, Onward, Done

(* A step of the writers. *)
LEMMA WritersOnward ==
    ASSUME CInv, Onward, Build \/ Maintain
    PROVE  Onward'
  <1>1. /\ Types /\ Types' /\ request' = request /\ cache' \in {cache, NoView}
        /\ \A ns \in Namespaces : undone[ns] <= undone'[ns]
    BY WriterSteps DEF CInv
  <1>2. \A c \in Parts, v \in Versions : Current(c, v) => Current(c, v)'
    BY <1>1, StillCurrent
  <1> SUFFICES ASSUME NEW q \in Requests, Done(q), request[q].alone
               PROVE  /\ cache' # NoView =>
                            Current(cache.commit.content, request[q].versions)'
                      /\ \A r \in Requests : InProgress(r) =>
                            Current(request[r].content, request[q].versions)'
    BY <1>1 DEF Onward, Done, InProgress
  <1>3. request[q].versions \in Versions
    BY <1>1, AskedFields
  <1>4. ASSUME cache' = cache, cache # NoView
        PROVE  Current(cache.commit.content, request[q].versions)'
    <2>1. cache.commit.content \in Parts
      BY <1>1, <1>4, PartsAre DEF Types, Cached, View
    <2>2. Current(cache.commit.content, request[q].versions)
      BY <1>4 DEF Onward
    <2> QED
      BY <1>1, <1>2, <1>3, <1>4, <2>1, <2>2 DEF Current
  <1>5. ASSUME NEW r \in Requests, InProgress(r)
        PROVE  Current(request[r].content, request[q].versions)'
    <2>1. request[r].content \in Parts
      BY <1>1, <1>5, AskedFields
    <2>2. Current(request[r].content, request[q].versions)
      BY <1>5 DEF Onward
    <2> QED
      BY <1>1, <1>2, <1>3, <2>1, <2>2 DEF Current
  <1> QED
    BY <1>1, <1>4, <1>5

(* A step of a request that begins nothing and writes no document: what it   *)
(* has merged stays as new as the versions of those that are done.           *)
LEMMA RequestOnward ==
    ASSUME CInv, Onward, UNCHANGED <<undone, cache>>,
           \A q \in Requests :
              /\ InProgress(q)' => InProgress(q)
              /\ Done(q)' => InProgress(q) \/ Done(q)
              /\ InProgress(q)' \/ Done(q)' =>
                    /\ request'[q].versions = request[q].versions
                    /\ request'[q].alone = request[q].alone
              /\ InProgress(q)' => \A p \in Requests : (Done(p) /\ request[p].alone) =>
                    Current(request'[q].content, request[p].versions)
              /\ (Done(q)' /\ ~Done(q) /\ request[q].alone /\ cache # NoView) =>
                    Current(cache.commit.content, request[q].versions)
    PROVE  Onward'
  <1>1. ASSUME NEW q \in Requests, Done(q)', ~Done(q), request[q].alone,
               NEW r \in Requests, InProgress(r)'
        PROVE  FALSE
    <2>1. InProgress(q) /\ InProgress(r)
      BY <1>1
    <2>2. r # q
      BY <1>1 DEF InProgress, Done
    <2> QED
      BY <1>1, <2>1, <2>2 DEF CInv, Lone
  <1>2. ASSUME NEW q \in Requests, Done(q)', request'[q].alone
        PROVE  /\ cache' # NoView => Current(cache.commit.content, request[q].versions)'
               /\ \A r \in Requests : InProgress(r)' =>
                     Current(request[r].content, request[q].versions)'
    <2>1. request'[q].versions = request[q].versions /\ request[q].alone
      BY <1>2
    <2>2. CASE Done(q)
      <3>1. cache # NoView => Current(cache.commit.content, request[q].versions)
        BY <2>1, <2>2 DEF Onward
      <3>2. \A r \in Requests : InProgress(r)' =>
               Current(request'[r].content, request[q].versions)
        BY <2>1, <2>2
      <3> QED
        BY <2>1, <3>1, <3>2 DEF Current
    <2>3. CASE ~Done(q)
      <3>1. cache # NoView => Current(cache.commit.content, request[q].versions)
        BY <1>2, <2>1, <2>3
      <3>2. \A r \in Requests : ~InProgress(r)'
        BY <1>1, <1>2, <2>1, <2>3
      <3> QED
        BY <2>1, <3>1, <3>2 DEF Current
    <2> QED
      BY <2>2, <2>3
  <1> QED
    BY <1>2 DEF Onward

(* A request that begins has merged nothing. *)
LEMMA AskOnward ==
    ASSUME CInv, Onward, NEW q \in Requests, NEW S \in Accessible, GetVersions(q, S)
    PROVE  Onward'
  <1>1. /\ request[q] = New
        /\ request'[q].at = "find" /\ request'[q].content = <<>>
        /\ UNCHANGED <<undone, cache>>
    BY DEF GetVersions, namespaces, views
  <1>2. \A r \in Requests \ {q} :
           request'[r] = IF InProgress(r) THEN [request[r] EXCEPT !.alone = FALSE]
                         ELSE request[r]
    BY DEF GetVersions
  <1>3. ASSUME NEW r \in Requests \ {q}
        PROVE  /\ InProgress(r)' = InProgress(r) /\ Done(r)' = Done(r)
               /\ Done(r) => request'[r] = request[r]
               /\ InProgress(r) => request'[r].content = request[r].content
    <2>1. CASE InProgress(r)
      <3>1. request[r] \in Asked
        BY <2>1, AskedFields DEF CInv
      <3>2. request'[r] = [request[r] EXCEPT !.alone = FALSE]
        BY <1>2, <2>1
      <3>3. request'[r].at = request[r].at /\ request'[r].content = request[r].content
        BY <3>1, <3>2 DEF Asked
      <3> QED
        BY <2>1, <3>3 DEF InProgress, Done
    <2>2. CASE ~InProgress(r)
      BY <1>2, <2>2 DEF InProgress, Done
    <2> QED
      BY <2>1, <2>2
  <1>4. ASSUME NEW p \in Requests, Done(p)', request'[p].alone
        PROVE  /\ cache' # NoView => Current(cache.commit.content, request[p].versions)'
               /\ \A r \in Requests : InProgress(r)' =>
                     Current(request[r].content, request[p].versions)'
    <2>1. p # q
      BY <1>1, <1>4 DEF Done
    <2>2. Done(p) /\ request'[p] = request[p]
      BY <1>3, <1>4, <2>1
    <2>3. cache # NoView => Current(cache.commit.content, request[p].versions)
      BY <1>4, <2>2 DEF Onward
    <2>4. ASSUME NEW r \in Requests, InProgress(r)'
          PROVE  Current(request[r].content, request[p].versions)'
      <3>1. CASE r = q
        BY <1>1, <3>1, PartsAre DEF Current
      <3>2. CASE r # q
        <4>1. InProgress(r) /\ request'[r].content = request[r].content
          BY <1>3, <2>4, <3>2
        <4>2. Current(request[r].content, request[p].versions)
          BY <1>4, <2>2, <4>1 DEF Onward
        <4> QED
          BY <1>1, <2>2, <4>1, <4>2 DEF Current
      <3> QED
        BY <3>1, <3>2
    <2> QED
      BY <1>1, <2>2, <2>3, <2>4 DEF Current
  <1> QED
    BY <1>4 DEF Onward

(* A ref is read as new as the versions of every request before it. *)
LEMMA ReadOnward ==
    ASSUME CInv, Onward, NEW q \in Requests, NEW ns \in Namespaces, ReadRef(q, ns)
    PROVE  Onward'
  <1> DEFINE content == request[q].content
             read == [m \in DOMAIN content \cup {ns} |->
                        IF m = ns THEN ref[ns].tree ELSE content[m]]
  <1>1. /\ request[q].at = "merge" /\ UNCHANGED <<undone, cache>>
        /\ request' = [request EXCEPT ![q].content = read]
    BY DEF ReadRef, namespaces, views
  <1>2. Types /\ InProgress(q) /\ request[q] \in Asked
    BY <1>1, AskedFields DEF CInv, InProgress
  <1>3. ASSUME NEW p \in Requests, Done(p), request[p].alone
        PROVE  Current(read, request[p].versions)
    <2> DEFINE v == request[p].versions
    <2>1. v \in Versions /\ AllKnown(v)
      BY <1>2, <1>3, AskedFields DEF CInv, Fresh, Sound
    <2>2. Current(content, v)
      BY <1>2, <1>3 DEF Onward
    <2> SUFFICES ASSUME NEW m \in (DOMAIN content \cup {ns}) \cap DOMAIN v
                 PROVE  read[m] >= v[m].tree \/ v[m].tree <= undone[m]
      BY DEF Current
    <2>3. CASE m = ns
      <3>1. Known(v[ns], ns) /\ v[ns].tree \in Nat /\ ref[ns].tree \in Nat
        BY <1>2, <2>1, <2>3, PartsAre, ConstantFacts
           DEF AllKnown, Types, NumberTypes
      <3> QED
        BY <2>3, <3>1 DEF Known
    <2>4. CASE m # ns
      BY <2>2, <2>4 DEF Current
    <2> QED
      BY <2>3, <2>4
  <1> HIDE DEF read
  <1>4. /\ request'[q].at = "merge" /\ request'[q].content = read
        /\ request'[q].versions = request[q].versions
        /\ request'[q].alone = request[q].alone
        /\ \A r \in Requests \ {q} : request'[r] = request[r]
    BY <1>1, <1>2 DEF Types, Asked
  <1>5. \A r \in Requests : /\ InProgress(r)' = InProgress(r) /\ Done(r)' = Done(r)
    BY <1>1, <1>4 DEF InProgress, Done
  <1>6. \A r \in Requests : InProgress(r) => \A p \in Requests :
           (Done(p) /\ request[p].alone) => Current(request'[r].content, request[p].versions)
    BY <1>3, <1>4 DEF Onward
  <1> QED
    BY <1>1, <1>4, <1>5, <1>6, RequestOnward

(* The document that is written is what the request has merged. *)
LEMMA UpsertOnward ==
    ASSUME CInv, Onward, NEW q \in Requests, UpsertView(q)
    PROVE  Onward'
  <1>1. /\ request[q].at = "cache" /\ undone' = undone
        /\ cache' = [commit |-> [by |-> q, content |-> request[q].content],
                     versions |-> request[q].versions]
    BY DEF UpsertView, namespaces
  <1>2. Types /\ InProgress(q) /\ Sound(q) /\ request[q] \in Asked
    BY <1>1, AskedFields DEF CInv, Fresh, InProgress
  <1>3. /\ request'[q].at = "done" /\ request'[q].versions = request[q].versions
        /\ request'[q].alone = request[q].alone
        /\ \A r \in Requests \ {q} : request'[r] = request[r]
    BY <1>2 DEF UpsertView, Types, Asked
  <1>4. cache'.commit.content = request[q].content
    BY <1>1
  <1>5. Current(request[q].content, request[q].versions)
    BY <1>2 DEF Sound
  <1>6. request[q].alone => \A r \in Requests : ~InProgress(r)'
    BY <1>2, <1>3 DEF CInv, Lone, InProgress
  <1>7. ASSUME NEW p \in Requests, Done(p)', request'[p].alone
        PROVE  /\ Current(cache.commit.content, request[p].versions)'
               /\ \A r \in Requests : InProgress(r)' =>
                     Current(request[r].content, request[p].versions)'
    <2>1. CASE p = q
      BY <1>1, <1>3, <1>4, <1>5, <1>6, <1>7, <2>1 DEF Current
    <2>2. CASE p # q
      <3>1. request'[p] = request[p] /\ Done(p) /\ request[p].alone
        BY <1>3, <1>7, <2>2 DEF Done
      <3>2. \A r \in Requests : InProgress(r)' => InProgress(r) /\ request'[r] = request[r]
        BY <1>3 DEF InProgress
      <3>3. Current(request[q].content, request[p].versions)
        BY <1>2, <3>1 DEF Onward
      <3>4. \A r \in Requests : InProgress(r) =>
               Current(request[r].content, request[p].versions)
        BY <3>1 DEF Onward
      <3> QED
        BY <1>1, <1>4, <3>1, <3>2, <3>3, <3>4 DEF Current
    <2> QED
      BY <2>1, <2>2
  <1> QED
    BY <1>7 DEF Onward

LEMMA OnwardNext == CInv /\ Onward /\ [Next]_vars => Onward'
  <1> SUFFICES ASSUME CInv, Onward, [Next]_vars PROVE Onward'
    OBVIOUS
  <1>1. CASE UNCHANGED vars
    <2>1. UNCHANGED <<undone, cache, request>>
      BY <1>1 DEF vars, namespaces, views
    <2> QED
      BY <2>1 DEF Onward, Current, InProgress, Done
  <1>2. CASE Build \/ Maintain
    BY <1>2, WritersOnward
  <1>3. ASSUME NEW q \in Requests,
               FindView(q) \/ FallBack(q) \/ UpdateViewRef(q) \/ ComposeFails(q)
        PROVE  Onward'
    <2>1. UNCHANGED <<undone, cache>> /\ InProgress(q)
      BY <1>3 DEF FindView, FallBack, UpdateViewRef, ComposeFails, InProgress,
                  namespaces, views
    <2>2. request[q] \in Asked
      BY <2>1, AskedFields DEF CInv
    <2>3. \A r \in Requests \ {q} : request'[r] = request[r]
      BY <1>3 DEF FindView, FallBack, UpdateViewRef, ComposeFails, CInv, Types
    <2>4. \/ request'[q].at = "failed"
          \/ /\ request'[q].at \in {"merge", "cache", "done"}
             /\ request'[q].versions = request[q].versions
             /\ request'[q].alone = request[q].alone
             /\ request'[q].content \in {request[q].content, <<>>}
             /\ request'[q].at = "done" =>
                   cache # NoView /\ cache.versions = request[q].versions
      <3>1. CASE FindView(q)
        BY <2>2, <3>1 DEF FindView, CInv, Types, Asked
      <3>2. CASE FallBack(q)
        BY <2>2, <3>2 DEF FallBack, CInv, Types, Asked
      <3>3. CASE UpdateViewRef(q)
        BY <2>2, <3>3 DEF UpdateViewRef, CInv, Types, Asked
      <3>4. CASE ComposeFails(q)
        BY <3>4 DEF ComposeFails, CInv, Types
      <3> QED
        BY <1>3, <3>1, <3>2, <3>3, <3>4
    <2>5. request'[q].at = "done" => Current(cache.commit.content, request[q].versions)
      BY <2>4 DEF CInv, Fresh, Kept, Whole
    <2>6. \A v : Current(<<>>, v)
      BY PartsAre DEF Current
    <2>7. InProgress(q)' => \A p \in Requests : (Done(p) /\ request[p].alone) =>
             Current(request'[q].content, request[p].versions)
      BY <2>1, <2>4, <2>6 DEF Onward, InProgress
    <2>8. \A r \in Requests \ {q} : InProgress(r) => \A p \in Requests :
             (Done(p) /\ request[p].alone) => Current(request'[r].content, request[p].versions)
      BY <2>3 DEF Onward
    <2> QED
      BY <2>1, <2>3, <2>4, <2>5, <2>7, <2>8, RequestOnward DEF InProgress, Done
  <1>4. ASSUME NEW q \in Requests, NEW ns \in Namespaces, ReadRef(q, ns) PROVE Onward'
    BY <1>4, ReadOnward
  <1>5. ASSUME NEW q \in Requests, NEW S \in Accessible, GetVersions(q, S) PROVE Onward'
    BY <1>5, AskOnward
  <1>6. ASSUME NEW q \in Requests, UpsertView(q) PROVE Onward'
    BY <1>6, UpsertOnward
  <1>7. CASE Crash
    <2>1. UNCHANGED <<undone, cache>>
      BY <1>7 DEF Crash
    <2>2. \A q \in Requests : request'[q] = IF InProgress(q) THEN [at |-> "failed"]
                                            ELSE request[q]
      BY <1>7 DEF Crash
    <2> QED
      BY <2>1, <2>2, RequestOnward DEF InProgress, Done
  <1> QED
    BY <1>1, <1>2, <1>3, <1>4, <1>5, <1>6, <1>7 DEF Next, Compose

(* A client whose compose no other overlaps is told a tip that shows every   *)
(* namespace as it was recorded when the request began, or later, unless tip *)
(* and document were apart, or a reset or an overtaking squash undid it:     *)
(* vault-gateway.ts and git-proxy-controller.ts, where git reads the tip in  *)
(* a call of its own.                                                        *)
THEOREM ToldTipsFresh == SessionSpec => ToldIsFresh
  <1>1. ASSUME CInv, Onward, SInv, [SessionNext]_allVars, NEW q \in Requests,
               Told(q)', ~Told(q), request[q].alone, Agree,
               NEW ns \in DOMAIN request[q].versions \cap DOMAIN viewRef.content
        PROVE  \/ viewRef.content[ns] >= request[q].versions[ns].tree
               \/ request[q].versions[ns].tree <= undone[ns]
    <2>1. answer' # answer
      BY <1>1 DEF Told
    <2>2. PICK r \in Requests : AdvertiseRefs(r) \/ UploadPack(r)
      BY <1>1, <2>1 DEF SessionNext, allVars, session, BuildBeside, Ask, FindParent,
                        Merge, WriteCommit, Finish
    <2>3. r = q /\ Done(q)
      BY <1>1, <2>2 DEF AdvertiseRefs, UploadPack, Told, SInv, SessionTypes
    <2>4. Current(cache.commit.content, request[q].versions)
      BY <1>1, <2>3 DEF Onward, Agree
    <2> QED
      BY <1>1, <2>4 DEF Current, Agree
  <1>2. CInv /\ Onward /\ SInv /\ [SessionNext]_allVars =>
          [\A q \in Requests : (Told(q)' /\ ~Told(q) /\ request[q].alone /\ Agree) =>
              LET v == request[q].versions
                  content == viewRef.content
              IN  \A ns \in DOMAIN v \cap DOMAIN content :
                      content[ns] >= v[ns].tree \/ v[ns].tree <= undone[ns]]_allVars
    BY <1>1
  <1>3. CInv /\ Onward /\ [SessionNext]_allVars => Onward'
    BY SessionSteps, OnwardNext
  <1> QED
    BY <1>2, <1>3, OnwardInit, SInvInit, SInvNext, SessionCInvariant, PTL
       DEF SessionSpec, ToldIsFresh

=============================================================================
