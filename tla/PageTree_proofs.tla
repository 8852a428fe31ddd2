---------------------------- MODULE PageTree_proofs ----------------------------
(***************************************************************************)
(* Proofs about PageTree, for any pages, redirects, requests, resumptions  *)
(* and failures: while a request is under way its operation's document is  *)
(* there for it, and is deleted when the request ends; and the collections *)
(* keep their types, whatever is inserted, moved and removed.  Then what   *)
(* PageTreeNest_proofs needs: the invariant that the operations stay apart *)
(* (Ordered), the one that what they move nests in the tree (Nested), and  *)
(* that the steps which leave all pages at their places keep the latter.   *)
(***************************************************************************)
EXTENDS PageTree, TLAPS, FiniteSetTheorems, SequenceTheorems, WellFoundedInduction

(* A run is idle, over, or a record of all its local variables.  It has not  *)
(* recorded its operation yet (Early), it has, and will delete it (Holding), *)
(* or it has deleted it and recounts (Late).                                 *)
Early(kind, at) ==
    \/ kind = "rename" /\ at \in {"check", "record"}
    \/ kind = "create" /\ at \in
          {"clear", "prepare", "find", "insert", "link", "save", "recordCreate"}
    \/ kind \in {"delete", "erase"} /\ at \in
          {"check", "replace", "adopt", "trash", "signpost", "shrink", "shrunk", "erase",
           "prune", "pruned", "answered", "recordDelete"}

Holding(kind, at) ==
    \/ kind = "rename" /\ at \in
          {"takeOff", "find", "insert", "link", "plant", "graft", "put", "bump", "redirect",
           "stage", "stream", "batch", "unbump", "shrink", "shrunk", "grow", "grown",
           "prune", "pruned", "done", "cleanup"}
    \/ kind = "create" /\ at \in {"grow", "grown", "done"}
    \/ kind \in {"delete", "erase"} /\ at \in {"stream", "batch", "done", "cleanup"}

Late(kind, at) == kind = "rename" /\ at \in {"recount", "store"}

HasFields(w) ==
    w = [at |-> w.at, kind |-> w.kind, op |-> w.op, id |-> w.id, to |-> w.to,
         copy |-> w.copy, parent |-> w.parent, redirect |-> w.redirect,
         recursively |-> w.recursively, ids |-> w.ids, todo |-> w.todo, sum |-> w.sum,
         seen |-> w.seen, resumed |-> w.resumed, ticked |-> w.ticked]

IsRun(w) ==
    /\ HasFields(w)
    /\ w.op \in Runs
    /\ w.resumed => w.kind = "rename"
    /\ Early(w.kind, w.at) \/ Holding(w.kind, w.at) \/ Late(w.kind, w.at)

WorkShape ==
    /\ work = [r \in Runs |-> work[r]]
    /\ \A r \in Runs : work[r] = Idle \/ work[r] = Over \/ IsRun(work[r])

(* Who has not recorded an operation has none of its own. *)
NotYet ==
    \A r \in Runs :
        /\ work[r] = Idle => r \notin Recorded
        /\ IsRun(work[r]) /\ Early(work[r].kind, work[r].at) =>
              work[r].op = r /\ r \notin Recorded

(* Each recorded operation has a run that will delete it. *)
Minded ==
    history.stopped \/
        \A o \in Recorded : \E r \in Runs :
            IsRun(work[r]) /\ Holding(work[r].kind, work[r].at) /\ work[r].op = o

HasHistory ==
    history = [crowded |-> history.crowded, stale |-> history.stale,
               doubled |-> history.doubled, damaged |-> history.damaged,
               stopped |-> history.stopped, fresh |-> history.fresh]

(* The inductive invariant. *)
Held ==
    /\ WorkShape /\ NotYet /\ Minded /\ HasHistory
    /\ ops = [o \in Runs |-> ops[o]]
    /\ up \/ history.stopped

-----------------------------------------------------------------------------
(* What a step does to the run that takes it. *)

Onward == HasHistory' /\ (history.stopped => history'.stopped)

Alone(r) ==
    /\ work' = [s \in Runs |-> work'[s]]
    /\ \A s \in Runs \ {r} : work'[s] = work[s]
    /\ ops' = [o \in Runs |-> ops'[o]]
    /\ up' = up
    /\ Onward

(* It stays early, or holds its operation on. *)
Proceeds(r) ==
    /\ Alone(r) /\ Recorded' \subseteq Recorded
    /\ IsRun(work'[r]) /\ work'[r].op = work[r].op
    /\ Early(work'[r].kind, work'[r].at) => Early(work[r].kind, work[r].at)
    /\ Holding(work[r].kind, work[r].at) => Holding(work'[r].kind, work'[r].at)

LEMMA ProceedingKeeps ==
    ASSUME Held, NEW r \in Runs, IsRun(work[r]), Proceeds(r)
    PROVE  Held'
<1>1. WorkShape'  BY DEF Held, WorkShape, Proceeds, Alone
<1>2. NotYet'
  <2> SUFFICES ASSUME NEW s \in Runs
               PROVE  /\ work'[s] = Idle => s \notin Recorded'
                      /\ IsRun(work'[s]) /\ Early(work'[s].kind, work'[s].at) =>
                            work'[s].op = s /\ s \notin Recorded'
    BY DEF NotYet
  <2>1. CASE s = r
    <3>1. work'[s] # Idle  BY <2>1 DEF Proceeds, IsRun, Early, Holding, Late, Idle
    <3> QED  BY <2>1, <3>1 DEF Held, NotYet, Proceeds
  <2>2. CASE s # r
    BY <2>2 DEF Held, NotYet, Proceeds, Alone
  <2> QED  BY <2>1, <2>2
<1>3. Minded'
  <2> SUFFICES ASSUME ~history'.stopped, NEW o \in Recorded'
               PROVE  \E s \in Runs : /\ IsRun(work'[s]) /\ work'[s].op = o
                                    /\ Holding(work'[s].kind, work'[s].at)
    BY DEF Minded
  <2>1. PICK s \in Runs : IsRun(work[s]) /\ Holding(work[s].kind, work[s].at) /\ work[s].op = o
    BY DEF Held, Minded, Proceeds, Alone, Onward
  <2>2. CASE s = r  BY <2>1, <2>2 DEF Proceeds
  <2>3. CASE s # r  BY <2>1, <2>3 DEF Proceeds, Alone
  <2> QED  BY <2>2, <2>3
<1> QED  BY <1>1, <1>2, <1>3 DEF Held, Proceeds, Alone, Onward

(* It records its operation. *)
Records(r) ==
    /\ Alone(r) /\ Recorded' \subseteq Recorded \cup {r}
    /\ Early(work[r].kind, work[r].at)
    /\ IsRun(work'[r]) /\ work'[r].op = work[r].op /\ Holding(work'[r].kind, work'[r].at)

LEMMA PhasesDiffer ==
    ASSUME NEW kind, NEW at
    PROVE  /\ Holding(kind, at) => ~Early(kind, at) /\ ~Late(kind, at)
           /\ Late(kind, at) => ~Early(kind, at)
  BY DEF Holding, Early, Late

LEMMA RecordingKeeps ==
    ASSUME Held, NEW r \in Runs, IsRun(work[r]), Records(r)
    PROVE  Held'
<1>1. WorkShape'  BY DEF Held, WorkShape, Records, Alone
<1>2. work'[r] # Idle /\ ~Early(work'[r].kind, work'[r].at)
  BY PhasesDiffer DEF Records, IsRun, Early, Holding, Late, Idle
<1>3. NotYet'
  BY <1>2 DEF Held, NotYet, Records, Alone
<1>4. work'[r].op = r  BY DEF Held, NotYet, Records
<1>5. Minded'
  <2> SUFFICES ASSUME ~history'.stopped, NEW o \in Recorded'
               PROVE  \E s \in Runs : /\ IsRun(work'[s]) /\ work'[s].op = o
                                    /\ Holding(work'[s].kind, work'[s].at)
    BY DEF Minded
  <2>1. CASE o = r  BY <1>4, <2>1 DEF Records
  <2>2. CASE o # r
    <3>1. PICK s \in Runs : IsRun(work[s]) /\ Holding(work[s].kind, work[s].at) /\ work[s].op = o
      BY <2>2 DEF Held, Minded, Records, Alone, Onward
    <3>2. s # r  BY <3>1, PhasesDiffer DEF Records
    <3> QED  BY <3>1, <3>2 DEF Records, Alone
  <2> QED  BY <2>1, <2>2
<1> QED  BY <1>1, <1>3, <1>5 DEF Held, Records, Alone, Onward

(* It is over or recounts, and has no operation any more; or it is stopped. *)
Finishes(r) ==
    /\ Alone(r) /\ Recorded' \subseteq Recorded
    /\ work'[r] = Over \/ (IsRun(work'[r]) /\ Late(work'[r].kind, work'[r].at))
    /\ Holding(work[r].kind, work[r].at) => work[r].op \notin Recorded' \/ history'.stopped

LEMMA FinishingKeeps ==
    ASSUME Held, NEW r \in Runs, IsRun(work[r]), Finishes(r)
    PROVE  Held'
<1>1. WorkShape'  BY DEF Held, WorkShape, Finishes, Alone
<1>2. work'[r] # Idle /\ ~(IsRun(work'[r]) /\ Early(work'[r].kind, work'[r].at))
  BY PhasesDiffer DEF Finishes, IsRun, Early, Holding, Late, Idle, Over
<1>3. NotYet'
  BY <1>2 DEF Held, NotYet, Finishes, Alone
<1>5. Minded'
  <2> SUFFICES ASSUME ~history'.stopped, NEW o \in Recorded'
               PROVE  \E s \in Runs : /\ IsRun(work'[s]) /\ work'[s].op = o
                                    /\ Holding(work'[s].kind, work'[s].at)
    BY DEF Minded
  <2>1. PICK s \in Runs : IsRun(work[s]) /\ Holding(work[s].kind, work[s].at) /\ work[s].op = o
      BY DEF Held, Minded, Finishes, Alone, Onward
  <2>2. s # r  BY <2>1 DEF Finishes
  <2> QED  BY <2>1, <2>2 DEF Finishes, Alone
<1> QED  BY <1>1, <1>3, <1>5 DEF Held, Finishes, Alone, Onward

(* It begins, or takes up a recorded operation. *)
Starts(r) ==
    /\ Alone(r) /\ Recorded' \subseteq Recorded
    /\ work[r] \in {Idle, Over}
    /\ IsRun(work'[r])
    /\ Early(work'[r].kind, work'[r].at) => work[r] = Idle /\ work'[r].op = r

LEMMA StartingKeeps ==
    ASSUME Held, NEW r \in Runs, Starts(r)
    PROVE  Held'
<1>1. WorkShape'  BY DEF Held, WorkShape, Starts, Alone
<1>2. work'[r] # Idle /\ ~IsRun(work[r])
  BY DEF Starts, IsRun, Early, Holding, Late, Idle, Over
<1>3. NotYet'
  BY <1>2 DEF Held, NotYet, Starts, Alone
<1>5. Minded'
  <2> SUFFICES ASSUME ~history'.stopped, NEW o \in Recorded'
               PROVE  \E s \in Runs : /\ IsRun(work'[s]) /\ work'[s].op = o
                                    /\ Holding(work'[s].kind, work'[s].at)
    BY DEF Minded
  <2>1. PICK s \in Runs : IsRun(work[s]) /\ Holding(work[s].kind, work[s].at) /\ work[s].op = o
      BY DEF Held, Minded, Starts, Alone, Onward
  <2>2. s # r  BY <1>2, <2>1 
  <2> QED  BY <2>1, <2>2 DEF Starts, Alone
<1> QED  BY <1>1, <1>3, <1>5 DEF Held, Starts, Alone, Onward

-----------------------------------------------------------------------------
(* The shapes that the steps have. *)

Passes(kind, from, to) ==
    /\ Early(kind, to) => Early(kind, from)
    /\ Holding(kind, from) => Holding(kind, to)
    /\ Early(kind, to) \/ Holding(kind, to) \/ Late(kind, to)

Same(v, w) ==
    HasFields(w) /\ w.kind = v.kind /\ w.op = v.op /\ w.resumed = v.resumed

LEMMA StillOnward ==
    ASSUME Held, UNCHANGED history
    PROVE  Onward
  BY DEF Held, HasHistory, Onward

LEMMA RunsAreRuns ==
    ASSUME WorkShape, NEW r \in Runs, work[r].at \notin {"idle", "over"}
    PROVE  IsRun(work[r])
  BY DEF WorkShape, Idle, Over

(* Only the local variables of one run change. *)
Moves(r) == work' = [work EXCEPT ![r] = work'[r]]

LEMMA MovingKeeps ==
    ASSUME Held, NEW r \in Runs, IsRun(work[r]), Moves(r), Same(work[r], work'[r]),
           Passes(work[r].kind, work[r].at, work'[r].at),
           UNCHANGED <<ops, up>>, Onward
    PROVE  Held'
<1>1. Alone(r)  BY DEF Held, WorkShape, Alone, Moves
<1>2. IsRun(work'[r])  BY DEF Same, Passes, IsRun
<1>3. Recorded' = Recorded  BY DEF Recorded
<1>4. Proceeds(r)  BY <1>1, <1>2, <1>3 DEF Proceeds, Same, Passes
<1> QED  BY <1>4, ProceedingKeeps

LEMMA GoingKeeps ==
    ASSUME Held, NEW r \in Runs, IsRun(work[r]), NEW at, Go(r, at),
           Passes(work[r].kind, work[r].at, at),
           UNCHANGED <<ops, up>>, Onward
    PROVE  Held'
<1>1. Moves(r) /\ work'[r] = [work[r] EXCEPT !.at = at]
  BY DEF Held, WorkShape, Go, Moves
<1>2. Same(work[r], work'[r]) /\ work'[r].at = at
  BY <1>1 DEF IsRun, HasFields, Same
<1> QED  BY <1>1, <1>2, MovingKeeps

LEMMA EndingKeeps ==
    ASSUME Held, NEW r \in Runs, IsRun(work[r]), End(r),
           UNCHANGED <<ops, up>>, Onward,
           Holding(work[r].kind, work[r].at) => history'.stopped
    PROVE  Held'
<1>1. Alone(r) /\ work'[r] = Over  BY DEF Held, WorkShape, Alone, End
<1>2. Recorded' = Recorded  BY DEF Recorded
<1> QED  BY <1>1, <1>2, FinishingKeeps DEF Finishes

(* An error leaves the operation to the clean-up, or to nobody. *)
LEMMA ThrowingKeeps ==
    ASSUME Held, NEW r \in Runs, IsRun(work[r]), Throw(r), up' = up
    PROVE  Held'
<1>1. Onward
  BY DEF Held, HasHistory, Onward, Throw
<1>2. CASE Cleaned(r)
  <2>1. Passes(work[r].kind, work[r].at, "cleanup")
    BY <1>2 DEF Cleaned, Rename, Removes, Delete, Erase, Passes, Early, Holding, Late
  <2> QED  BY <1>1, <1>2, <2>1, GoingKeeps DEF Throw
<1>3. CASE ~Cleaned(r)
  <2>1. history'.stopped  BY <1>3 DEF Held, HasHistory, Throw
  <2> QED  BY <1>1, <1>3, <2>1, EndingKeeps DEF Throw
<1> QED  BY <1>2, <1>3

-----------------------------------------------------------------------------
(* The steps of a rename. *)

LEMMA CheckKeeps ==
    ASSUME Held, NEW r \in Runs, Check(r)
    PROVE  Held'
<1>1. IsRun(work[r]) /\ work[r].at = "check"  BY RunsAreRuns DEF Held, Check, On
<1>2. Early(work[r].kind, "check") /\ work[r].kind \in {"rename", "delete", "erase"}
  BY <1>1 DEF IsRun, Early, Holding, Late
<1>3. Onward  BY DEF Held, HasHistory, Onward, Check
<1>4. UNCHANGED <<ops, up>>  BY DEF Check, Unchanged
<1>5. CASE End(r)
  BY <1>1, <1>2, <1>3, <1>4, <1>5, PhasesDiffer, EndingKeeps
<1>6. CASE Go(r, "record") /\ Rename(r)
  <2>1. Passes(work[r].kind, "check", "record")
    BY <1>6 DEF Rename, Passes, Early, Holding
  <2> QED  BY <1>1, <1>3, <1>4, <1>6, <2>1, GoingKeeps
<1>7. ASSUME NEW at \in {"replace", "shrink", "trash"}, Go(r, at), ~Rename(r)
      PROVE  Held'
  <2>1. Passes(work[r].kind, "check", at)
    BY <1>2, <1>7 DEF Rename, Passes, Early, Holding
  <2> QED  BY <1>1, <1>3, <1>4, <1>7, <2>1, GoingKeeps
<1>8. \/ End(r)
      \/ Go(r, "record") /\ Rename(r)
      \/ ~Rename(r) /\ \E at \in {"replace", "shrink", "trash"} : Go(r, at)
  BY DEF Check, Rename, Delete, Erase, Removes
<1> QED  BY <1>5, <1>6, <1>7, <1>8

LEMMA RecordKeeps ==
    ASSUME Held, NEW r \in Runs, Record(r)
    PROVE  Held'
<1>1. IsRun(work[r]) /\ work[r].at = "record"  BY RunsAreRuns DEF Held, Record, On
<1>2. work[r].kind = "rename"  BY <1>1 DEF IsRun, Early, Holding, Late
<1>3. Alone(r)  BY DEF Held, WorkShape, HasHistory, Onward, Record, Go, Unchanged, Alone
<1>4. Recorded' \subseteq Recorded \cup {r}  BY DEF Held, Record, Recorded
<1>5. work'[r] = [work[r] EXCEPT !.at = "takeOff"]  BY DEF Held, WorkShape, Record, Go
<1>6. Same(work[r], work'[r]) /\ work'[r].at = "takeOff"
  BY <1>1, <1>5 DEF IsRun, HasFields, Same
<1>7. Early("rename", "record") /\ Holding("rename", "takeOff")  BY DEF Early, Holding
<1> QED
  BY <1>1, <1>2, <1>3, <1>4, <1>6, <1>7, RecordingKeeps DEF Records, IsRun, Same

LEMMA TakeOffKeeps ==
    ASSUME Held, NEW r \in Runs, TakeOff(r)
    PROVE  Held'
<1>1. IsRun(work[r]) /\ work[r].at = "takeOff"  BY RunsAreRuns DEF Held, TakeOff, On
<1>2. Passes(work[r].kind, "takeOff", "find")
  BY <1>1 DEF IsRun, Early, Holding, Late, Passes
<1>3. CASE Throw(r)  BY <1>1, <1>3, ThrowingKeeps DEF TakeOff, Unchanged
<1>4. CASE ~Throw(r)
  <2>1. Go(r, "find") /\ UNCHANGED <<ops, up, history>>
    BY <1>4 DEF TakeOff, Unchanged
  <2> QED  BY <1>1, <1>2, <2>1, StillOnward, GoingKeeps
<1> QED  BY <1>3, <1>4

LEMMA FindKeeps ==
    ASSUME Held, NEW r \in Runs, Find(r)
    PROVE  Held'
<1>1. IsRun(work[r]) /\ work[r].at = "find"  BY RunsAreRuns DEF Held, Find, On
<1>2. work[r].kind \in {"rename", "create"}
  BY <1>1 DEF IsRun, Early, Holding, Late
<1>3. CASE Throw(r)  BY <1>1, <1>3, ThrowingKeeps DEF Find, Unchanged
<1>4. CASE Go(r, "plant") /\ Rename(r) /\ UNCHANGED <<ops, up, history>>
  <2>1. Passes(work[r].kind, "find", "plant")
    BY <1>4 DEF Rename, Early, Holding, Passes
  <2> QED  BY <1>1, <1>4, <2>1, StillOnward, GoingKeeps
<1>5. ASSUME NEW i, NEW at, at = IF Rename(r) THEN "put" ELSE "save",
             work' = [work EXCEPT ![r] = [@ EXCEPT !.at = at, !.parent = i]],
             UNCHANGED <<ops, up, history>>
      PROVE  Held'
  <2>1. Moves(r) /\ work'[r] = [work[r] EXCEPT !.at = at, !.parent = i]
    BY <1>5 DEF Held, WorkShape, Moves
  <2>2. Same(work[r], work'[r]) /\ work'[r].at = at
    BY <1>1, <2>1 DEF IsRun, HasFields, Same
  <2>3. Passes(work[r].kind, "find", at)
    BY <1>2, <1>5 DEF Rename, Early, Holding, Passes
  <2> QED  BY <1>1, <1>5, <2>1, <2>2, <2>3, StillOnward, MovingKeeps
<1>6. ASSUME NEW todo, work' = [work EXCEPT ![r] = [@ EXCEPT !.at = "insert", !.todo = todo]],
             UNCHANGED <<ops, up, history>>
      PROVE  Held'
  <2>1. Moves(r) /\ work'[r] = [work[r] EXCEPT !.at = "insert", !.todo = todo]
    BY <1>6 DEF Held, WorkShape, Moves
  <2>2. Same(work[r], work'[r]) /\ work'[r].at = "insert"
    BY <1>1, <2>1 DEF IsRun, HasFields, Same
  <2>3. Passes(work[r].kind, "find", "insert")
    BY <1>2 DEF Early, Holding, Passes
  <2> QED  BY <1>1, <1>6, <2>1, <2>2, <2>3, StillOnward, MovingKeeps
<1>7. \/ Throw(r)
      \/ Go(r, "plant") /\ Rename(r) /\ UNCHANGED <<ops, up, history>>
      \/ /\ UNCHANGED <<ops, up, history>>
         /\ \/ \E i : work' = [work EXCEPT ![r] = [@ EXCEPT
                    !.at = IF Rename(r) THEN "put" ELSE "save", !.parent = i]]
            \/ \E todo : work' = [work EXCEPT ![r] = [@ EXCEPT !.at = "insert", !.todo = todo]]
  BY DEF Find, Unchanged
<1> QED  BY <1>3, <1>4, <1>5, <1>6, <1>7

LEMMA InsertKeeps ==
    ASSUME Held, NEW r \in Runs, Insert(r)
    PROVE  Held'
<1>1. IsRun(work[r]) /\ work[r].at = "insert"  BY RunsAreRuns DEF Held, Insert, On
<1>2. /\ Moves(r) /\ UNCHANGED <<ops, up>> /\ Onward
      /\ work'[r] = [work[r] EXCEPT !.at = "link", !.todo = {}]
  BY <1>1 DEF Held, HasHistory, Onward, WorkShape, Moves, Insert, Unchanged
<1>3. Same(work[r], work'[r]) /\ work'[r].at = "link"
  BY <1>1, <1>2 DEF IsRun, HasFields, Same
<1>4. Passes(work[r].kind, "insert", "link")  BY <1>1 DEF IsRun, Early, Holding, Late, Passes
<1> QED  BY <1>1, <1>2, <1>3, <1>4, MovingKeeps

LEMMA LinkKeeps ==
    ASSUME Held, NEW r \in Runs, Link(r)
    PROVE  Held'
<1>1. IsRun(work[r]) /\ work[r].at = "link"  BY RunsAreRuns DEF Held, Link, On
<1>2. CASE Throw(r)  BY <1>1, <1>2, ThrowingKeeps DEF Link, Unchanged
<1>3. CASE ~Throw(r)
  <2>1. /\ Moves(r) /\ UNCHANGED <<ops, up>> /\ Onward
        /\ work'[r] = [work[r] EXCEPT !.at = IF Rename(r) THEN "put" ELSE "save",
                                     !.parent = Earliest(At(Dirname(work[r].to)))]
    BY <1>3, <1>1 DEF Held, HasHistory, Onward, WorkShape, Moves, Link, Unchanged
  <2>2. Same(work[r], work'[r]) /\ work'[r].at = IF Rename(r) THEN "put" ELSE "save"
    BY <1>1, <2>1 DEF IsRun, HasFields, Same
  <2>3. Passes(work[r].kind, "link", IF Rename(r) THEN "put" ELSE "save")
    BY <1>1 DEF IsRun, Early, Holding, Late, Passes, Rename
  <2> QED  BY <1>1, <2>1, <2>2, <2>3, MovingKeeps
<1> QED  BY <1>2, <1>3

LEMMA PlantKeeps ==
    ASSUME Held, NEW r \in Runs, Plant(r)
    PROVE  Held'
<1>1. IsRun(work[r]) /\ work[r].at = "plant"  BY RunsAreRuns DEF Held, Plant, On
<1>2. /\ Moves(r) /\ UNCHANGED <<ops, up>> /\ Onward
      /\ work'[r] = [work[r] EXCEPT !.at = "graft",
                                 !.ids = NewId(0) .. NewId(Cardinality(Plants(r)) - 1)]
  BY <1>1 DEF Held, HasHistory, Onward, WorkShape, Moves, Plant, Unchanged
<1>3. Same(work[r], work'[r]) /\ work'[r].at = "graft"
  BY <1>1, <1>2 DEF IsRun, HasFields, Same
<1>4. Passes(work[r].kind, "plant", "graft")  BY <1>1 DEF IsRun, Early, Holding, Late, Passes
<1> QED  BY <1>1, <1>2, <1>3, <1>4, MovingKeeps

LEMMA GraftKeeps ==
    ASSUME Held, NEW r \in Runs, Graft(r)
    PROVE  Held'
<1>1. IsRun(work[r]) /\ work[r].at = "graft"  BY RunsAreRuns DEF Held, Graft, On
<1>2. /\ Moves(r) /\ UNCHANGED <<ops, up>> /\ Onward
      /\ work'[r] = [work[r] EXCEPT !.at = "put",
          !.parent = Earliest(work[r].ids) + Cardinality(work[r].ids) - 1, !.ids = {}]
  BY <1>1 DEF Held, HasHistory, Onward, WorkShape, Moves, Graft, Stale, Unchanged
<1>3. Same(work[r], work'[r]) /\ work'[r].at = "put"
  BY <1>1, <1>2 DEF IsRun, HasFields, Same
<1>4. Passes(work[r].kind, "graft", "put")  BY <1>1 DEF IsRun, Early, Holding, Late, Passes
<1> QED  BY <1>1, <1>2, <1>3, <1>4, MovingKeeps

LEMMA PutKeeps ==
    ASSUME Held, NEW r \in Runs, Put(r)
    PROVE  Held'
<1>1. IsRun(work[r]) /\ work[r].at = "put"  BY RunsAreRuns DEF Held, Put, On
<1>2. Passes(work[r].kind, "put", "bump")  BY <1>1 DEF IsRun, Early, Holding, Late, Passes
<1>3. Go(r, "bump") /\ UNCHANGED <<ops, up>> /\ Onward
  BY DEF Held, HasHistory, Onward, Put, Unchanged
<1> QED  BY <1>1, <1>2, <1>3, GoingKeeps


LEMMA BumpKeeps ==
    ASSUME Held, NEW r \in Runs, Bump(r)
    PROVE  Held'
<1>1. IsRun(work[r]) /\ work[r].at = "bump"  BY RunsAreRuns DEF Held, Bump, On
<1>2. PICK at \in {"redirect", "stage"} : Go(r, at) /\ UNCHANGED <<ops, up, history>>
  BY DEF Bump, Unchanged
<1>3. Passes(work[r].kind, "bump", at)  BY <1>1 DEF IsRun, Early, Holding, Late, Passes
<1> QED  BY <1>1, <1>2, <1>3, StillOnward, GoingKeeps

LEMMA CreateRedirectKeeps ==
    ASSUME Held, NEW r \in Runs, CreateRedirect(r)
    PROVE  Held'
<1>1. IsRun(work[r]) /\ work[r].at = "redirect"
  BY RunsAreRuns DEF Held, CreateRedirect, On
<1>2. CASE Throw(r)  BY <1>1, <1>2, ThrowingKeeps DEF CreateRedirect, Unchanged
<1>3. CASE ~Throw(r)
  <2>1. Go(r, "stage") /\ UNCHANGED <<ops, up, history>>
    BY <1>3 DEF CreateRedirect, Unchanged
  <2>2. Passes(work[r].kind, "redirect", "stage")
    BY <1>1 DEF IsRun, Early, Holding, Late, Passes
  <2> QED  BY <1>1, <2>1, <2>2, StillOnward, GoingKeeps
<1> QED  BY <1>2, <1>3

(* Only an operation that is recorded has its stage set. *)
LEMMA SetStageKeeps ==
    ASSUME Held, NEW r \in Runs, SetStage(r)
    PROVE  Held'
<1>1. IsRun(work[r]) /\ work[r].at = "stage"  BY RunsAreRuns DEF Held, SetStage, On
<1>2. CASE Throw(r)  BY <1>1, <1>2, ThrowingKeeps DEF SetStage, Unchanged
<1>3. CASE ~Throw(r)
  <2>1. Go(r, "stream") /\ ops[r] # NoOp /\ UNCHANGED <<up, history>>
        /\ ops' = [ops EXCEPT ![r].stage = "Sub"]
    BY <1>3 DEF SetStage, Unchanged
  <2>2. Recorded' \subseteq Recorded  BY <2>1 DEF Held, Recorded
  <2>3. work'[r] = [work[r] EXCEPT !.at = "stream"]  BY <2>1 DEF Held, WorkShape, Go
  <2>4. Same(work[r], work'[r]) /\ work'[r].at = "stream"
    BY <1>1, <2>3 DEF IsRun, HasFields, Same
  <2>5. Passes(work[r].kind, "stage", "stream")
    BY <1>1 DEF IsRun, Early, Holding, Late, Passes
  <2>6. Alone(r)
    BY <2>1, StillOnward DEF Held, WorkShape, Go, Alone
  <2>7. Proceeds(r)
    BY <1>1, <2>2, <2>4, <2>5, <2>6 DEF Proceeds, IsRun, Same, Passes
  <2> QED  BY <1>1, <2>7, ProceedingKeeps
<1> QED  BY <1>2, <1>3

-----------------------------------------------------------------------------
(* The descendants. *)

LEMMA StreamKeeps ==
    ASSUME Held, NEW r \in Runs, Stream(r)
    PROVE  Held'
<1>1. IsRun(work[r]) /\ work[r].at = "stream"  BY RunsAreRuns DEF Held, Stream, On
<1>2. /\ Moves(r) /\ UNCHANGED <<ops, up>> /\ Onward
      /\ work'[r] = [work[r] EXCEPT !.at = "batch", !.todo =
          {<<i, pages[i].path, pages[i].kind>> : i \in Descendants(work[r].id)}]
  BY <1>1 DEF Held, HasHistory, Onward, WorkShape, Moves, Stream, Unchanged
<1>3. Same(work[r], work'[r]) /\ work'[r].at = "batch"
  BY <1>1, <1>2 DEF IsRun, HasFields, Same
<1>4. Passes(work[r].kind, "stream", "batch")  BY <1>1 DEF IsRun, Early, Holding, Late, Passes
<1> QED  BY <1>1, <1>2, <1>3, <1>4, MovingKeeps

LEMMA BatchKeeps ==
    ASSUME Held, NEW r \in Runs, NEW x, Batch(r, x)
    PROVE  Held'
<1>1. IsRun(work[r]) /\ work[r].at = "batch"  BY RunsAreRuns DEF Held, Batch, On
<1>2. /\ Moves(r) /\ UNCHANGED <<ops, up>> /\ Onward
      /\ work'[r] = [work[r] EXCEPT !.todo = @ \ {x}]
  BY <1>1 DEF Held, HasHistory, Onward, WorkShape, Moves, Batch, Unchanged
<1>3. Same(work[r], work'[r]) /\ work'[r].at = "batch"
  BY <1>1, <1>2 DEF IsRun, HasFields, Same
<1>4. Passes(work[r].kind, "batch", "batch")  BY <1>1 DEF IsRun, Early, Holding, Late, Passes
<1> QED  BY <1>1, <1>2, <1>3, <1>4, MovingKeeps

LEMMA BatchFailsKeeps ==
    ASSUME Held, NEW r \in Runs, NEW x, BatchFails(r, x)
    PROVE  Held'
<1>1. IsRun(work[r]) /\ work[r].at = "batch"  BY RunsAreRuns DEF Held, BatchFails, On, Damage
<1>2. /\ Moves(r) /\ UNCHANGED <<ops, up>> /\ Onward
      /\ work'[r] = [work[r] EXCEPT !.todo = @ \ {x}]
  BY <1>1 DEF Held, HasHistory, Onward, WorkShape, Moves, BatchFails, Unchanged, Damage
<1>3. Same(work[r], work'[r]) /\ work'[r].at = "batch"
  BY <1>1, <1>2 DEF IsRun, HasFields, Same
<1>4. Passes(work[r].kind, "batch", "batch")  BY <1>1 DEF IsRun, Early, Holding, Late, Passes
<1> QED  BY <1>1, <1>2, <1>3, <1>4, MovingKeeps

(* Only the expiry date of a recorded operation moves. *)
LEMMA ExtendExpiryDateKeeps ==
    ASSUME Held, NEW r \in Runs, ExtendExpiryDate(r)
    PROVE  Held'
<1>1. IsRun(work[r]) /\ work[r].at = "batch"
  BY RunsAreRuns DEF Held, ExtendExpiryDate, On
<1>2. Recorded' \subseteq Recorded
  BY <1>1 DEF Held, ExtendExpiryDate, Recorded, IsRun
<1>3. work'[r] = [work[r] EXCEPT !.ticked = TRUE]
  BY DEF Held, WorkShape, ExtendExpiryDate
<1>4. Same(work[r], work'[r]) /\ work'[r].at = "batch"
  BY <1>1, <1>3 DEF IsRun, HasFields, Same
<1>5. Alone(r)
  BY <1>1, StillOnward DEF Held, WorkShape, ExtendExpiryDate, Unchanged, Alone, IsRun
<1>6. Proceeds(r)
  BY <1>1, <1>2, <1>4, <1>5 DEF Proceeds, IsRun, Same
<1> QED  BY <1>1, <1>6, ProceedingKeeps

LEMMA BatchesEndKeeps ==
    ASSUME Held, NEW r \in Runs, BatchesEnd(r)
    PROVE  Held'
<1>1. IsRun(work[r]) /\ work[r].at = "batch"  BY RunsAreRuns DEF Held, BatchesEnd, On
<1>2. PICK at : at = (IF Rename(r) THEN "unbump" ELSE "done") /\ Go(r, at)
                /\ UNCHANGED <<ops, up, history>>
  BY DEF BatchesEnd, Unchanged
<1>3. Passes(work[r].kind, "batch", at)
  BY <1>1, <1>2 DEF IsRun, Early, Holding, Late, Passes, Rename
<1> QED  BY <1>1, <1>2, <1>3, StillOnward, GoingKeeps

-----------------------------------------------------------------------------
(* The counts and the empty pages. *)

LEMMA UnbumpKeeps ==
    ASSUME Held, NEW r \in Runs, Unbump(r)
    PROVE  Held'
<1>1. IsRun(work[r]) /\ work[r].at = "unbump"  BY RunsAreRuns DEF Held, Unbump, On
<1>2. Passes(work[r].kind, "unbump", "shrink")  BY <1>1 DEF IsRun, Early, Holding, Late, Passes
<1>3. Go(r, "shrink") /\ UNCHANGED <<ops, up>> /\ Onward
  BY DEF Held, HasHistory, Onward, Unbump, Stale, Unchanged
<1> QED  BY <1>1, <1>2, <1>3, GoingKeeps

LEMMA ClimbKeeps ==
    ASSUME Held, NEW r \in Runs, NEW from, NEW to, NEW i, NEW S, IsRun(work[r]),
           Climb(r, from, to, i, S), Passes(work[r].kind, from, to)
    PROVE  Held'
<1>1. work[r].at = from  BY DEF Climb, On
<1>2. CASE Throw(r)  BY <1>2, ThrowingKeeps DEF Climb, Unchanged
<1>3. CASE ~Throw(r)
  <2>1. /\ Moves(r) /\ UNCHANGED <<ops, up, history>>
        /\ work'[r] = [work[r] EXCEPT !.at = to, !.ids = S]
    BY <1>3 DEF Held, WorkShape, Moves, Climb, Unchanged
  <2>2. Same(work[r], work'[r]) /\ work'[r].at = to
    BY <2>1 DEF IsRun, HasFields, Same
  <2> QED  BY <1>1, <2>1, <2>2, StillOnward, MovingKeeps
<1> QED  BY <1>2, <1>3

LEMMA CountKeeps ==
    ASSUME Held, NEW r \in Runs, NEW from, NEW to, NEW S, NEW n, IsRun(work[r]),
           Count(r, from, to, S, n), Passes(work[r].kind, from, to)
    PROVE  Held'
<1>1. work[r].at = from  BY DEF Count, On
<1>2. /\ Moves(r) /\ UNCHANGED <<ops, up>> /\ Onward
      /\ work'[r] = [work[r] EXCEPT !.at = to, !.ids = {}]
  BY DEF Held, WorkShape, HasHistory, Onward, Moves, Count, Stale, Unchanged
<1>3. Same(work[r], work'[r]) /\ work'[r].at = to
  BY <1>2 DEF IsRun, HasFields, Same
<1> QED  BY <1>1, <1>2, <1>3, MovingKeeps

LEMMA ShrinkKeeps ==
    ASSUME Held, NEW r \in Runs, Shrink(r)
    PROVE  Held'
<1>1. IsRun(work[r]) /\ work[r].at = "shrink"  BY RunsAreRuns DEF Held, Shrink, Climb, On
<1>2. Passes(work[r].kind, "shrink", "shrunk")  BY <1>1 DEF IsRun, Early, Holding, Late, Passes
<1> QED  BY <1>1, <1>2, ClimbKeeps DEF Shrink

LEMMA GrowKeeps ==
    ASSUME Held, NEW r \in Runs, Grow(r)
    PROVE  Held'
<1>1. IsRun(work[r]) /\ work[r].at = "grow"  BY RunsAreRuns DEF Held, Grow, Climb, On
<1>2. Passes(work[r].kind, "grow", "grown")  BY <1>1 DEF IsRun, Early, Holding, Late, Passes
<1> QED  BY <1>1, <1>2, ClimbKeeps DEF Grow

LEMMA ShrunkKeeps ==
    ASSUME Held, NEW r \in Runs, Shrunk(r)
    PROVE  Held'
<1>1. IsRun(work[r]) /\ work[r].at = "shrunk"  BY RunsAreRuns DEF Held, Shrunk, Count, On
<1> DEFINE to == CASE Rename(r) -> "grow" [] Delete(r) -> "prune" [] Erase(r) -> "erase"
<1>2. Count(r, "shrunk", to, Losers(r), -Gains(r))  BY Zenon DEF Shrunk
<1>3. Passes(work[r].kind, "shrunk", to)
  <2>1. \/ work[r].kind = "rename" /\ to = "grow"
        \/ work[r].kind = "delete" /\ to = "prune"
        \/ work[r].kind = "erase" /\ to = "erase"
    BY <1>1 DEF IsRun, Early, Holding, Late, Rename, Delete, Erase
  <2> HIDE DEF to
  <2> QED  BY <2>1 DEF Early, Holding, Late, Passes
<1> HIDE DEF to
<1> QED  BY <1>1, <1>2, <1>3, CountKeeps

LEMMA GrownKeeps ==
    ASSUME Held, NEW r \in Runs, Grown(r)
    PROVE  Held'
<1>1. IsRun(work[r]) /\ work[r].at = "grown"  BY RunsAreRuns DEF Held, Grown, Count, On
<1> DEFINE to == IF Rename(r) THEN "prune" ELSE "done"
<1>2. Count(r, "grown", to, Gainers(r), Gains(r))  BY Zenon DEF Grown
<1>3. Passes(work[r].kind, "grown", to)
  BY <1>1 DEF IsRun, Early, Holding, Late, Passes, Rename
<1> HIDE DEF to
<1> QED  BY <1>1, <1>2, <1>3, CountKeeps

LEMMA PruneKeeps ==
    ASSUME Held, NEW r \in Runs, Prune(r)
    PROVE  Held'
<1>1. IsRun(work[r]) /\ work[r].at = "prune"  BY RunsAreRuns DEF Held, Prune, On
<1>2. /\ Moves(r) /\ UNCHANGED <<ops, up>> /\ Onward
      /\ work'[r] = [work[r] EXCEPT !.at = "pruned",
                                     !.ids = LeafEmpties(work[r].copy.parent)]
  BY <1>1 DEF Held, HasHistory, Onward, WorkShape, Moves, Prune, Unchanged
<1>3. Same(work[r], work'[r]) /\ work'[r].at = "pruned"
  BY <1>1, <1>2 DEF IsRun, HasFields, Same
<1>4. Passes(work[r].kind, "prune", "pruned")  BY <1>1 DEF IsRun, Early, Holding, Late, Passes
<1> QED  BY <1>1, <1>2, <1>3, <1>4, MovingKeeps

LEMMA PrunedKeeps ==
    ASSUME Held, NEW r \in Runs, Pruned(r)
    PROVE  Held'
<1>1. IsRun(work[r]) /\ work[r].at = "pruned"  BY RunsAreRuns DEF Held, Pruned, On
<1>2. PICK at : /\ at = (IF Removes(r) /\ work[r].recursively THEN "recordDelete"
                         ELSE IF Removes(r) THEN "answered" ELSE "done")
                /\ work' = [work EXCEPT ![r].ids = {}, ![r].at = at]
  BY DEF Pruned
<1>3. Moves(r) /\ work'[r] = [work[r] EXCEPT !.ids = {}, !.at = at]
  BY <1>2 DEF Held, WorkShape, Moves
<1>4. Same(work[r], work'[r]) /\ work'[r].at = at
  BY <1>1, <1>3 DEF IsRun, HasFields, Same
<1>5. Passes(work[r].kind, "pruned", at)
  BY <1>1, <1>2 DEF IsRun, Early, Holding, Late, Passes, Removes, Delete, Erase
<1>6. UNCHANGED <<ops, up>> /\ Onward
  BY DEF Held, HasHistory, Onward, Pruned, Stale, Unchanged
<1> QED  BY <1>1, <1>3, <1>4, <1>5, <1>6, MovingKeeps

(* The document is deleted; who has none to delete has answered already. *)
LEMMA DoneKeeps ==
    ASSUME Held, NEW r \in Runs, Done(r)
    PROVE  Held'
<1>1. IsRun(work[r]) /\ work[r].at \in {"done", "answered"}
  BY RunsAreRuns DEF Held, Done
<1>2. Recorded' \subseteq Recorded
  BY <1>1 DEF Held, Done, Recorded, IsRun
<1>3. Holding(work[r].kind, work[r].at) => work[r].op \notin Recorded'
  <2> SUFFICES ASSUME Holding(work[r].kind, work[r].at)
               PROVE  work[r].op \notin Recorded'
    OBVIOUS
  <2>1. work[r].at = "done"  BY <1>1 DEF Holding
  <2>2. ops'[work[r].op] = NoOp  BY <1>1, <2>1 DEF Held, Done, On, IsRun
  <2> QED  BY <2>2 DEF Recorded
<1>4. Alone(r)
  BY <1>1 DEF Held, WorkShape, HasHistory, Onward, Done, End, Unchanged, Alone, IsRun
<1>5. work'[r] = Over \/ (IsRun(work'[r]) /\ Late(work'[r].kind, work'[r].at))
  <2>1. CASE ~work[r].resumed  BY <2>1 DEF Held, WorkShape, Done, End
  <2>2. CASE work[r].resumed
    <3>1. PICK todo : work'[r] = [work[r] EXCEPT !.at = "recount", !.todo = todo]
      BY <2>2 DEF Held, WorkShape, Done
    <3>2. Same(work[r], work'[r]) /\ work'[r].at = "recount"
      BY <1>1, <3>1 DEF IsRun, HasFields, Same
    <3>3. work[r].kind = "rename"  BY <1>1, <2>2 DEF IsRun
    <3> QED  BY <1>1, <3>2, <3>3, SMTT(60) DEF IsRun, Same, Late
  <2> QED  BY <2>1, <2>2
<1> QED  BY <1>1, <1>2, <1>3, <1>4, <1>5, FinishingKeeps DEF Finishes

LEMMA RecountKeeps ==
    ASSUME Held, NEW r \in Runs, Recount(r)
    PROVE  Held'
<1>1. IsRun(work[r]) /\ work[r].at = "recount"  BY RunsAreRuns DEF Held, Recount, On
<1>2. UNCHANGED <<ops, up, history>>  BY DEF Recount, Unchanged
<1>3. ~Holding(work[r].kind, work[r].at)  BY <1>1 DEF Holding
<1>4. CASE End(r)  BY <1>1, <1>2, <1>3, <1>4, StillOnward, EndingKeeps
<1>5. CASE ~End(r)
  <2>1. PICK i : work' = [work EXCEPT ![r].at = "store", ![r].todo = @ \ {i},
                                      ![r].ids = {i}, ![r].sum = Recounted(i)]
    BY <1>5 DEF Recount
  <2>2. /\ Moves(r)
        /\ work'[r] = [work[r] EXCEPT !.at = "store", !.todo = @ \ {i},
                                      !.ids = {i}, !.sum = Recounted(i)]
    BY <2>1 DEF Held, WorkShape, Moves
  <2>3. Same(work[r], work'[r]) /\ work'[r].at = "store"
    BY <1>1, <2>2 DEF IsRun, HasFields, Same
  <2>4. Passes(work[r].kind, "recount", "store")
    BY <1>1 DEF IsRun, Early, Holding, Late, Passes
  <2> QED  BY <1>1, <1>2, <2>2, <2>3, <2>4, StillOnward, MovingKeeps
<1> QED  BY <1>4, <1>5

LEMMA StoreKeeps ==
    ASSUME Held, NEW r \in Runs, Store(r)
    PROVE  Held'
<1>1. IsRun(work[r]) /\ work[r].at = "store"  BY RunsAreRuns DEF Held, Store, On
<1>2. /\ Moves(r) /\ UNCHANGED <<ops, up>> /\ Onward
      /\ work'[r] = [work[r] EXCEPT !.at = "recount", !.ids = {}]
  BY <1>1 DEF Held, HasHistory, Onward, WorkShape, Moves, Store, Unchanged
<1>3. Same(work[r], work'[r]) /\ work'[r].at = "recount"
  BY <1>1, <1>2 DEF IsRun, HasFields, Same
<1>4. Passes(work[r].kind, "store", "recount")  BY <1>1 DEF IsRun, Early, Holding, Late, Passes
<1> QED  BY <1>1, <1>2, <1>3, <1>4, MovingKeeps

LEMMA CleanupKeeps ==
    ASSUME Held, NEW r \in Runs, Cleanup(r)
    PROVE  Held'
<1>1. IsRun(work[r])  BY RunsAreRuns DEF Held, Cleanup, On
<1>2. Recorded' \subseteq Recorded /\ work[r].op \notin Recorded'
  BY <1>1 DEF Held, Cleanup, Recorded, IsRun
<1>3. Alone(r) /\ work'[r] = Over
  BY DEF Held, WorkShape, HasHistory, Onward, Cleanup, End, Unchanged, Alone
<1> QED  BY <1>1, <1>2, <1>3, FinishingKeeps DEF Finishes

-----------------------------------------------------------------------------
(* The steps of a creation and of a removal. *)

LEMMA ClearRedirectKeeps ==
    ASSUME Held, NEW r \in Runs, ClearRedirect(r)
    PROVE  Held'
<1>1. IsRun(work[r]) /\ work[r].at = "clear"  BY RunsAreRuns DEF Held, ClearRedirect, On
<1>2. Passes(work[r].kind, "clear", "prepare")  BY <1>1 DEF IsRun, Early, Holding, Late, Passes
<1>3. Go(r, "prepare") /\ UNCHANGED <<ops, up>> /\ Onward
  BY DEF Held, HasHistory, Onward, ClearRedirect, Unchanged
<1> QED  BY <1>1, <1>2, <1>3, GoingKeeps

LEMMA PrepareKeeps ==
    ASSUME Held, NEW r \in Runs, Prepare(r)
    PROVE  Held'
<1>1. IsRun(work[r]) /\ work[r].at = "prepare"  BY RunsAreRuns DEF Held, Prepare, On
<1>2. Passes(work[r].kind, "prepare", "find")
  BY <1>1 DEF IsRun, Early, Holding, Late, Passes
<1>3. UNCHANGED <<ops, up>> /\ Onward
  BY SMTT(60) DEF Held, HasHistory, Onward, Prepare, Stale, Unchanged
<1>4. \/ work' = [work EXCEPT ![r] = [@ EXCEPT !.at = "find"]]
      \/ \E i : work' = [work EXCEPT ![r] = [@ EXCEPT
            !.at = "find", !.id = i, !.copy = pages[i], !.sum = Recounted(i)]]
  BY ZenonT(60) DEF Prepare
<1>5. /\ Moves(r)
      /\ \/ work'[r] = [work[r] EXCEPT !.at = "find"]
         \/ \E i : work'[r] = [work[r] EXCEPT
               !.at = "find", !.id = i, !.copy = pages[i], !.sum = Recounted(i)]
  BY <1>4 DEF Held, WorkShape, Moves
<1>6. Same(work[r], work'[r]) /\ work'[r].at = "find"
  BY <1>1, <1>5 DEF IsRun, HasFields, Same
<1> QED  BY <1>1, <1>2, <1>3, <1>5, <1>6, MovingKeeps

LEMMA SaveKeeps ==
    ASSUME Held, NEW r \in Runs, Save(r)
    PROVE  Held'
<1>1. IsRun(work[r]) /\ work[r].at = "save"  BY RunsAreRuns DEF Held, Save, On
<1>2. Passes(work[r].kind, "save", "recordCreate")
  BY <1>1 DEF IsRun, Early, Holding, Late, Passes
<1>3. CASE Throw(r)  BY <1>1, <1>3, ThrowingKeeps DEF Save, Unchanged
<1>4. CASE ~Throw(r)
  <2>1. UNCHANGED <<ops, up>> /\ Onward
    BY <1>4 DEF Held, HasHistory, Onward, Save, Unchanged
  <2> DEFINE id == IF work[r].id = NoId THEN NewId(0) ELSE work[r].id
             old == IF work[r].id = NoId
                    THEN [kind |-> "page", path |-> work[r].to, parent |-> work[r].parent,
                          count |-> 0]
                    ELSE pages[id]
             page == [old EXCEPT
                 !.kind = "page",
                 !.parent = IF work[r].parent = work[r].copy.parent THEN @ ELSE work[r].parent,
                 !.count = IF work[r].sum = work[r].copy.count THEN @ ELSE work[r].sum]
  <2>2. work' = [work EXCEPT ![r].at = "recordCreate", ![r].id = id, ![r].copy = page]
    BY Zenon, <1>4 DEF Save
  <2> HIDE DEF page, old, id
  <2>3. /\ Moves(r)
        /\ work'[r] = [work[r] EXCEPT !.at = "recordCreate", !.id = id, !.copy = page]
    BY <2>2 DEF Held, WorkShape, Moves
  <2>4. Same(work[r], work'[r]) /\ work'[r].at = "recordCreate"
    BY <1>1, <2>3 DEF IsRun, HasFields, Same
  <2> QED  BY <1>1, <1>2, <2>1, <2>3, <2>4, MovingKeeps
<1> QED  BY <1>3, <1>4

LEMMA RecordCreateKeeps ==
    ASSUME Held, NEW r \in Runs, RecordCreate(r)
    PROVE  Held'
<1>1. IsRun(work[r]) /\ work[r].at = "recordCreate"  BY RunsAreRuns DEF Held, RecordCreate, On
<1>2. Early(work[r].kind, "recordCreate") /\ Holding(work[r].kind, "grow")
  BY <1>1 DEF IsRun, Early, Holding, Late
<1>3. Alone(r)  BY DEF Held, WorkShape, HasHistory, Onward, RecordCreate, Go, Unchanged, Alone
<1>4. Recorded' \subseteq Recorded \cup {r}  BY DEF Held, RecordCreate, Recorded
<1>5. work'[r] = [work[r] EXCEPT !.at = "grow"]  BY DEF Held, WorkShape, RecordCreate, Go
<1>6. Same(work[r], work'[r]) /\ work'[r].at = "grow"
  BY <1>1, <1>5 DEF IsRun, HasFields, Same
<1> QED
  BY <1>1, <1>2, <1>3, <1>4, <1>6, RecordingKeeps DEF Records, IsRun, Same

LEMMA ReplaceKeeps ==
    ASSUME Held, NEW r \in Runs, Replace(r)
    PROVE  Held'
<1>1. IsRun(work[r]) /\ work[r].at = "replace"  BY RunsAreRuns DEF Held, Replace, On, Stale
<1>2. CASE Throw(r)  BY <1>1, <1>2, ThrowingKeeps DEF Replace, Unchanged, Stale
<1>3. CASE ~Throw(r)
  <2>1. /\ Moves(r) /\ UNCHANGED <<ops, up>> /\ Onward
        /\ work'[r] = [work[r] EXCEPT !.at = "adopt", !.parent = NewId(0)]
    BY <1>3, <1>1 DEF Held, HasHistory, Onward, WorkShape, Moves, Replace, Unchanged, Stale
  <2>2. Same(work[r], work'[r]) /\ work'[r].at = "adopt"
    BY <1>1, <2>1 DEF IsRun, HasFields, Same
  <2>3. Passes(work[r].kind, "replace", "adopt")  BY <1>1 DEF IsRun, Early, Holding, Late, Passes
  <2> QED  BY <1>1, <2>1, <2>2, <2>3, MovingKeeps
<1> QED  BY <1>2, <1>3

LEMMA AdoptKeeps ==
    ASSUME Held, NEW r \in Runs, Adopt(r)
    PROVE  Held'
<1>1. IsRun(work[r]) /\ work[r].at = "adopt"  BY RunsAreRuns DEF Held, Adopt, On
<1>2. PICK at \in {"trash", "shrink"} : Go(r, at) /\ UNCHANGED <<ops, up, history>>
  BY DEF Adopt, Unchanged
<1>3. Passes(work[r].kind, "adopt", at)  BY <1>1 DEF IsRun, Early, Holding, Late, Passes
<1> QED  BY <1>1, <1>2, <1>3, StillOnward, GoingKeeps

LEMMA TrashTargetKeeps ==
    ASSUME Held, NEW r \in Runs, TrashTarget(r)
    PROVE  Held'
<1>1. IsRun(work[r]) /\ work[r].at = "trash"  BY RunsAreRuns DEF Held, TrashTarget, On
<1>2. PICK at \in {"signpost", "shrink"} : Go(r, at)
  BY DEF TrashTarget
<1>3. UNCHANGED <<ops, up>> /\ Onward
  BY DEF Held, HasHistory, Onward, TrashTarget, Unchanged
<1>4. Passes(work[r].kind, "trash", at)  BY <1>1 DEF IsRun, Early, Holding, Late, Passes
<1> QED  BY <1>1, <1>2, <1>3, <1>4, GoingKeeps

LEMMA SignpostKeeps ==
    ASSUME Held, NEW r \in Runs, Signpost(r)
    PROVE  Held'
<1>1. IsRun(work[r]) /\ work[r].at = "signpost"  BY RunsAreRuns DEF Held, Signpost, On
<1>2. Passes(work[r].kind, "signpost", "shrink")  BY <1>1 DEF IsRun, Early, Holding, Late, Passes
<1>3. Go(r, "shrink") /\ UNCHANGED <<ops, up>> /\ Onward
  BY DEF Held, HasHistory, Onward, Signpost, Unchanged
<1> QED  BY <1>1, <1>2, <1>3, GoingKeeps

LEMMA RecordDeleteKeeps ==
    ASSUME Held, NEW r \in Runs, RecordDelete(r)
    PROVE  Held'
<1>1. IsRun(work[r]) /\ work[r].at = "recordDelete"  BY RunsAreRuns DEF Held, RecordDelete, On
<1>2. Early(work[r].kind, "recordDelete") /\ Holding(work[r].kind, "stream")
  BY <1>1 DEF IsRun, Early, Holding, Late
<1>3. Alone(r)  BY DEF Held, WorkShape, HasHistory, Onward, RecordDelete, Go, Unchanged, Alone
<1>4. Recorded' \subseteq Recorded \cup {r}  BY DEF Held, RecordDelete, Recorded
<1>5. work'[r] = [work[r] EXCEPT !.at = "stream"]  BY DEF Held, WorkShape, RecordDelete, Go
<1>6. Same(work[r], work'[r]) /\ work'[r].at = "stream"
  BY <1>1, <1>5 DEF IsRun, HasFields, Same
<1> QED
  BY <1>1, <1>2, <1>3, <1>4, <1>6, RecordingKeeps DEF Records, IsRun, Same

LEMMA ErasePageKeeps ==
    ASSUME Held, NEW r \in Runs, ErasePage(r)
    PROVE  Held'
<1>1. IsRun(work[r]) /\ work[r].at = "erase"  BY RunsAreRuns DEF Held, ErasePage, On
<1>2. /\ Moves(r) /\ UNCHANGED <<ops, up>> /\ Onward
      /\ work'[r] = [work[r] EXCEPT !.todo = @ \ {"page"}]
  BY <1>1 DEF Held, HasHistory, Onward, WorkShape, Moves, ErasePage, Unchanged
<1>3. Same(work[r], work'[r]) /\ work'[r].at = "erase"
  BY <1>1, <1>2 DEF IsRun, HasFields, Same
<1>4. Passes(work[r].kind, "erase", "erase")  BY <1>1 DEF IsRun, Early, Holding, Late, Passes
<1> QED  BY <1>1, <1>2, <1>3, <1>4, MovingKeeps

LEMMA EraseRedirectsKeeps ==
    ASSUME Held, NEW r \in Runs, EraseRedirects(r)
    PROVE  Held'
<1>1. IsRun(work[r]) /\ work[r].at = "erase"  BY RunsAreRuns DEF Held, EraseRedirects, On
<1>2. /\ Moves(r) /\ UNCHANGED <<ops, up>> /\ Onward
      /\ work'[r] = [work[r] EXCEPT !.todo = @ \ {"redirects"}]
  BY <1>1 DEF Held, HasHistory, Onward, WorkShape, Moves, EraseRedirects, Unchanged
<1>3. Same(work[r], work'[r]) /\ work'[r].at = "erase"
  BY <1>1, <1>2 DEF IsRun, HasFields, Same
<1>4. Passes(work[r].kind, "erase", "erase")  BY <1>1 DEF IsRun, Early, Holding, Late, Passes
<1> QED  BY <1>1, <1>2, <1>3, <1>4, MovingKeeps

LEMMA ErasedKeeps ==
    ASSUME Held, NEW r \in Runs, Erased(r)
    PROVE  Held'
<1>1. IsRun(work[r]) /\ work[r].at = "erase"  BY RunsAreRuns DEF Held, Erased, On
<1>2. Passes(work[r].kind, "erase", "prune")  BY <1>1 DEF IsRun, Early, Holding, Late, Passes
<1>3. Go(r, "prune") /\ UNCHANGED <<ops, up>> /\ Onward
  BY DEF Held, HasHistory, Onward, Erased, Unchanged
<1> QED  BY <1>1, <1>2, <1>3, GoingKeeps

-----------------------------------------------------------------------------
(* The steps that begin, resume and stop runs. *)

LEMMA BeginKeeps ==
    ASSUME Held, NEW r \in Runs, NEW kind, NEW id, NEW to, NEW redirect, NEW recursively,
           NEW at, Early(kind, at), Begin(r, kind, id, to, redirect, recursively, at)
    PROVE  Held'
<1>1. work[r] = Idle  BY DEF Begin
<1>2. Alone(r) /\ Recorded' = Recorded
  BY DEF Held, WorkShape, HasHistory, Onward, Begin, Spend, Alone, Recorded
<1>3. PICK copy, todo : work'[r] =
        [at |-> at, kind |-> kind, op |-> r, id |-> id, to |-> to, copy |-> copy,
         parent |-> NoId, redirect |-> redirect, recursively |-> recursively, ids |-> {},
         todo |-> todo, sum |-> 0, seen |-> Recorded, resumed |-> FALSE, ticked |-> FALSE]
  BY DEF Held, WorkShape, Begin
<1>4. IsRun(work'[r]) /\ work'[r].op = r  BY <1>3 DEF IsRun, HasFields
<1> QED  BY <1>1, <1>2, <1>4, StartingKeeps DEF Starts

LEMMA RequestKeeps ==
    ASSUME Held, NEW r \in Runs, Request(r)
    PROVE  Held'
<1>1. /\ Early("rename", "check") /\ Early("create", "clear")
      /\ Early("delete", "check") /\ Early("erase", "check")
  BY DEF Early
<1>2. ASSUME NEW i, NEW to, NEW redirect, BeginRename(r, i, to, redirect)
      PROVE  Held'
  BY <1>1, <1>2, BeginKeeps DEF BeginRename
<1>3. ASSUME NEW path, BeginCreate(r, path)
      PROVE  Held'
  BY <1>1, <1>3, BeginKeeps DEF BeginCreate
<1>4. ASSUME NEW i, NEW recursively, BeginDelete(r, i, recursively)
      PROVE  Held'
  BY <1>1, <1>4, BeginKeeps DEF BeginDelete
<1>5. ASSUME NEW i, NEW recursively, BeginErase(r, i, recursively)
      PROVE  Held'
  BY <1>1, <1>5, BeginKeeps DEF BeginErase
<1> QED  BY <1>2, <1>3, <1>4, <1>5 DEF Request

LEMMA ResumedIsRun ==
    ASSUME NEW o \in Runs
    PROVE  IsRun(Resumed(o)) /\ ~Early(Resumed(o).kind, Resumed(o).at)
  BY DEF Resumed, IsRun, HasFields, Holding, Early

LEMMA ResumeKeeps ==
    ASSUME Held, NEW r \in Runs, NEW o, Resume(o, r)
    PROVE  Held'
<1>1. o \in Runs  BY DEF Resume, Resumable, Recorded
<1>2. work[r] \in {Idle, Over}  BY DEF Resume
<1>3. work'[r] = Resumed(o)  BY DEF Held, WorkShape, Resume
<1>4. Alone(r) /\ Recorded' = Recorded
  BY DEF Held, WorkShape, HasHistory, Onward, Resume, Redone, Spend, Alone, Recorded
<1> QED  BY <1>1, <1>2, <1>3, <1>4, ResumedIsRun, StartingKeeps DEF Starts

LEMMA TimePassesKeeps ==
    ASSUME Held, NEW o, TimePasses(o)
    PROVE  Held'
<1>1. Recorded' \subseteq Recorded
  BY DEF Held, TimePasses, Resumable, Recorded
<1>2. ops' = [x \in Runs |-> ops'[x]] /\ UNCHANGED <<work, up, history>>
  BY DEF Held, TimePasses, Unchanged, Resumable, Recorded
<1> QED  BY <1>1, <1>2 DEF Held, WorkShape, NotYet, Minded, HasHistory

LEMMA AwaitFailsKeeps ==
    ASSUME Held, NEW r \in Runs, AwaitFails(r)
    PROVE  Held'
<1>1. IsRun(work[r])  BY RunsAreRuns DEF Held, AwaitFails, InFlight
<1> QED  BY <1>1, ThrowingKeeps DEF AwaitFails

(* What a crash leaves needs nobody; and nobody is lost by a start after it. *)
LEMMA CrashKeeps ==
    ASSUME Held, Crash
    PROVE  Held'
<1>1. /\ work' = [r \in Runs |-> work'[r]]
      /\ \A r \in Runs : work'[r] \in {work[r], Over}
  BY DEF Held, Crash
<1>2. Over # Idle /\ ~IsRun(Over)
  BY DEF Over, Idle, IsRun, Early, Holding, Late
<1>3. ops' = ops /\ Recorded' = Recorded  BY DEF Crash, Recorded
<1>4. WorkShape' /\ NotYet'
  BY <1>1, <1>2, <1>3 DEF Held, WorkShape, NotYet
<1>5. HasHistory' /\ history'.stopped  BY DEF Held, HasHistory, Crash
<1> QED  BY <1>3, <1>4, <1>5 DEF Held, Minded

LEMMA BootKeeps ==
    ASSUME Held, Boot
    PROVE  Held'
<1>1. history.stopped  BY DEF Held, Boot
<1>2. /\ work' = [r \in Runs |-> work'[r]]
      /\ \A r \in Runs : work'[r] \in {work[r], Resumed(r)}
  BY DEF Held, Boot
<1>3. \A r \in Runs : Resumed(r) # Idle  BY DEF Resumed, Idle
<1>4. ops' = ops /\ Recorded' = Recorded  BY DEF Boot, Recorded
<1>5. WorkShape' /\ NotYet'
  BY <1>2, <1>3, <1>4, ResumedIsRun, SMTT(60) DEF Held, WorkShape, NotYet
<1>6. HasHistory' /\ history'.stopped
  BY <1>1 DEF Held, HasHistory, Boot, Redone
<1> QED  BY <1>4, <1>5, <1>6 DEF Held, Minded

-----------------------------------------------------------------------------
(* The theorem. *)

LEMMA InitHeld == Init => Held
  BY DEF Init, Held, WorkShape, NotYet, Minded, HasHistory, Recorded, NoOp, IsRun, Early,
         Holding, Late, Idle

LEMMA AdvanceKeeps ==
    ASSUME Held, NEW r \in Runs, Advance(r)
    PROVE  Held'
<1>1. CASE Check(r) \/ Record(r) \/ TakeOff(r) \/ Find(r) \/ Insert(r) \/
           Link(r) \/ Plant(r) \/ Graft(r) \/ Put(r) \/ Bump(r) \/
           CreateRedirect(r) \/ SetStage(r)
  BY <1>1, CheckKeeps, RecordKeeps, TakeOffKeeps, FindKeeps, InsertKeeps, LinkKeeps,
     PlantKeeps, GraftKeeps, PutKeeps, BumpKeeps, CreateRedirectKeeps, SetStageKeeps
<1>2. CASE Stream(r) \/ BatchesEnd(r) \/ Unbump(r) \/ Shrink(r) \/ Shrunk(r) \/
           Grow(r) \/ Grown(r) \/ Prune(r) \/ Pruned(r) \/ Done(r) \/ Recount(r)
           \/ Store(r) \/ Cleanup(r)
  BY <1>2, StreamKeeps, BatchesEndKeeps, UnbumpKeeps, ShrinkKeeps, ShrunkKeeps,
     GrowKeeps, GrownKeeps, PruneKeeps, PrunedKeeps, DoneKeeps, RecountKeeps,
     StoreKeeps, CleanupKeeps
<1>3. CASE ClearRedirect(r) \/ Prepare(r) \/ Save(r) \/ RecordCreate(r) \/
           Replace(r) \/ Adopt(r) \/ TrashTarget(r) \/ Signpost(r) \/
           RecordDelete(r) \/ ErasePage(r) \/ EraseRedirects(r) \/ Erased(r)
  BY <1>3, ClearRedirectKeeps, PrepareKeeps, SaveKeeps, RecordCreateKeeps,
     ReplaceKeeps, AdoptKeeps, TrashTargetKeeps, SignpostKeeps, RecordDeleteKeeps,
     ErasePageKeeps, EraseRedirectsKeeps, ErasedKeeps
<1>4. CASE On(r, "batch") /\ \E x \in work[r].todo : Batch(r, x)  BY <1>4, BatchKeeps
<1> QED  BY Zenon, <1>1, <1>2, <1>3, <1>4 DEF Advance

LEMMA NextKeeps == Held /\ [Next]_vars => Held'
<1> SUFFICES ASSUME Held, [Next]_vars  PROVE Held'
  OBVIOUS
<1>1. CASE UNCHANGED vars
  BY <1>1 DEF vars, Held, WorkShape, NotYet, Minded, HasHistory, Recorded
<1>2. ASSUME NEW r \in Runs,
             Request(r) \/ Advance(r) \/ ExtendExpiryDate(r) \/ AwaitFails(r)
      PROVE  Held'
  BY <1>2, RequestKeeps, AdvanceKeeps, ExtendExpiryDateKeeps, AwaitFailsKeeps
<1>3. ASSUME NEW r \in Runs, NEW x \in work[r].todo, BatchFails(r, x)
      PROVE  Held'
  BY <1>3, BatchFailsKeeps
<1>4. ASSUME NEW o \in Runs, TimePasses(o) \/ \E r \in Runs : Resume(o, r)
      PROVE  Held'
  BY <1>4, TimePassesKeeps, ResumeKeeps
<1>5. CASE Crash \/ Boot  BY <1>5, CrashKeeps, BootKeeps
<1> QED  BY <1>1, <1>2, <1>3, <1>4, <1>5 DEF Next

LEMMA HeldIsFreed == Held => AreasFreed
<1> SUFFICES ASSUME Held, InFlight = {}, ~history.stopped  PROVE Recorded = {}
  BY DEF AreasFreed
<1>1. ASSUME NEW r \in Runs, IsRun(work[r])  PROVE FALSE
  BY <1>1 DEF InFlight, IsRun, Early, Holding, Late
<1> QED  BY <1>1 DEF Held, Minded

(* A recorded operation is never left without a run that will delete it, and *)
(* with no request under way none is recorded, unless a crash or an error    *)
(* has left one: for any tree, any requests and any number of failures.      *)
THEOREM AreasSetFree == Spec => []AreasFreed
<1>1. Spec => []Held  BY InitHeld, NextKeeps, PTL DEF Spec
<1> QED  BY <1>1, HeldIsFreed, PTL

-----------------------------------------------------------------------------
(* Lemmas on numbers and sets. *)

LEMMA Smallest ==
    ASSUME NEW S \in SUBSET Nat, S # {}
    PROVE  \E m \in S : \A j \in S : m <= j
<1> DEFINE R == {z \in Nat \X Nat : z[1] < z[2]}
<1>0. IsWellFoundedOn(R, Nat)  BY NatLessThanWellFounded DEF OpToRel
<1>1. PICK m \in S : \A j \in S : ~(<<j, m>> \in R)
  BY <1>0, WFMin
<1>2. \A j \in S : ~(j < m)  BY <1>1
<1> QED  BY <1>2

LEMMA EarliestIsOne ==
    ASSUME NEW S \in SUBSET Nat, S # {}
    PROVE  Earliest(S) \in S /\ \A j \in S : Earliest(S) <= j
  BY Smallest DEF Earliest

(* A statement about numbers has a smallest counterexample. *)
LEMMA Induction ==
    ASSUME NEW S \in SUBSET Nat, NEW n \in Nat, 0 \in S,
           \A k \in 1 .. n : k - 1 \in S => k \in S
    PROVE  \A k \in 0 .. n : k \in S
<1> SUFFICES ASSUME NEW k \in 0 .. n, k \notin S  PROVE FALSE
  OBVIOUS
<1> DEFINE T == (0 .. n) \ S
<1>0. T \in SUBSET Nat /\ T # {}  OBVIOUS
<1>1. PICK m \in T : \A j \in T : m <= j
  BY <1>0, Smallest
<1>2. m # 0 /\ m - 1 \in 0 .. n  BY <1>1
<1>3. m - 1 \in S  BY <1>1, <1>2
<1> QED  BY <1>1, <1>2, <1>3

(* Different ranks from 0 below n, n of them, are all of them. *)
LEMMA RanksAreAll ==
    ASSUME NEW S, IsFiniteSet(S), NEW f \in [S -> 0 .. Cardinality(S) - 1],
           \A p, q \in S : f[p] = f[q] => p = q
    PROVE  {f[p] : p \in S} = 0 .. Cardinality(S) - 1
<1> DEFINE n == Cardinality(S)  T == {f[p] : p \in S}
<1>1. n \in Nat  BY FS_CardinalityType
<1>2. IsFiniteSet(0 .. n - 1) /\ Cardinality(0 .. n - 1) = n  BY <1>1, FS_Interval, SMTT(60)
<1>3. T \subseteq 0 .. n - 1  OBVIOUS
<1>4. f \in Bijection(S, T)
  <2>1. f \in [S -> T]  OBVIOUS
  <2> QED  BY <2>1 DEF Bijection, Injection, Surjection, IsInjective
<1>5. IsFiniteSet(T) /\ Cardinality(T) = n
  BY <1>4, FS_Bijection DEF ExistsBijection
<1> QED  BY <1>2, <1>3, <1>5, FS_Subset

-----------------------------------------------------------------------------
(* Documents that are inserted along a path take the next ids. *)

LEMMA PrefixLengths ==
    ASSUME NEW to \in Seq(Names), NEW p \in Ancestors(to)
    PROVE  /\ p \in Seq(Names) /\ Len(p) \in 0 .. Len(to) - 1
           /\ p = SubSeq(to, 1, Len(p))
<1>1. PICK k \in 0 .. Len(to) - 1 : p = SubSeq(to, 1, k)  BY DEF Ancestors
<1> QED  BY <1>1

LEMMA AncestorsAreFinite ==
    ASSUME NEW to \in Seq(Names), NEW S \in SUBSET Ancestors(to)
    PROVE  IsFiniteSet(S) /\ Cardinality(S) \in Nat
<1>1. Len(to) \in Nat  OBVIOUS
<1> DEFINE f == [p \in S |-> Len(p)]
<1>2. f \in Injection(S, 0 .. Len(to) - 1)
  BY PrefixLengths DEF Injection, IsInjective
<1>3. IsFiniteSet(0 .. Len(to) - 1)  BY <1>1, FS_Interval
<1>4. IsFiniteSet(S)  BY <1>2, <1>3, FS_Injection
<1> QED  BY <1>4, FS_CardinalityType

Shorter(S, p) == Cardinality({q \in S : Len(q) < Len(p)})

LEMMA ShorterRanks ==
    ASSUME NEW to \in Seq(Names), NEW S \in SUBSET Ancestors(to)
    PROVE  /\ {Shorter(S, p) : p \in S} = 0 .. Cardinality(S) - 1
           /\ \A p, q \in S : Shorter(S, p) = Shorter(S, q) => p = q
           /\ \A p, q \in S : Len(p) < Len(q) => Shorter(S, p) < Shorter(S, q)
<1>1. IsFiniteSet(S) /\ Cardinality(S) \in Nat  BY AncestorsAreFinite
<1> DEFINE below(p) == {q \in S : Len(q) < Len(p)}
<1>2. \A p \in S : IsFiniteSet(below(p)) /\ Cardinality(below(p)) \in 0 .. Cardinality(S) - 1
  <2> SUFFICES ASSUME NEW p \in S
               PROVE  IsFiniteSet(below(p)) /\ Cardinality(below(p)) \in 0 .. Cardinality(S) - 1
    OBVIOUS
  <2>1. IsFiniteSet(S \ {p}) /\ Cardinality(S \ {p}) = Cardinality(S) - 1
    BY <1>1, FS_RemoveElement
  <2>2. below(p) \subseteq S \ {p}  BY PrefixLengths
  <2>3. IsFiniteSet(below(p)) /\ Cardinality(below(p)) <= Cardinality(S) - 1
    BY <2>1, <2>2, FS_Subset
  <2> QED  BY <1>1, <2>3, FS_CardinalityType
<1>3. \A p, q \in S : Len(p) < Len(q) => Cardinality(below(p)) < Cardinality(below(q))
  <2> SUFFICES ASSUME NEW p \in S, NEW q \in S, Len(p) < Len(q)
               PROVE  Cardinality(below(p)) < Cardinality(below(q))
    OBVIOUS
  <2>1. below(p) \cup {p} \subseteq below(q)  BY PrefixLengths
  <2>2. Cardinality(below(p) \cup {p}) = Cardinality(below(p)) + 1
    <3>1. IsFiniteSet(below(p)) /\ p \notin below(p)  BY <1>2, PrefixLengths
    <3> HIDE DEF below
    <3> QED  BY <3>1, FS_AddElement
  <2>3. Cardinality(below(p) \cup {p}) <= Cardinality(below(q))
    BY <1>2, <2>1, FS_Subset
  <2> HIDE DEF below
  <2> QED  BY <1>1, <1>2, <2>2, <2>3
<1>4. \A p, q \in S : Len(p) = Len(q) => p = q  BY PrefixLengths
<1>5. \A p \in S : Len(p) \in Nat  BY PrefixLengths
<1>6. \A p, q \in S : Cardinality(below(p)) = Cardinality(below(q)) => p = q
  <2> SUFFICES ASSUME NEW p \in S, NEW q \in S,
                      Cardinality(below(p)) = Cardinality(below(q)), p # q
               PROVE  FALSE
    OBVIOUS
  <2>1. Len(p) < Len(q) \/ Len(q) < Len(p)  BY <1>4, <1>5
  <2> HIDE DEF below
  <2> QED  BY <1>1, <1>2, <1>3, <2>1
<1> DEFINE f == [p \in S |-> Cardinality(below(p))]
<1>7. f \in [S -> 0 .. Cardinality(S) - 1]  BY <1>2
<1>8. \A p, q \in S : f[p] = f[q] => p = q  BY <1>6
<1> HIDE DEF below
<1>9. {f[p] : p \in S} = 0 .. Cardinality(S) - 1
  <2> HIDE DEF f
  <2> QED  BY <1>1, <1>7, <1>8, RanksAreAll
<1>10. {f[p] : p \in S} = {Cardinality(below(p)) : p \in S}  OBVIOUS
<1> USE DEF below
<1> QED  BY <1>3, <1>6, <1>9, <1>10 DEF Shorter

Size == Cardinality(Ids)

LEMMA IdsAreCounted ==
    ASSUME IsCollection(pages)
    PROVE  /\ Size \in Nat \ {0} /\ Ids = 0 .. Size - 1 /\ Ids \subseteq Nat
           /\ NoId \notin Ids /\ Top \in Ids
  BY FS_CardinalityType DEF IsCollection, Size, Top, NoId

(* New ids follow the old. *)
LEMMA GrownCollection ==
    ASSUME IsCollection(pages), NEW docs, NEW n \in Nat, DOMAIN docs = 0 .. Size + n - 1,
           \A i \in DOMAIN docs : IsDocument(docs[i], DOMAIN docs),
           docs[Top].kind = "page", docs[Top].path = <<>>, docs[Top].parent = NoId
    PROVE  IsCollection(docs) /\ Ids \subseteq DOMAIN docs
                /\ Cardinality(DOMAIN docs) = Size + n
<1>1. Size \in Nat \ {0} /\ Ids = 0 .. Size - 1  BY IdsAreCounted
<1>2. /\ IsFiniteSet(0 .. Size + n - 1)
      /\ Cardinality(0 .. Size + n - 1) = Size + n
  BY <1>1, FS_Interval, SMTT(60)
<1> QED  BY <1>1, <1>2 DEF IsCollection, Top

LEMMA WiderDocument ==
    ASSUME NEW doc, NEW ids, NEW more, ids \subseteq more, IsDocument(doc, ids)
    PROVE  IsDocument(doc, more)
  BY DEF IsDocument

LEMMA InsertedDocuments ==
    ASSUME IsCollection(pages), NEW to \in Seq(Names), NEW S \in SUBSET Ancestors(to)
    PROVE  LET new(p) == [kind |-> "empty", path |-> p, parent |-> NoId, count |-> 0]
           IN  /\ Cardinality(S) \in Nat
               /\ DOMAIN Inserted(S) = 0 .. Size + Cardinality(S) - 1
               /\ \A i \in Ids : Inserted(S)[i] = pages[i]
               /\ \A p \in S : Inserted(S)[Size + Shorter(S, p)] = new(p)
               /\ \A i \in DOMAIN Inserted(S) \ Ids : \E p \in S :
                     i = Size + Shorter(S, p) /\ Inserted(S)[i] = new(p)
<1> DEFINE new(p) == [kind |-> "empty", path |-> p, parent |-> NoId, count |-> 0]
           ranks == {Size + Shorter(S, p) : p \in S}
           added == [i \in ranks |-> new(CHOOSE p \in S : Size + Shorter(S, p) = i)]
<1>1. Cardinality(S) \in Nat  BY AncestorsAreFinite
<1>2. /\ {Shorter(S, p) : p \in S} = 0 .. Cardinality(S) - 1
      /\ \A p, q \in S : Shorter(S, p) = Shorter(S, q) => p = q
  BY ShorterRanks
<1>3. \A p \in S : Shorter(S, p) \in 0 .. Cardinality(S) - 1  BY <1>2
<1>4. Size \in Nat \ {0} /\ Ids = 0 .. Size - 1  BY IdsAreCounted
<1>5. Inserted(S) = Joined(pages, added)
  BY DEF Inserted, Shorter, NewId, Size
<1>6. ranks = Size .. Size + Cardinality(S) - 1
  <2>1. ranks \subseteq Size .. Size + Cardinality(S) - 1  BY <1>1, <1>3, <1>4
  <2>2. ASSUME NEW i \in Size .. Size + Cardinality(S) - 1  PROVE i \in ranks
    <3>1. i - Size \in 0 .. Cardinality(S) - 1  BY <1>1, <1>4, <2>2
    <3>2. PICK p \in S : Shorter(S, p) = i - Size  BY <1>2, <3>1
    <3> QED  BY <1>4, <3>2
  <2> QED  BY <2>1, <2>2
<1>7. \A p \in S : (CHOOSE q \in S : Size + Shorter(S, q) = Size + Shorter(S, p)) = p
  <2> SUFFICES ASSUME NEW p \in S
               PROVE  (CHOOSE q \in S : Size + Shorter(S, q) = Size + Shorter(S, p)) = p
    OBVIOUS
  <2>1. \A q \in S : Size + Shorter(S, q) = Size + Shorter(S, p) => q = p
    BY <1>1, <1>2, <1>3, <1>4
  <2> QED  BY <2>1
<1>8. \A p \in S : Size + Shorter(S, p) \in ranks /\ added[Size + Shorter(S, p)] = new(p)
  BY <1>7
<1>9. \A i \in ranks : \E p \in S : i = Size + Shorter(S, p) /\ added[i] = new(p)
  BY <1>8, ZenonT(60)
<1>10. DOMAIN added = ranks  OBVIOUS
<1> HIDE DEF ranks, added, new
<1>11. ranks \cap Ids = {} /\ Ids \cup ranks = 0 .. Size + Cardinality(S) - 1
  BY <1>1, <1>4, <1>6
<1>12. DOMAIN Inserted(S) = 0 .. Size + Cardinality(S) - 1
  BY <1>5, <1>10, <1>11 DEF Joined, Ids
<1>13. \A i \in Ids : Inserted(S)[i] = pages[i]
  BY <1>5 DEF Joined, Ids
<1>14. \A i \in ranks : Inserted(S)[i] = added[i]
  BY <1>5, <1>10, <1>11 DEF Joined, Ids
<1>15. \A i \in DOMAIN Inserted(S) \ Ids : i \in ranks  BY <1>11, <1>12
<1> QED
  BY <1>1, <1>8, <1>9, <1>12, <1>13, <1>14, <1>15, ZenonT(60) DEF new

LEMMA InsertedIsCollection ==
    ASSUME IsCollection(pages), NEW to \in Seq(Names), NEW S \in SUBSET Ancestors(to)
    PROVE  IsCollection(Inserted(S)) /\ Ids \subseteq DOMAIN Inserted(S)
<1> DEFINE docs == Inserted(S)
<1>1. /\ Cardinality(S) \in Nat
      /\ DOMAIN docs = 0 .. Size + Cardinality(S) - 1
      /\ \A i \in Ids : docs[i] = pages[i]
      /\ \A i \in DOMAIN docs \ Ids : \E p \in S :
            docs[i] = [kind |-> "empty", path |-> p, parent |-> NoId, count |-> 0]
  BY InsertedDocuments
<1>2. Size \in Nat \ {0} /\ Ids = 0 .. Size - 1 /\ Top \in Ids  BY IdsAreCounted
<1>3. Ids \subseteq DOMAIN docs  BY <1>1, <1>2
<1>4. \A i \in Ids : IsDocument(docs[i], DOMAIN docs)
  BY <1>1, <1>3, WiderDocument DEF IsCollection, Ids
<1>5. \A p \in S : p \in Seq(Names)  BY PrefixLengths
<1>6. \A i \in DOMAIN docs \ Ids : IsDocument(docs[i], DOMAIN docs)
  BY <1>1, <1>5 DEF IsDocument
<1>7. docs[Top] = pages[Top]  BY <1>1, <1>2
<1>8. \A i \in DOMAIN docs : IsDocument(docs[i], DOMAIN docs)  BY <1>4, <1>6
<1>9. docs[Top].kind = "page" /\ docs[Top].path = <<>> /\ docs[Top].parent = NoId
  BY <1>7 DEF IsCollection
<1> HIDE DEF docs
<1>10. IsCollection(docs) /\ Ids \subseteq DOMAIN docs
  BY <1>1, <1>8, <1>9, GrownCollection
<1> QED  BY <1>10 DEF docs

-----------------------------------------------------------------------------
(* The ancestors that are climbed to. *)

Stepped(C) == C \cup {pages[j].parent : j \in C \cap Ids}

IsClimb(climb, i) ==
    climb = [n \in 0 .. Size |-> IF n = 0 THEN {i} ELSE Stepped(climb[n - 1])]

(* The recursive definition has a solution: what is reached by n steps.      *)
LEMMA ClimbExists ==
    ASSUME Size \in Nat, NEW i
    PROVE  \E climb : IsClimb(climb, i)
<1> DEFINE X == {i} \cup {pages[j].parent : j \in Ids}
           goes(s, k) == /\ s[0] = i
                         /\ \A m \in 0 .. k - 1 : s[m] \in Ids /\ s[m + 1] = pages[s[m]].parent
           reached(n) == {x \in X : \E k \in 0 .. n, s \in [Nat -> X] : goes(s, k) /\ s[k] = x}
           climb == [n \in 0 .. Size |-> reached(n)]
<1>1. reached(0) = {i}
  <2>1. i \in reached(0)
    <3> DEFINE s == [m \in Nat |-> i]
    <3>1. s \in [Nat -> X] /\ goes(s, 0) /\ s[0] = i  OBVIOUS
    <3>2. 0 \in 0 .. 0  OBVIOUS
    <3> HIDE DEF goes, s
    <3> QED  BY <3>1, <3>2
  <2> QED  BY <2>1
<1>2. \A n \in 1 .. Size : reached(n) = Stepped(reached(n - 1))
  <2> SUFFICES ASSUME NEW n \in 1 .. Size  PROVE reached(n) = Stepped(reached(n - 1))
    OBVIOUS
  <2>1. ASSUME NEW x \in reached(n)  PROVE x \in Stepped(reached(n - 1))
    <3>1. PICK k \in 0 .. n, s \in [Nat -> X] : goes(s, k) /\ s[k] = x  BY <2>1
    <3>2. CASE k \in 0 .. n - 1  BY <2>1, <3>1, <3>2 DEF Stepped
    <3>3. CASE k = n
      <4>1. n - 1 \in 0 .. n - 1 /\ goes(s, n - 1)  BY <3>1, <3>3
      <4>2. s[n - 1] \in Ids /\ x = pages[s[n - 1]].parent  BY <3>1, <3>3
      <4>3. s[n - 1] \in reached(n - 1)  BY <4>1
      <4> QED  BY <4>2, <4>3 DEF Stepped
    <3> QED  BY <3>1, <3>2, <3>3
  <2>2. ASSUME NEW x \in Stepped(reached(n - 1))  PROVE x \in reached(n)
    <3>1. CASE x \in reached(n - 1)
      <4>1. PICK k \in 0 .. n - 1, s \in [Nat -> X] : goes(s, k) /\ s[k] = x  BY <3>1
      <4> QED  BY <3>1, <4>1
    <3>2. CASE x \notin reached(n - 1)
      <4>1. PICK j \in reached(n - 1) \cap Ids : x = pages[j].parent
        BY <2>2, <3>2 DEF Stepped
      <4>2. PICK k \in 0 .. n - 1, s \in [Nat -> X] : goes(s, k) /\ s[k] = j  BY <4>1
      <4> DEFINE t == [s EXCEPT ![k + 1] = x]
      <4>3. x \in X  BY <4>1
      <4>4. k + 1 \in 0 .. n /\ t \in [Nat -> X] /\ t[k + 1] = x  BY <4>3
      <4>5. goes(t, k + 1)
        <5>1. t[0] = i  BY <4>2
        <5>2. ASSUME NEW m \in 0 .. k
              PROVE  t[m] \in Ids /\ t[m + 1] = pages[t[m]].parent
          <6>1. t[m] = s[m]  OBVIOUS
          <6>2. CASE m = k  BY <4>1, <4>2, <4>4, <6>1, <6>2
          <6>3. CASE m # k
            <7>1. m \in 0 .. k - 1 /\ t[m + 1] = s[m + 1]  BY <6>3
            <7> QED  BY <4>2, <6>1, <7>1
          <6> QED  BY <6>2, <6>3
        <5> QED  BY <5>1, <5>2
      <4> QED  BY <4>3, <4>4, <4>5
    <3> QED  BY <3>1, <3>2
  <2> QED  BY <2>1, <2>2
<1>3. IsClimb(climb, i)
  <2> HIDE DEF reached
  <2>1. \A n \in 0 .. Size :
          reached(n) = IF n = 0 THEN {i} ELSE Stepped(climb[n - 1])
    BY <1>1, <1>2
  <2> QED  BY <2>1 DEF IsClimb
<1> QED  BY <1>3

LEMMA ClimbedSteps ==
    ASSUME Size \in Nat, NEW i
    PROVE  \E climb : /\ climb[0] = {i}
                      /\ \A n \in 1 .. Size : climb[n] = Stepped(climb[n - 1])
                      /\ Climbed(i) = climb[Size]
<1> DEFINE climb == CHOOSE c : IsClimb(c, i)
<1>1. IsClimb(climb, i)  BY ClimbExists
<1>2. Climbed(i) = climb[Size]  BY DEF Climbed, IsClimb, Stepped, Size
<1> HIDE DEF climb
<1>3. climb[0] = {i}  BY <1>1 DEF IsClimb
<1>4. \A n \in 1 .. Size : climb[n] = Stepped(climb[n - 1])
  <2> SUFFICES ASSUME NEW n \in 1 .. Size  PROVE climb[n] = Stepped(climb[n - 1])
    OBVIOUS
  <2>1. n \in 0 .. Size /\ n # 0  OBVIOUS
  <2> QED  BY <1>1, <2>1 DEF IsClimb
<1> QED  BY <1>2, <1>3, <1>4

(* What is climbed to lies in every set that has the page and the parents of *)
(* its members; it has the page itself.                                      *)
LEMMA ClimbedIsClosed ==
    ASSUME Size \in Nat, NEW i, NEW C, i \in C,
           \A j \in C \cap Ids : pages[j].parent \in C
    PROVE  Climbed(i) \subseteq C
<1>1. PICK climb : /\ climb[0] = {i}
                   /\ \A n \in 1 .. Size : climb[n] = Stepped(climb[n - 1])
                   /\ Climbed(i) = climb[Size]
  BY ClimbedSteps
<1> DEFINE S == {n \in 0 .. Size : climb[n] \subseteq C}
<1>2. 0 \in S  BY <1>1
<1>3. \A n \in 1 .. Size : n - 1 \in S => n \in S
  <2> SUFFICES ASSUME NEW n \in 1 .. Size, n - 1 \in S  PROVE n \in S
    OBVIOUS
  <2>1. climb[n] = Stepped(climb[n - 1])  BY <1>1
  <2> QED  BY <2>1 DEF Stepped
<1>4. S \in SUBSET Nat  OBVIOUS
<1> HIDE DEF S
<1>5. \A n \in 0 .. Size : n \in S  BY <1>2, <1>3, <1>4, Induction
<1> QED  BY <1>1, <1>5 DEF S

LEMMA ClimbedHasSelf ==
    ASSUME Size \in Nat, NEW i
    PROVE  i \in Climbed(i)
<1>1. PICK climb : /\ climb[0] = {i}
                   /\ \A n \in 1 .. Size : climb[n] = Stepped(climb[n - 1])
                   /\ Climbed(i) = climb[Size]
  BY ClimbedSteps
<1> DEFINE S == {n \in 0 .. Size : i \in climb[n]}
<1>2. 0 \in S  BY <1>1
<1>3. \A n \in 1 .. Size : n - 1 \in S => n \in S
  <2> SUFFICES ASSUME NEW n \in 1 .. Size, n - 1 \in S  PROVE n \in S
    OBVIOUS
  <2>1. climb[n] = Stepped(climb[n - 1])  BY <1>1
  <2> QED  BY <2>1 DEF Stepped
<1>4. S \in SUBSET Nat  OBVIOUS
<1> HIDE DEF S
<1>5. \A n \in 0 .. Size : n \in S  BY <1>2, <1>3, <1>4, Induction
<1> QED  BY <1>1, <1>5 DEF S

LEMMA NothingAboveTheTop ==
    ASSUME IsCollection(pages)
    PROVE  \A i \in Ids \ {Top} : Top \notin Descendants(i)
<1>1. Size \in Nat /\ Top \in Ids /\ NoId \notin Ids /\ pages[Top].parent = NoId
  BY IdsAreCounted DEF IsCollection
<1> DEFINE C == {Top, NoId}
<1>2. Top \in C /\ \A j \in C \cap Ids : pages[j].parent \in C  BY <1>1
<1>3. Climbed(Top) \subseteq C
  <2> HIDE DEF C
  <2> QED  BY <1>1, <1>2, ClimbedIsClosed
<1> QED  BY <1>1, <1>3 DEF Descendants

-----------------------------------------------------------------------------
(* Types.  The local variables of a run, with documents ids; and what it     *)
(* works on at some of its places.                                           *)
RunTyped(w, ids) ==
    /\ w.id \in (ids \ {Top}) \cup {NoId}
    /\ w.parent \in ids \cup {NoId}
    /\ IsDocument(w.copy, ids)
    /\ w.kind # "create" => w.id # NoId /\ w.copy.kind \in {"page", "empty"}
    /\ w.kind \in {"rename", "create"} => IsPath(w.to) /\ w.to # <<>>

StageTyped(w, ids) ==
    /\ w.kind = "create" /\ w.at \in {"recordCreate", "grow", "grown", "done"} => w.id # NoId
    /\ w.at = "insert" => w.todo \subseteq Ancestors(w.to)
    /\ w.at = "batch" => \A x \in w.todo : x[1] \in ids \ {Top} /\ x[2] \in Seq(Names)
    /\ w.at = "plant" => w.kind = "rename" /\ UnderTarget(w.copy.path, w.to)
    /\ w.at = "graft" =>
          w.kind = "rename" /\ \E a, b \in ids \ {Top} : a <= b /\ w.ids = a .. b
    /\ w.at = "pruned" => Top \notin w.ids

OpTyped(op, ids) ==
    /\ op = [stage |-> op.stage, kind |-> op.kind, id |-> op.id, copy |-> op.copy,
             from |-> op.from, to |-> op.to, redirect |-> op.redirect,
             ahead |-> op.ahead, order |-> op.order]
    /\ op.id \in ids \ {Top}
    /\ IsDocument(op.copy, ids)
    /\ \/ op.kind = "rename" /\ op.stage \in {"Main", "Sub"}
             /\ op.copy.kind \in {"page", "empty"} /\ IsPath(op.to) /\ op.to # <<>>
       \/ op.kind = "create" /\ op.stage = "Sub"
       \/ op.kind \in {"delete", "erase"} /\ op.stage = "Main"

AskedTyped ==
    /\ \A path \in asked.creates : IsPath(path) /\ path # <<>>
    /\ \A renaming \in asked.renames : IsPath(renaming[1]) /\ renaming[1] # <<>>
    /\ asked.deletes \cup asked.erasures \subseteq BOOLEAN

InMain(w) == w.kind = "rename" /\ w.at \in RenameMain

Typed ==
    /\ Held /\ IsCollection(pages) /\ AskedTyped
    /\ \A r \in Runs : IsRun(work[r]) => RunTyped(work[r], Ids) /\ StageTyped(work[r], Ids)
    /\ \A o \in Recorded : OpTyped(ops[o], Ids)
    /\ \A r \in Runs : IsRun(work[r]) /\ InMain(work[r]) /\ r \in Recorded =>
                          ops[r].kind = "rename"
    /\ history.fresh \subseteq Ids

LEMMA WiderRun ==
    ASSUME NEW w, NEW ids, NEW more, ids \subseteq more,
           RunTyped(w, ids), StageTyped(w, ids)
    PROVE  RunTyped(w, more) /\ StageTyped(w, more)
<1>1. RunTyped(w, more)  BY WiderDocument DEF RunTyped
<1>2. StageTyped(w, more)  BY DEF StageTyped
<1> QED  BY <1>1, <1>2

LEMMA WiderOp ==
    ASSUME NEW op, NEW ids, NEW more, ids \subseteq more, OpTyped(op, ids)
    PROVE  OpTyped(op, more)
  BY WiderDocument DEF OpTyped

LEMMA RunIsNeither ==
    ~IsRun(Idle) /\ ~IsRun(Over)
  BY DEF IsRun, Idle, Over, Early, Holding, Late

(* One run changes its local variables, and what it writes is typed. *)
LEMMA TypedStep ==
    ASSUME Typed, Held', NEW r \in Runs, Moves(r), asked' = asked,
           IsCollection(pages'), Ids \subseteq Ids', (history.fresh \subseteq Ids)',
           IsRun(work'[r]) => RunTyped(work'[r], Ids') /\ StageTyped(work'[r], Ids'),
           \A o \in Recorded' : OpTyped(ops'[o], Ids'),
           \A o \in Recorded' \ {r} : o \in Recorded /\ ops'[o].kind = ops[o].kind,
           IsRun(work'[r]) /\ InMain(work'[r]) /\ r \in Recorded' => ops'[r].kind = "rename"
    PROVE  Typed'
<1>1. \A s \in Runs \ {r} : work'[s] = work[s]
  BY DEF Typed, Held, WorkShape, Moves
<1>2. \A s \in Runs : IsRun(work'[s]) => RunTyped(work'[s], Ids') /\ StageTyped(work'[s], Ids')
  BY <1>1, WiderRun DEF Typed
<1>3. \A s \in Runs : IsRun(work'[s]) /\ InMain(work'[s]) /\ s \in Recorded' =>
                          ops'[s].kind = "rename"
  BY <1>1 DEF Typed
<1>4. AskedTyped'  BY DEF Typed, AskedTyped
<1>5. IsCollection(pages)'  OBVIOUS
<1> QED  BY <1>2, <1>3, <1>4, <1>5 DEF Typed, InMain, IsRun, HasFields

LEMMA QuietStep ==
    ASSUME Typed, Held', NEW r \in Runs, Moves(r), UNCHANGED <<ops, asked>>,
           IsCollection(pages'), Ids \subseteq Ids', (history.fresh \subseteq Ids)',
           IsRun(work'[r]) => RunTyped(work'[r], Ids') /\ StageTyped(work'[r], Ids'),
           IsRun(work'[r]) /\ InMain(work'[r]) => IsRun(work[r]) /\ InMain(work[r])
    PROVE  Typed'
<1>1. Recorded' = Recorded  BY DEF Recorded
<1>2. \A o \in Recorded' : OpTyped(ops'[o], Ids')
  BY <1>1, WiderOp DEF Typed
<1> QED  BY <1>1, <1>2, TypedStep DEF Typed

(* The local variables that have types stay what they are. *)
SameRun(v, w) ==
    /\ w.id = v.id /\ w.to = v.to /\ w.copy = v.copy /\ w.parent = v.parent
    /\ w.kind = v.kind

Special == {"recordCreate", "insert", "batch", "plant", "graft", "pruned"}

LEMMA PlainStep ==
    ASSUME Typed, Held', NEW r \in Runs, IsRun(work[r]), Moves(r), UNCHANGED <<ops, asked>>,
           IsCollection(pages'), Ids \subseteq Ids', (history.fresh \subseteq Ids)',
           \/ work'[r] = Over
           \/ /\ SameRun(work[r], work'[r]) /\ work'[r].at \notin Special
              /\ InMain(work'[r]) => InMain(work[r])
              /\ work[r].kind = "create" /\ work'[r].at \in {"grow", "grown", "done"} =>
                    work[r].at \in {"recordCreate", "grow", "grown", "done"}
    PROVE  Typed'
<1>1. CASE work'[r] = Over  BY <1>1, RunIsNeither, QuietStep
<1>2. CASE work'[r] # Over
  <2>1. RunTyped(work[r], Ids) /\ StageTyped(work[r], Ids)  BY DEF Typed
  <2>2. RunTyped(work'[r], Ids)  BY <1>2, <2>1 DEF RunTyped, SameRun
  <2>3. StageTyped(work'[r], Ids)
    BY <1>2, <2>1 DEF StageTyped, SameRun, Special
  <2>4. RunTyped(work'[r], Ids') /\ StageTyped(work'[r], Ids')
    BY <2>2, <2>3, WiderRun
  <2> QED  BY <1>2, <2>4, QuietStep
<1> QED  BY <1>1, <1>2

(* A collection whose documents are edited. *)
LEMMA EditedCollection ==
    ASSUME IsCollection(pages), NEW docs, DOMAIN docs = Ids,
           \A i \in Ids : IsDocument(docs[i], Ids),
           docs[Top].kind = "page", docs[Top].path = <<>>, docs[Top].parent = NoId
    PROVE  IsCollection(docs)
  BY DEF IsCollection, Ids

LEMMA ThrowTyped ==
    ASSUME Typed, Held', NEW r \in Runs, IsRun(work[r]), Throw(r), asked' = asked
    PROVE  Typed'
<1>1. UNCHANGED <<pages, ops>> /\ history'.fresh = history.fresh
  BY DEF Throw, Typed, Held, HasHistory
<1>2. /\ Moves(r)
      /\ work'[r] = Over \/ work'[r] = [work[r] EXCEPT !.at = "cleanup"]
  BY DEF Throw, Go, End, Typed, Held, WorkShape, Moves
<1>3. \/ work'[r] = Over
      \/ SameRun(work[r], work'[r]) /\ work'[r].at = "cleanup"
  BY <1>2 DEF IsRun, HasFields, SameRun
<1>4. IsCollection(pages') /\ Ids \subseteq Ids' /\ (history.fresh \subseteq Ids)'
  BY <1>1 DEF Typed, Ids
<1> QED  BY <1>1, <1>2, <1>3, <1>4, PlainStep DEF Special, InMain, RenameMain

LEMMA EarliestIsId ==
    ASSUME IsCollection(pages), NEW S \in SUBSET Ids, S # {}
    PROVE  Earliest(S) \in S
  BY IdsAreCounted, EarliestIsOne

LEMMA CheckTyped ==
    ASSUME Typed, NEW r \in Runs, Check(r)
    PROVE  Typed'
<1>1. IsRun(work[r]) /\ work[r].at = "check"  BY RunsAreRuns DEF Typed, Held, Check, On
<1>2. Held'  BY CheckKeeps DEF Typed
<1>3. UNCHANGED <<pages, ops, asked>> /\ history'.fresh = history.fresh
  BY DEF Check, Unchanged, Typed, Held, HasHistory
<1>4. \/ End(r)
      \/ \E at \in {"record", "replace", "trash", "shrink"} : Go(r, at)
  BY DEF Check
<1>5. /\ Moves(r)
      /\ \/ work'[r] = Over
         \/ \E at \in {"record", "replace", "trash", "shrink"} :
               work'[r] = [work[r] EXCEPT !.at = at]
  BY <1>4 DEF Go, End, Typed, Held, WorkShape, Moves
<1>6. \/ work'[r] = Over
      \/ SameRun(work[r], work'[r]) /\ work'[r].at \in {"record", "replace", "trash", "shrink"}
  BY <1>1, <1>5 DEF IsRun, HasFields, SameRun
<1>7. IsCollection(pages') /\ Ids \subseteq Ids' /\ (history.fresh \subseteq Ids)'
  BY <1>3 DEF Typed, Ids
<1> QED  BY <1>1, <1>2, <1>3, <1>5, <1>6, <1>7, PlainStep DEF Special, InMain, RenameMain

LEMMA RecordTyped ==
    ASSUME Typed, NEW r \in Runs, Record(r)
    PROVE  Typed'
<1>1. IsRun(work[r]) /\ work[r].at = "record" /\ work[r].kind = "rename"
  BY RunsAreRuns DEF Typed, Held, Record, On, IsRun, Early, Holding, Late
<1>2. Held'  BY RecordKeeps DEF Typed
<1>3. UNCHANGED <<pages, asked>> /\ history'.fresh = history.fresh
  BY DEF Record, Unchanged
<1>4. Moves(r) /\ work'[r] = [work[r] EXCEPT !.at = "takeOff"]
  BY DEF Record, Go, Typed, Held, WorkShape, Moves
<1>5. SameRun(work[r], work'[r]) /\ work'[r].at = "takeOff"
  BY <1>1, <1>4 DEF IsRun, HasFields, SameRun
<1>6. IsCollection(pages') /\ Ids' = Ids /\ (history.fresh \subseteq Ids)'
  BY <1>3 DEF Typed, Ids
<1>7. RunTyped(work[r], Ids)  BY <1>1 DEF Typed
<1>8. RunTyped(work'[r], Ids') /\ StageTyped(work'[r], Ids')
  BY <1>1, <1>5, <1>6, <1>7 DEF RunTyped, StageTyped, SameRun
<1>9. ops' = [ops EXCEPT ![r] = Operation(r, "Main", work[r].to)]  BY DEF Record
<1>10. OpTyped(Operation(r, "Main", work[r].to), Ids) /\ Operation(r, "Main", work[r].to).kind = "rename"
  BY <1>1, <1>7 DEF OpTyped, Operation, RunTyped
<1>11. ops'[r] = Operation(r, "Main", work[r].to) /\ \A o \in Runs \ {r} : ops'[o] = ops[o]
  BY <1>9 DEF Typed, Held
<1>12. \A o \in Recorded' : OpTyped(ops'[o], Ids')
  BY <1>6, <1>10, <1>11 DEF Typed, Recorded
<1>13. \A o \in Recorded' \ {r} : o \in Recorded /\ ops'[o].kind = ops[o].kind
  BY <1>11 DEF Recorded
<1> QED
  BY <1>2, <1>3, <1>4, <1>6, <1>8, <1>10, <1>11, <1>12, <1>13, TypedStep

(* A step of which the pages that are written differ from the others in      *)
(* their parents, counts or paths only.                                      *)
LEMMA TakeOffTyped ==
    ASSUME Typed, NEW r \in Runs, TakeOff(r)
    PROVE  Typed'
<1>1. IsRun(work[r]) /\ work[r].at = "takeOff" /\ work[r].kind = "rename"
  BY RunsAreRuns DEF Typed, Held, TakeOff, On, IsRun, Early, Holding, Late
<1>2. Held'  BY TakeOffKeeps DEF Typed
<1>3. CASE Throw(r)  BY <1>1, <1>2, <1>3, ThrowTyped DEF TakeOff, Unchanged
<1>4. CASE ~Throw(r)
  <2>1. /\ pages' = [pages EXCEPT ![work[r].id].parent = NoId]
        /\ Go(r, "find") /\ UNCHANGED <<ops, asked, history>>
    BY <1>4 DEF TakeOff, Unchanged
  <2>2. Moves(r) /\ work'[r] = [work[r] EXCEPT !.at = "find"]
    BY <2>1 DEF Go, Typed, Held, WorkShape, Moves
  <2>3. SameRun(work[r], work'[r]) /\ work'[r].at = "find"
    BY <1>1, <2>2 DEF IsRun, HasFields, SameRun
  <2>4. work[r].id \in Ids \ {Top}  BY <1>1 DEF Typed, RunTyped
  <2>5. \A i \in Ids : pages[i] = [kind |-> pages[i].kind, path |-> pages[i].path,
           parent |-> pages[i].parent, count |-> pages[i].count] /\ IsDocument(pages[i], Ids)
    BY DEF Typed, IsCollection, IsDocument, Ids
  <2>6. DOMAIN pages' = Ids /\ \A i \in Ids : IsDocument(pages'[i], Ids)
    BY <2>1, <2>4, <2>5 DEF IsDocument, NoPage, Ids
  <2>7. pages'[Top] = pages[Top]  BY <2>1, <2>4 DEF Ids
  <2>8. IsCollection(pages')  BY <2>6, <2>7, EditedCollection DEF Typed, IsCollection
  <2> QED
    BY <1>1, <1>2, <2>1, <2>2, <2>3, <2>6, <2>8, PlainStep
    DEF Special, InMain, RenameMain, Typed, Ids
<1> QED  BY <1>3, <1>4

LEMMA FindTyped ==
    ASSUME Typed, NEW r \in Runs, Find(r)
    PROVE  Typed'
<1>1. IsRun(work[r]) /\ work[r].at = "find" /\ work[r].kind \in {"rename", "create"}
  BY RunsAreRuns DEF Typed, Held, Find, On, IsRun, Early, Holding, Late
<1>2. Held'  BY FindKeeps DEF Typed
<1>3. CASE Throw(r)  BY <1>1, <1>2, <1>3, ThrowTyped DEF Find, Unchanged
<1>4. CASE ~Throw(r)
  <2> DEFINE parents == {i \in At(Dirname(work[r].to)) : OnTree(i)}
  <2>1. UNCHANGED <<pages, ops, asked, history>>
    BY <1>4 DEF Find, Unchanged
  <2>2. IsCollection(pages') /\ Ids' = Ids /\ (history.fresh \subseteq Ids)'
    BY <2>1 DEF Typed, Ids
  <2>3. RunTyped(work[r], Ids)  BY <1>1 DEF Typed
  <2>4. CASE Rename(r) /\ UnderTarget(work[r].copy.path, work[r].to) /\ Go(r, "plant")
    <3>1. Moves(r) /\ work'[r] = [work[r] EXCEPT !.at = "plant"]
      BY <2>4 DEF Go, Typed, Held, WorkShape, Moves
    <3>2. SameRun(work[r], work'[r]) /\ work'[r].at = "plant"
      BY <1>1, <3>1 DEF IsRun, HasFields, SameRun
    <3>3. RunTyped(work'[r], Ids') /\ StageTyped(work'[r], Ids')
      BY <2>2, <2>3, <2>4, <3>2 DEF RunTyped, StageTyped, SameRun, Rename
    <3> QED
      BY <1>1, <1>2, <2>1, <2>2, <2>4, <3>1, <3>3, QuietStep DEF InMain, RenameMain, Rename
  <2>5. CASE parents # {} /\ work' = [work EXCEPT ![r] =
               [@ EXCEPT !.at = IF Rename(r) THEN "put" ELSE "save",
                         !.parent = Earliest(parents)]]
    <3>1. Earliest(parents) \in Ids
      BY <2>5, EarliestIsId DEF Typed, At
    <3>2. /\ Moves(r)
          /\ work'[r] = [work[r] EXCEPT !.at = IF Rename(r) THEN "put" ELSE "save",
                                        !.parent = Earliest(parents)]
      BY <2>5 DEF Typed, Held, WorkShape, Moves
    <3>3. SameRun([work[r] EXCEPT !.parent = Earliest(parents)], work'[r])
          /\ work'[r].at = (IF Rename(r) THEN "put" ELSE "save")
      BY <1>1, <3>2 DEF IsRun, HasFields, SameRun
    <3>4. work'[r].id = work[r].id /\ work'[r].copy = work[r].copy /\ work'[r].to = work[r].to
          /\ work'[r].kind = work[r].kind /\ work'[r].parent = Earliest(parents)
      BY <1>1, <3>2 DEF IsRun, HasFields
    <3> HIDE DEF parents
    <3>5. RunTyped(work'[r], Ids') /\ StageTyped(work'[r], Ids')
      BY <2>2, <2>3, <3>1, <3>3, <3>4 DEF RunTyped, StageTyped
    <3> QED
      BY <1>1, <1>2, <2>1, <2>2, <3>2, <3>3, <3>4, <3>5, QuietStep
      DEF InMain, RenameMain, Rename
  <2>6. CASE work' = [work EXCEPT ![r] = [@ EXCEPT !.at = "insert", !.todo = Missing(work[r].to)]]
    <3>1. /\ Moves(r)
          /\ work'[r] = [work[r] EXCEPT !.at = "insert", !.todo = Missing(work[r].to)]
      BY <2>6 DEF Typed, Held, WorkShape, Moves
    <3>2. SameRun(work[r], work'[r]) /\ work'[r].at = "insert" /\ work'[r].todo = Missing(work[r].to)
      BY <1>1, <3>1 DEF IsRun, HasFields, SameRun
    <3>3. RunTyped(work'[r], Ids') /\ StageTyped(work'[r], Ids')
      BY <2>2, <2>3, <3>2 DEF RunTyped, StageTyped, SameRun, Missing
    <3> QED
      BY <1>1, <1>2, <2>1, <2>2, <3>1, <3>2, <3>3, QuietStep
      DEF InMain, RenameMain, Rename, SameRun
  <2> QED  BY <1>4, <2>4, <2>5, <2>6 DEF Find
<1> QED  BY <1>3, <1>4

(* Documents of which at most the counts change. *)
LEMMA CountedDocument ==
    ASSUME NEW doc, NEW ids, IsDocument(doc, ids), doc.kind # "none", NEW n
    PROVE  /\ IsDocument([doc EXCEPT !.count = n], ids)
           /\ [doc EXCEPT !.count = n].kind = doc.kind
           /\ [doc EXCEPT !.count = n].path = doc.path
           /\ [doc EXCEPT !.count = n].parent = doc.parent
  BY DEF IsDocument

LEMMA CountedCollection ==
    ASSUME IsCollection(pages), NEW docs, DOMAIN docs = Ids,
           \A i \in Ids : \/ docs[i] = pages[i]
                          \/ Found(i) /\ \E n : docs[i] = [pages[i] EXCEPT !.count = n]
    PROVE  IsCollection(docs)
<1>1. \A i \in Ids : IsDocument(pages[i], Ids)  BY DEF IsCollection, Ids
<1>2. \A i \in Ids : /\ IsDocument(docs[i], Ids)
                     /\ docs[i].kind = pages[i].kind /\ docs[i].path = pages[i].path
                     /\ docs[i].parent = pages[i].parent
  <2> SUFFICES ASSUME NEW i \in Ids
               PROVE  /\ IsDocument(docs[i], Ids)
                      /\ docs[i].kind = pages[i].kind /\ docs[i].path = pages[i].path
                      /\ docs[i].parent = pages[i].parent
    OBVIOUS
  <2>1. CASE docs[i] = pages[i]  BY <1>1, <2>1
  <2>2. CASE docs[i] # pages[i]
    <3>1. Found(i) /\ \E n : docs[i] = [pages[i] EXCEPT !.count = n]  BY <2>2
    <3>2. PICK n : docs[i] = [pages[i] EXCEPT !.count = n]  BY <3>1
    <3> QED  BY <1>1, <3>1, <3>2, CountedDocument DEF Found
  <2> QED  BY <2>1, <2>2
<1> QED  BY <1>2, EditedCollection DEF IsCollection, Ids

(* A document that is put below another, or off the tree.                    *)
LEMMA ReparentedDocument ==
    ASSUME NEW ids, NEW doc, IsDocument(doc, ids), doc.kind # "none", NEW i \in ids \cup {NoId}
    PROVE  /\ IsDocument([doc EXCEPT !.parent = i], ids)
           /\ [doc EXCEPT !.parent = i].kind = doc.kind
           /\ [doc EXCEPT !.parent = i].path = doc.path
           /\ [doc EXCEPT !.parent = i].parent = i
  BY DEF IsDocument

LEMMA IncreasedCollection ==
    ASSUME IsCollection(pages), NEW S, NEW n
    PROVE  IsCollection(Increased(S, n)) /\ DOMAIN Increased(S, n) = Ids
<1>1. DOMAIN Increased(S, n) = Ids  BY DEF Increased
<1>2. \A i \in Ids : \/ Increased(S, n)[i] = pages[i]
                     \/ Found(i) /\ \E m : Increased(S, n)[i] = [pages[i] EXCEPT !.count = m]
  BY DEF Increased
<1> QED  BY <1>1, <1>2, CountedCollection

LEMMA InsertTyped ==
    ASSUME Typed, NEW r \in Runs, Insert(r)
    PROVE  Typed'
<1>1. IsRun(work[r]) /\ work[r].at = "insert" /\ work[r].kind \in {"rename", "create"}
  BY RunsAreRuns DEF Typed, Held, Insert, On, IsRun, Early, Holding, Late
<1>2. Held'  BY InsertKeeps DEF Typed
<1>3. /\ pages' = Inserted(work[r].todo) /\ UNCHANGED <<ops, asked>>
      /\ history'.fresh = history.fresh
  BY DEF Insert, Unchanged, Typed, Held, HasHistory
<1>4. Moves(r) /\ work'[r] = [work[r] EXCEPT !.at = "link", !.todo = {}]
  BY DEF Insert, Typed, Held, WorkShape, Moves
<1>5. SameRun(work[r], work'[r]) /\ work'[r].at = "link"
  BY <1>1, <1>4 DEF IsRun, HasFields, SameRun
<1>6. work[r].to \in Seq(Names) /\ work[r].todo \subseteq Ancestors(work[r].to)
  BY <1>1 DEF Typed, RunTyped, StageTyped, IsPath
<1>7. IsCollection(pages') /\ Ids \subseteq Ids'
  BY <1>3, <1>6, InsertedIsCollection DEF Typed, Ids
<1>8. (history.fresh \subseteq Ids)'  BY <1>3, <1>7 DEF Typed
<1> QED
  BY <1>1, <1>2, <1>3, <1>4, <1>5, <1>7, <1>8, PlainStep DEF Special, InMain, RenameMain, SameRun

(* An ancestor of an ancestor of a path is one of the path. *)
LEMMA DirnameOfAncestor ==
    ASSUME NEW to \in Seq(Names), to # <<>>
    PROVE  /\ Dirname(to) \in Ancestors(to)
           /\ \A p \in Ancestors(to) : Dirname(p) \in Ancestors(to)
<1>1. Dirname(to) \in Ancestors(to)  BY DEF Dirname, Front, Ancestors
<1>2. ASSUME NEW p \in Ancestors(to)  PROVE Dirname(p) \in Ancestors(to)
  <2>1. PICK k \in 0 .. Len(to) - 1 : p = SubSeq(to, 1, k)  BY DEF Ancestors
  <2>2. CASE k = 0
    <3>1. p = <<>> /\ Dirname(p) = p  BY <2>1, <2>2 DEF Dirname, Front
    <3> QED  BY <1>2, <3>1
  <2>3. CASE k # 0
    <3>1. Len(p) = k  BY <2>1
    <3>2. Dirname(p) = SubSeq(to, 1, k - 1)  BY <2>1, <2>3, <3>1 DEF Dirname, Front
    <3> QED  BY <2>3, <3>2, SMTT(60) DEF Ancestors
  <2> QED  BY <2>2, <2>3
<1> QED  BY <1>1, <1>2

LEMMA LinkTyped ==
    ASSUME Typed, NEW r \in Runs, Link(r)
    PROVE  Typed'
<1>1. IsRun(work[r]) /\ work[r].at = "link" /\ work[r].kind \in {"rename", "create"}
  BY RunsAreRuns DEF Typed, Held, Link, On, IsRun, Early, Holding, Late
<1>2. Held'  BY LinkKeeps DEF Typed
<1>3. CASE Throw(r)  BY <1>1, <1>2, <1>3, ThrowTyped DEF Link, Unchanged
<1>4. CASE ~Throw(r)
  <2> DEFINE to == work[r].to
             linked == {i \in Ids : i # Top /\ \E p \in Ancestors(to) : i \in At(p)}
             above(p) == Earliest(At(Dirname(p)))
  <2>1. \A p \in Ancestors(to) : At(p) # {}  BY <1>4 DEF Link
  <2>2. /\ pages' = [i \in Ids |-> IF i \in linked
                        THEN [pages[i] EXCEPT !.parent = above(pages[i].path)] ELSE pages[i]]
        /\ work' = [work EXCEPT ![r].at = IF Rename(r) THEN "put" ELSE "save",
                                ![r].parent = above(to)]
        /\ UNCHANGED <<ops, asked, history>>
    BY <1>4 DEF Link, Unchanged
  <2>3. RunTyped(work[r], Ids) /\ to \in Seq(Names) /\ to # <<>>
    BY <1>1 DEF Typed, RunTyped, IsPath
  <2>4. \A p \in Ancestors(to) \cup {to} : above(p) \in Ids
    <3> SUFFICES ASSUME NEW p \in Ancestors(to) \cup {to}  PROVE above(p) \in Ids
      OBVIOUS
    <3>1. At(Dirname(p)) # {} /\ At(Dirname(p)) \subseteq Ids
      BY <2>1, <2>3, DirnameOfAncestor DEF At
    <3> QED  BY <3>1, EarliestIsId DEF Typed
  <2>5. \A i \in linked : above(pages[i].path) \in Ids /\ Found(i)
    BY <2>4 DEF At, Found
  <2> HIDE DEF linked, above
  <2>6. \A i \in Ids : IsDocument(pages[i], Ids)  BY DEF Typed, IsCollection, Ids
  <2>7. DOMAIN pages' = Ids /\ \A i \in Ids : IsDocument(pages'[i], Ids)
    BY <2>2, <2>5, <2>6, ReparentedDocument DEF Found
  <2>8. pages'[Top] = pages[Top]
    BY <2>2 DEF linked, Typed, IsCollection, Ids
  <2>9. IsCollection(pages')  BY <2>7, <2>8, EditedCollection DEF Typed, IsCollection
  <2>10. /\ Moves(r)
         /\ work'[r] = [work[r] EXCEPT !.at = IF Rename(r) THEN "put" ELSE "save",
                                       !.parent = above(to)]
    BY <2>2 DEF Typed, Held, WorkShape, Moves
  <2>11. /\ work'[r].id = work[r].id /\ work'[r].copy = work[r].copy
         /\ work'[r].to = work[r].to /\ work'[r].kind = work[r].kind
         /\ work'[r].parent = above(to)
         /\ work'[r].at = (IF Rename(r) THEN "put" ELSE "save")
    BY <1>1, <2>10 DEF IsRun, HasFields
  <2>12. RunTyped(work'[r], Ids) /\ StageTyped(work'[r], Ids)
    BY <2>3, <2>4, <2>11 DEF RunTyped, StageTyped
  <2> QED
    BY <1>1, <1>2, <2>2, <2>7, <2>9, <2>10, <2>11, <2>12, QuietStep, ZenonT(60)
    DEF InMain, RenameMain, Rename, Typed, Ids
<1> QED  BY <1>3, <1>4

LEMMA PrefixIsAncestor ==
    ASSUME NEW p \in Seq(Names), NEW to \in Seq(Names), IsStrictPrefix(p, to)
    PROVE  p \in Ancestors(to) /\ IsPrefix(p, p)
<1>1. Len(p) <= Len(to) /\ p = SubSeq(to, 1, Len(p)) /\ p # to
  BY DEF IsStrictPrefix, IsPrefix
<1>2. Len(to) \in Nat /\ Len(p) \in Nat /\ to = SubSeq(to, 1, Len(to))  BY SMTT(60)
<1>3. Len(p) # Len(to)  BY <1>1, <1>2
<1>a. Len(p) \in Nat /\ Len(to) \in Nat /\ Len(p) <= Len(to)  BY <1>1, <1>2
<1>4. Len(p) \in 0 .. Len(to) - 1  BY <1>a, <1>3, SMTT(60)
<1>5. p \in Ancestors(to)  BY <1>1, <1>4 DEF Ancestors
<1>6. p = SubSeq(p, 1, Len(p)) /\ Len(p) <= Len(p)  OBVIOUS
<1> QED  BY <1>5, <1>6 DEF IsPrefix

LEMMA PlantTyped ==
    ASSUME Typed, NEW r \in Runs, Plant(r)
    PROVE  Typed'
<1>1. IsRun(work[r]) /\ work[r].at = "plant" /\ work[r].kind = "rename"
  BY RunsAreRuns DEF Typed, Held, Plant, On, IsRun, Early, Holding, Late
<1>2. Held'  BY PlantKeeps DEF Typed
<1> DEFINE S == Plants(r)  ids == NewId(0) .. NewId(Cardinality(S) - 1)
<1>3. pages' = Inserted(S) /\ UNCHANGED <<ops, asked, history>>
  BY DEF Plant, Unchanged
<1>4. Moves(r) /\ work'[r] = [work[r] EXCEPT !.at = "graft", !.ids = ids]
  BY DEF Plant, Typed, Held, WorkShape, Moves
<1>5. SameRun(work[r], work'[r]) /\ work'[r].at = "graft" /\ work'[r].ids = ids
  BY <1>1, <1>4 DEF IsRun, HasFields, SameRun
<1>6. RunTyped(work[r], Ids) /\ StageTyped(work[r], Ids)  BY <1>1 DEF Typed
<1>7. /\ work[r].to \in Seq(Names) /\ work[r].copy.path \in Seq(Names)
      /\ IsStrictPrefix(work[r].copy.path, work[r].to)
  BY <1>1, <1>6 DEF RunTyped, StageTyped, IsPath, IsDocument, UnderTarget
<1>8. work[r].copy.path \in S /\ S \in SUBSET Ancestors(work[r].to)
  BY <1>7, PrefixIsAncestor DEF Plants
<1>9. IsFiniteSet(S) /\ Cardinality(S) \in Nat \ {0}
  BY <1>7, <1>8, AncestorsAreFinite, FS_EmptySet
<1>10. Size \in Nat \ {0} /\ Ids = 0 .. Size - 1  BY IdsAreCounted DEF Typed
<1>11. Ids' = 0 .. Size + Cardinality(S) - 1
  BY <1>3, <1>7, <1>8, InsertedDocuments DEF Typed, Ids
<1>12. ids = Size .. Size + Cardinality(S) - 1
  BY <1>9, <1>10 DEF NewId, Size
<1>13. \E a, b \in Ids' \ {Top} : a <= b /\ ids = a .. b
  BY <1>9, <1>10, <1>11, <1>12 DEF Top
<1>14. IsCollection(pages') /\ Ids \subseteq Ids'
  BY <1>3, <1>7, <1>8, InsertedIsCollection DEF Typed, Ids
<1> HIDE DEF S, ids
<1>15. RunTyped(work'[r], Ids) /\ StageTyped(work'[r], Ids')
  BY <1>1, <1>5, <1>6, <1>13 DEF RunTyped, StageTyped, SameRun
<1>16. RunTyped(work'[r], Ids')
  BY <1>14, <1>15, WiderDocument DEF RunTyped
<1>17. (history.fresh \subseteq Ids)'  BY <1>3, <1>14, SMTT(60) DEF Typed
<1> QED
  BY <1>1, <1>2, <1>3, <1>4, <1>14, <1>15, <1>16, <1>17, QuietStep
  DEF InMain, RenameMain

LEMMA GraftTyped ==
    ASSUME Typed, NEW r \in Runs, Graft(r)
    PROVE  Typed'
<1>1. IsRun(work[r]) /\ work[r].at = "graft" /\ work[r].kind = "rename"
  BY RunsAreRuns DEF Typed, Held, Graft, On, IsRun, Early, Holding, Late
<1>2. Held'  BY GraftKeeps DEF Typed
<1>3. RunTyped(work[r], Ids) /\ StageTyped(work[r], Ids)  BY <1>1 DEF Typed
<1>4. PICK a \in Ids \ {Top}, b \in Ids \ {Top} : a <= b /\ work[r].ids = a .. b
  BY <1>1, <1>3 DEF StageTyped
<1>5. Size \in Nat \ {0} /\ Ids = 0 .. Size - 1  BY IdsAreCounted DEF Typed
<1>6. Earliest(work[r].ids) = a /\ Cardinality(work[r].ids) = b - a + 1
  <2>1. work[r].ids \in SUBSET Nat /\ a \in work[r].ids  BY <1>4, <1>5
  <2>2. Earliest(work[r].ids) \in work[r].ids /\ Earliest(work[r].ids) <= a
    BY <2>1, EarliestIsOne
  <2>3. Cardinality(work[r].ids) = b - a + 1
    BY <1>4, <1>5, FS_Interval
  <2> QED  BY <1>4, <1>5, <2>2, <2>3
<1>7. Earliest(work[r].ids) + Cardinality(work[r].ids) - 1 = b  BY <1>4, <1>5, <1>6
<1>8. /\ pages' = [i \in Ids |-> IF i \notin work[r].ids \/ ~Found(i) THEN pages[i]
                    ELSE [pages[i] EXCEPT !.parent = IF i = a THEN work[r].copy.parent ELSE i - 1]]
      /\ work' = [work EXCEPT ![r].at = "put", ![r].parent = b, ![r].ids = {}]
      /\ UNCHANGED <<ops, asked>> /\ history'.fresh = history.fresh
  BY <1>6, <1>7 DEF Graft, Stale, Unchanged, Typed, Held, HasHistory
<1>9. Moves(r) /\ work'[r] = [work[r] EXCEPT !.at = "put", !.parent = b, !.ids = {}]
  BY <1>8 DEF Typed, Held, WorkShape, Moves
<1>10. /\ work'[r].id = work[r].id /\ work'[r].copy = work[r].copy
       /\ work'[r].to = work[r].to /\ work'[r].kind = work[r].kind
       /\ work'[r].parent = b /\ work'[r].at = "put"
  BY <1>1, <1>9 DEF IsRun, HasFields
<1>11. RunTyped(work'[r], Ids) /\ StageTyped(work'[r], Ids)
  BY <1>1, <1>3, <1>4, <1>10 DEF RunTyped, StageTyped
<1>12. \A i \in Ids : IsDocument(pages[i], Ids)  BY DEF Typed, IsCollection, Ids
<1>13. work[r].copy.parent \in Ids \cup {NoId}  BY <1>3 DEF RunTyped, IsDocument
<1>14. \A i \in work[r].ids : i # a => i - 1 \in Ids  BY <1>4, <1>5
<1>15. DOMAIN pages' = Ids /\ \A i \in Ids : IsDocument(pages'[i], Ids)
  BY <1>8, <1>12, <1>13, <1>14, ReparentedDocument DEF Found
<1>16. pages'[Top] = pages[Top]
  BY <1>4, <1>5, <1>8 DEF Top
<1>17. IsCollection(pages')  BY <1>15, <1>16, EditedCollection DEF Typed, IsCollection
<1> QED
  BY <1>1, <1>2, <1>8, <1>9, <1>10, <1>11, <1>15, <1>17, QuietStep
  DEF InMain, RenameMain, Typed, Ids

(* A document that is put at another path, or as well below another.         *)
LEMMA PutDocument ==
    ASSUME NEW ids, NEW doc, IsDocument(doc, ids), doc.kind # "none", NEW p \in Seq(Names)
    PROVE  IsDocument([doc EXCEPT !.path = p], ids) /\ [doc EXCEPT !.path = p].kind = doc.kind
  BY DEF IsDocument

LEMMA MovedDocument ==
    ASSUME NEW ids, NEW doc, IsDocument(doc, ids), doc.kind # "none", NEW p \in Seq(Names),
           NEW i \in ids \cup {NoId}, NEW new, new = [doc EXCEPT !.path = p, !.parent = i]
    PROVE  IsDocument(new, ids)
<1>1. doc = [kind |-> doc.kind, path |-> doc.path, parent |-> doc.parent, count |-> doc.count]
  BY DEF IsDocument
<1>2. new = [kind |-> new.kind, path |-> new.path, parent |-> new.parent, count |-> new.count]
  BY <1>1
<1>3. new.kind = doc.kind /\ new.path = p /\ new.parent = i
  BY <1>1
<1> QED  BY <1>2, <1>3 DEF IsDocument

LEMMA PutTyped ==
    ASSUME Typed, NEW r \in Runs, Put(r)
    PROVE  Typed'
<1>1. IsRun(work[r]) /\ work[r].at = "put" /\ work[r].kind = "rename"
  BY RunsAreRuns DEF Typed, Held, Put, On, IsRun, Early, Holding, Late
<1>2. Held'  BY PutKeeps DEF Typed
<1>3. /\ pages' = IF ~Found(work[r].id) THEN pages
                  ELSE [pages EXCEPT ![work[r].id] = [@ EXCEPT !.path = work[r].to,
                                                               !.parent = work[r].parent]]
      /\ UNCHANGED <<ops, asked>> /\ history'.fresh \subseteq history.fresh
      /\ Go(r, "bump")
  BY DEF Put, Unchanged, Typed, Held, HasHistory
<1>4. Moves(r) /\ work'[r] = [work[r] EXCEPT !.at = "bump"]
  BY <1>3 DEF Go, Typed, Held, WorkShape, Moves
<1>5. SameRun(work[r], work'[r]) /\ work'[r].at = "bump"
  BY <1>1, <1>4 DEF IsRun, HasFields, SameRun
<1>6. /\ work[r].id \in Ids \ {Top} /\ work[r].to \in Seq(Names)
      /\ work[r].parent \in Ids \cup {NoId}
  BY <1>1 DEF Typed, RunTyped, IsPath
<1>7. \A i \in Ids : IsDocument(pages[i], Ids)  BY DEF Typed, IsCollection, Ids
<1> DEFINE moved == [pages[work[r].id] EXCEPT !.path = work[r].to, !.parent = work[r].parent]
<1>8. pages' = pages \/ (Found(work[r].id) /\ pages' = [pages EXCEPT ![work[r].id] = moved])
  BY <1>3
<1>9. Found(work[r].id) => IsDocument(moved, Ids)
  BY <1>6, <1>7, MovedDocument DEF Found
<1> HIDE DEF moved
<1>11. DOMAIN pages' = Ids /\ pages'[Top] = pages[Top]
       /\ \A i \in Ids : IsDocument(pages'[i], Ids)
  <2>1. CASE pages' = pages  BY <1>7, <2>1 DEF Ids
  <2>2. CASE Found(work[r].id) /\ pages' = [pages EXCEPT ![work[r].id] = moved]
    <3>1. DOMAIN pages' = Ids  BY <2>2 DEF Ids
    <3>2. \A i \in Ids : pages'[i] = IF i = work[r].id THEN moved ELSE pages[i]
      BY <2>2 DEF Ids
    <3> QED  BY <1>6, <1>7, <1>9, <2>2, <3>1, <3>2 DEF Typed, IsCollection, Ids
  <2> QED  BY <1>8, <2>1, <2>2
<1>10. IsCollection(pages')  BY <1>11, EditedCollection DEF Typed, IsCollection
<1> QED
  BY <1>1, <1>2, <1>3, <1>4, <1>5, <1>10, <1>11, PlainStep
  DEF Special, InMain, RenameMain, SameRun, Typed, Ids

(* Only the place of the run changes.                                        *)
LEMMA GoTyped ==
    ASSUME Typed, Held', NEW r \in Runs, IsRun(work[r]), NEW at, Go(r, at),
           at \notin Special, UNCHANGED <<ops, asked>>,
           IsCollection(pages'), Ids \subseteq Ids', (history.fresh \subseteq Ids)',
           work[r].kind = "rename" /\ at \in RenameMain => work[r].at \in RenameMain,
           work[r].kind = "create" /\ at \in {"grow", "grown", "done"} =>
              work[r].at \in {"recordCreate", "grow", "grown", "done"}
    PROVE  Typed'
<1>1. Moves(r) /\ work'[r] = [work[r] EXCEPT !.at = at]
  BY DEF Go, Typed, Held, WorkShape, Moves
<1>2. SameRun(work[r], work'[r]) /\ work'[r].at = at
  BY <1>1 DEF IsRun, HasFields, SameRun
<1> QED  BY <1>1, <1>2, PlainStep DEF InMain, SameRun

LEMMA BumpTyped ==
    ASSUME Typed, NEW r \in Runs, Bump(r)
    PROVE  Typed'
<1>1. IsRun(work[r]) /\ work[r].at = "bump" /\ work[r].kind = "rename"
  BY RunsAreRuns DEF Typed, Held, Bump, On, IsRun, Early, Holding, Late
<1>2. Held'  BY BumpKeeps DEF Typed
<1>3. /\ pages' = Increased({work[r].parent}, 1) /\ UNCHANGED <<ops, asked, history>>
      /\ \E at \in {"redirect", "stage"} : Go(r, at)
  BY DEF Bump, Unchanged
<1>4. IsCollection(pages') /\ Ids' = Ids
  BY <1>3, IncreasedCollection DEF Typed, Ids
<1> QED
  BY <1>1, <1>2, <1>3, <1>4, GoTyped DEF Special, RenameMain, Typed

LEMMA CreateRedirectTyped ==
    ASSUME Typed, NEW r \in Runs, CreateRedirect(r)
    PROVE  Typed'
<1>1. IsRun(work[r]) /\ work[r].at = "redirect" /\ work[r].kind = "rename"
  BY RunsAreRuns DEF Typed, Held, CreateRedirect, On, IsRun, Early, Holding, Late
<1>2. Held'  BY CreateRedirectKeeps DEF Typed
<1>3. CASE Throw(r)  BY <1>1, <1>2, <1>3, ThrowTyped DEF CreateRedirect, Unchanged
<1>4. CASE ~Throw(r)
  <2>1. UNCHANGED <<pages, ops, asked, history>> /\ Go(r, "stage")
    BY <1>4 DEF CreateRedirect, Unchanged
  <2> QED  BY <1>1, <1>2, <2>1, GoTyped DEF Special, RenameMain, Typed, Ids
<1> QED  BY <1>3, <1>4

LEMMA SetStageTyped ==
    ASSUME Typed, NEW r \in Runs, SetStage(r)
    PROVE  Typed'
<1>1. IsRun(work[r]) /\ work[r].at = "stage" /\ work[r].kind = "rename"
  BY RunsAreRuns DEF Typed, Held, SetStage, On, IsRun, Early, Holding, Late
<1>2. Held'  BY SetStageKeeps DEF Typed
<1>3. CASE Throw(r)  BY <1>1, <1>2, <1>3, ThrowTyped DEF SetStage, Unchanged
<1>4. CASE ~Throw(r)
  <2>1. /\ UNCHANGED <<pages, asked, history>> /\ Go(r, "stream")
        /\ ops[r] # NoOp /\ ops' = [ops EXCEPT ![r].stage = "Sub"]
    BY <1>4 DEF SetStage, Unchanged
  <2>2. Moves(r) /\ work'[r] = [work[r] EXCEPT !.at = "stream"]
    BY <2>1 DEF Go, Typed, Held, WorkShape, Moves
  <2>3. SameRun(work[r], work'[r]) /\ work'[r].at = "stream"
    BY <1>1, <2>2 DEF IsRun, HasFields, SameRun
  <2>4. IsCollection(pages') /\ Ids' = Ids /\ (history.fresh \subseteq Ids)'
    BY <2>1 DEF Typed, Ids
  <2>5. RunTyped(work[r], Ids)  BY <1>1 DEF Typed
  <2>6. RunTyped(work'[r], Ids') /\ StageTyped(work'[r], Ids')
    BY <1>1, <2>3, <2>4, <2>5 DEF RunTyped, StageTyped, SameRun
  <2>7. r \in Recorded /\ OpTyped(ops[r], Ids) /\ ops[r].kind = "rename"
    BY <1>1, <2>1 DEF Typed, Recorded, InMain, RenameMain
  <2>8. ops'[r] = [ops[r] EXCEPT !.stage = "Sub"] /\ \A o \in Runs \ {r} : ops'[o] = ops[o]
    BY <2>1 DEF Typed, Held
  <2>9. /\ ops'[r] = [stage |-> ops'[r].stage, kind |-> ops'[r].kind, id |-> ops'[r].id,
                      copy |-> ops'[r].copy, from |-> ops'[r].from, to |-> ops'[r].to,
                      redirect |-> ops'[r].redirect, ahead |-> ops'[r].ahead,
                      order |-> ops'[r].order]
        /\ ops'[r].stage = "Sub" /\ ops'[r].kind = "rename" /\ ops'[r].id = ops[r].id
        /\ ops'[r].copy = ops[r].copy /\ ops'[r].to = ops[r].to
    BY <2>7, <2>8 DEF OpTyped
  <2>10. OpTyped(ops'[r], Ids)  BY <2>7, <2>9 DEF OpTyped
  <2>11. \A o \in Recorded' : OpTyped(ops'[o], Ids')
    BY <2>4, <2>8, <2>10 DEF Typed, Recorded
  <2>12. \A o \in Recorded' \ {r} : o \in Recorded /\ ops'[o].kind = ops[o].kind
    BY <2>8 DEF Recorded
  <2> QED
    BY <1>2, <2>1, <2>2, <2>4, <2>6, <2>9, <2>11, <2>12, TypedStep
<1> QED  BY <1>3, <1>4

LEMMA StreamTyped ==
    ASSUME Typed, NEW r \in Runs, Stream(r)
    PROVE  Typed'
<1>1. IsRun(work[r]) /\ work[r].at = "stream" /\ work[r].kind \in {"rename", "delete", "erase"}
  BY RunsAreRuns DEF Typed, Held, Stream, On, IsRun, Early, Holding, Late
<1>2. Held'  BY StreamKeeps DEF Typed
<1> DEFINE todo == {<<i, pages[i].path, pages[i].kind>> : i \in Descendants(work[r].id)}
<1>3. /\ UNCHANGED <<pages, ops, asked, history>>
      /\ work' = [work EXCEPT ![r].at = "batch", ![r].todo = todo]
  BY DEF Stream, Unchanged
<1>4. Moves(r) /\ work'[r] = [work[r] EXCEPT !.at = "batch", !.todo = todo]
  BY <1>3 DEF Typed, Held, WorkShape, Moves
<1>5. \A x \in todo : x[1] \in Ids \ {Top} /\ x[2] \in Seq(Names)
  <2>1. work[r].id \in Ids \ {Top}  BY <1>1 DEF Typed, RunTyped
  <2>2. Top \notin Descendants(work[r].id)  
    BY <2>1, NothingAboveTheTop DEF Typed, Descendants
  <2>3. \A i \in Descendants(work[r].id) : i \in Ids \ {Top} /\ pages[i].path \in Seq(Names)
    BY <2>2 DEF Descendants, Typed, IsCollection, IsDocument, Ids
  <2> QED  BY <2>3
<1> HIDE DEF todo
<1>6. SameRun(work[r], work'[r]) /\ work'[r].at = "batch" /\ work'[r].todo = todo
  BY <1>1, <1>4 DEF IsRun, HasFields, SameRun
<1>7. RunTyped(work[r], Ids)  BY <1>1 DEF Typed
<1>8. RunTyped(work'[r], Ids') /\ StageTyped(work'[r], Ids')
  BY <1>1, <1>3, <1>5, <1>6, <1>7 DEF RunTyped, StageTyped, SameRun, Ids
<1> QED
  BY <1>1, <1>2, <1>3, <1>4, <1>6, <1>8, QuietStep DEF InMain, RenameMain, Typed, Ids

(* The documents of a batch that are left. *)
LEMMA LeftInTheBatch ==
    ASSUME Typed, Held', NEW r \in Runs, IsRun(work[r]), work[r].at = "batch", NEW x,
           work' = [work EXCEPT ![r].todo = @ \ {x}],
           UNCHANGED <<ops, asked>>, IsCollection(pages'), Ids \subseteq Ids',
           (history.fresh \subseteq Ids)'
    PROVE  Typed'
<1>1. Moves(r) /\ work'[r] = [work[r] EXCEPT !.todo = @ \ {x}]
  BY DEF Typed, Held, WorkShape, Moves
<1>2. /\ SameRun(work[r], work'[r]) /\ work'[r].at = "batch"
      /\ work'[r].todo = work[r].todo \ {x}
  BY <1>1 DEF IsRun, HasFields, SameRun
<1>3. RunTyped(work[r], Ids) /\ StageTyped(work[r], Ids)  BY DEF Typed
<1>4. RunTyped(work'[r], Ids) /\ StageTyped(work'[r], Ids)
  BY <1>2, <1>3 DEF RunTyped, StageTyped, SameRun
<1> QED
  BY <1>1, <1>2, <1>4, QuietStep, WiderRun DEF InMain, RenameMain

LEMMA MovedIsPath ==
    ASSUME NEW path \in Seq(Names), NEW from \in Seq(Names), NEW to \in Seq(Names)
    PROVE  Moved(path, from, to) \in Seq(Names)
<1>1. CASE IsPrefix(from, path)
  <2>1. Len(from) \in Nat /\ Len(path) \in Nat /\ Len(from) + 1 \in Nat \ {0}  OBVIOUS
  <2>2. SubSeq(path, Len(from) + 1, Len(path)) \in Seq(Names)  BY <2>1
  <2> QED  BY <1>1, <2>2 DEF Moved
<1>2. CASE ~IsPrefix(from, path)  BY <1>2 DEF Moved
<1> QED  BY <1>1, <1>2

LEMMA DeadDocuments ==
    ASSUME NEW ids, NEW doc,
           \/ doc = NoPage
           \/ doc = [NoPage EXCEPT !.kind = "trash", !.path = TrashPath]
    PROVE  IsDocument(doc, ids)
<1>1. <<"nowhere">> \in Seq(Names) /\ <<"trash">> \in Seq(Names)  BY DEF Names
<1>2. CASE doc = NoPage  BY <1>1, <1>2 DEF IsDocument, NoPage, NoPath
<1>3. CASE doc = [NoPage EXCEPT !.kind = "trash", !.path = TrashPath]
  <2>1. doc = [kind |-> "trash", path |-> TrashPath, parent |-> NoId, count |-> 0]
    BY <1>3 DEF NoPage
  <2> QED  BY <1>1, <2>1 DEF IsDocument, TrashPath
<1> QED  BY <1>2, <1>3

(* One document is replaced. *)
LEMMA ReplacedDocument ==
    ASSUME IsCollection(pages), NEW i \in Ids \ {Top}, NEW doc, IsDocument(doc, Ids)
    PROVE  /\ IsCollection([pages EXCEPT ![i] = doc])
           /\ DOMAIN [pages EXCEPT ![i] = doc] = Ids
<1> DEFINE docs == [pages EXCEPT ![i] = doc]
<1>1. DOMAIN docs = Ids  BY DEF Ids
<1>2. \A j \in Ids : docs[j] = IF j = i THEN doc ELSE pages[j]  BY DEF Ids
<1> HIDE DEF docs
<1>3. \A j \in Ids : IsDocument(docs[j], Ids)  BY <1>2 DEF IsCollection, Ids
<1>4. docs[Top] = pages[Top]  BY <1>2, IdsAreCounted
<1>5. IsCollection(docs)  BY <1>1, <1>3, <1>4, EditedCollection DEF IsCollection
<1> QED  BY <1>1, <1>5 DEF docs

LEMMA BatchTyped ==
    ASSUME Typed, NEW r \in Runs, NEW x, Batch(r, x)
    PROVE  Typed'
<1>1. IsRun(work[r]) /\ work[r].at = "batch" /\ work[r].kind \in {"rename", "delete", "erase"}
  BY RunsAreRuns DEF Typed, Held, Batch, On, IsRun, Early, Holding, Late
<1>2. Held'  BY BatchKeeps DEF Typed
<1> DEFINE i == x[1]
           to == IF Rename(r) THEN Moved(x[2], work[r].copy.path, work[r].to) ELSE TrashPath
           doc == CASE Rename(r) -> [pages[i] EXCEPT !.path = to]
                    [] Delete(r) /\ x[3] = "page" ->
                          [NoPage EXCEPT !.kind = "trash", !.path = TrashPath]
                    [] OTHER -> NoPage
<1>3. /\ pages' = pages \/ (Found(i) /\ pages' = [pages EXCEPT ![i] = doc])
      /\ history'.fresh \subseteq history.fresh
      /\ work' = [work EXCEPT ![r].todo = @ \ {x}]
      /\ UNCHANGED <<ops, asked>>
  BY DEF Batch, Unchanged, Typed, Held, HasHistory
<1>4. i \in Ids \ {Top} /\ x[2] \in Seq(Names)
  BY <1>1 DEF Typed, StageTyped, Batch
<1>5. Found(i) => IsDocument(doc, Ids)
  <2> SUFFICES ASSUME Found(i)  PROVE IsDocument(doc, Ids)
    OBVIOUS
  <2>1. IsDocument(pages[i], Ids) /\ pages[i].kind # "none"
    BY <1>4 DEF Typed, IsCollection, Ids, Found
  <2>2. CASE Rename(r)
    <3>1. work[r].to \in Seq(Names) /\ work[r].copy.path \in Seq(Names)
      BY <1>1, <2>2 DEF Typed, RunTyped, IsPath, IsDocument, Rename
    <3>2. Moved(x[2], work[r].copy.path, work[r].to) \in Seq(Names)
      BY <1>4, <3>1, MovedIsPath
    <3>3. IsDocument([pages[i] EXCEPT !.path = Moved(x[2], work[r].copy.path, work[r].to)], Ids)
      BY <2>1, <3>2, PutDocument
    <3>4. doc = [pages[i] EXCEPT !.path = Moved(x[2], work[r].copy.path, work[r].to)]
      BY <2>2 DEF Rename, Delete
    <3> QED  BY <3>3, <3>4
  <2>3. CASE ~Rename(r)
    <3>1. \/ doc = NoPage
          \/ doc = [NoPage EXCEPT !.kind = "trash", !.path = TrashPath]
      BY <2>3
    <3> QED  BY <3>1, DeadDocuments
  <2> QED  BY <2>2, <2>3
<1> HIDE DEF i, doc
<1>6. IsCollection(pages') /\ Ids' = Ids
  BY <1>3, <1>4, <1>5, ReplacedDocument DEF Typed, Ids
<1>7. (history.fresh \subseteq Ids)'  BY <1>3, <1>6 DEF Typed
<1> QED  BY <1>1, <1>2, <1>3, <1>6, <1>7, LeftInTheBatch

LEMMA BatchFailsTyped ==
    ASSUME Typed, NEW r \in Runs, NEW x, BatchFails(r, x)
    PROVE  Typed'
<1>1. IsRun(work[r]) /\ work[r].at = "batch"
  BY RunsAreRuns DEF Typed, Held, BatchFails, On
<1>2. Held'  BY BatchFailsKeeps DEF Typed
<1>3. /\ UNCHANGED <<pages, ops, asked>> /\ history'.fresh = history.fresh
      /\ work' = [work EXCEPT ![r].todo = @ \ {x}]
  BY DEF BatchFails, Spend, Damage, Typed, Held, HasHistory
<1> QED  BY <1>1, <1>2, <1>3, LeftInTheBatch DEF Typed, Ids

LEMMA ExtendExpiryDateTyped ==
    ASSUME Typed, NEW r \in Runs, ExtendExpiryDate(r)
    PROVE  Typed'
<1>1. IsRun(work[r]) /\ work[r].at = "batch" /\ work[r].kind = "rename"
  BY RunsAreRuns DEF Typed, Held, ExtendExpiryDate, On, Rename
<1>2. Held'  BY ExtendExpiryDateKeeps DEF Typed
<1>3. /\ UNCHANGED <<pages, asked, history>>
      /\ work' = [work EXCEPT ![r].ticked = TRUE]
      /\ ops' = IF ops[work[r].op] = NoOp THEN ops ELSE [ops EXCEPT ![work[r].op].ahead = TRUE]
  BY DEF ExtendExpiryDate, Unchanged
<1>4. Moves(r) /\ work'[r] = [work[r] EXCEPT !.ticked = TRUE]
  BY <1>3 DEF Typed, Held, WorkShape, Moves
<1>5. SameRun(work[r], work'[r]) /\ work'[r].at = "batch" /\ work'[r].todo = work[r].todo
  BY <1>1, <1>4 DEF IsRun, HasFields, SameRun
<1>6. RunTyped(work[r], Ids) /\ StageTyped(work[r], Ids)  BY <1>1 DEF Typed
<1>7. RunTyped(work'[r], Ids') /\ StageTyped(work'[r], Ids')
  BY <1>1, <1>3, <1>5, <1>6 DEF RunTyped, StageTyped, SameRun, Ids
<1>8. \A o \in Recorded' : o \in Recorded /\ OpTyped(ops'[o], Ids') /\ ops'[o].kind = ops[o].kind
  <2>1. CASE ops' = ops  BY <1>3, <2>1 DEF Typed, Recorded, Ids
  <2>2. CASE ops[work[r].op] # NoOp /\ ops' = [ops EXCEPT ![work[r].op].ahead = TRUE]
    <3> DEFINE o == work[r].op
    <3>1. o \in Recorded /\ OpTyped(ops[o], Ids)
      BY <1>1, <2>2 DEF Typed, Recorded, IsRun
    <3>2. ops'[o] = [ops[o] EXCEPT !.ahead = TRUE] /\ \A p \in Runs \ {o} : ops'[p] = ops[p]
      BY <2>2, <3>1 DEF Typed, Held, Recorded
    <3>3. /\ ops'[o] = [stage |-> ops'[o].stage, kind |-> ops'[o].kind, id |-> ops'[o].id,
                        copy |-> ops'[o].copy, from |-> ops'[o].from, to |-> ops'[o].to,
                        redirect |-> ops'[o].redirect, ahead |-> ops'[o].ahead,
                        order |-> ops'[o].order]
          /\ ops'[o].stage = ops[o].stage /\ ops'[o].kind = ops[o].kind
          /\ ops'[o].id = ops[o].id /\ ops'[o].copy = ops[o].copy /\ ops'[o].to = ops[o].to
      BY <3>1, <3>2 DEF OpTyped
    <3>4. OpTyped(ops'[o], Ids)  BY <3>1, <3>3 DEF OpTyped
    <3> QED  BY <1>3, <3>1, <3>2, <3>3, <3>4 DEF Typed, Recorded, Ids
  <2> QED  BY <1>3, <2>1, <2>2
<1>9. IsCollection(pages') /\ Ids' = Ids /\ (history.fresh \subseteq Ids)'
  BY <1>3 DEF Typed, Ids
<1> QED
  BY <1>1, <1>2, <1>3, <1>4, <1>5, <1>7, <1>8, <1>9, TypedStep DEF InMain, RenameMain

LEMMA BatchesEndTyped ==
    ASSUME Typed, NEW r \in Runs, BatchesEnd(r)
    PROVE  Typed'
<1>1. IsRun(work[r]) /\ work[r].at = "batch" /\ work[r].kind # "create"
  BY RunsAreRuns DEF Typed, Held, BatchesEnd, On, IsRun, Early, Holding, Late
<1>2. Held'  BY BatchesEndKeeps DEF Typed
<1>3. UNCHANGED <<pages, ops, asked, history>> /\ \E at \in {"unbump", "done"} : Go(r, at)
  BY DEF BatchesEnd, Unchanged
<1> QED  BY <1>1, <1>2, <1>3, GoTyped DEF Special, RenameMain, Typed, Ids

LEMMA UnbumpTyped ==
    ASSUME Typed, NEW r \in Runs, Unbump(r)
    PROVE  Typed'
<1>1. IsRun(work[r]) /\ work[r].at = "unbump"
  BY RunsAreRuns DEF Typed, Held, Unbump, On
<1>2. Held'  BY UnbumpKeeps DEF Typed
<1>3. /\ pages' = Increased({work[r].parent}, -1) /\ UNCHANGED <<ops, asked>>
      /\ Go(r, "shrink") /\ history'.fresh = history.fresh
  BY DEF Unbump, Unchanged, Stale, Typed, Held, HasHistory
<1>4. IsCollection(pages') /\ Ids' = Ids
  BY <1>3, IncreasedCollection DEF Typed, Ids
<1> QED
  BY <1>1, <1>2, <1>3, <1>4, GoTyped DEF Special, RenameMain, Typed

LEMMA ClimbTyped ==
    ASSUME Typed, NEW r \in Runs, NEW from, NEW to, NEW i, NEW S, Climb(r, from, to, i, S),
           Held', IsRun(work[r]), to \notin Special, to \notin RenameMain,
           work[r].kind = "create" /\ to \in {"grow", "grown", "done"} =>
              from \in {"recordCreate", "grow", "grown", "done"}
    PROVE  Typed'
<1>1. CASE Throw(r)  BY <1>1, ThrowTyped DEF Climb, Unchanged
<1>2. CASE ~Throw(r)
  <2>1. /\ UNCHANGED <<pages, ops, asked, history>> /\ work[r].at = from
        /\ work' = [work EXCEPT ![r].at = to, ![r].ids = S]
    BY <1>2 DEF Climb, Unchanged, On
  <2>2. Moves(r) /\ work'[r] = [work[r] EXCEPT !.at = to, !.ids = S]
    BY <2>1 DEF Typed, Held, WorkShape, Moves
  <2>3. SameRun(work[r], work'[r]) /\ work'[r].at = to
    BY <2>2 DEF IsRun, HasFields, SameRun
  <2> QED  BY <2>1, <2>2, <2>3, PlainStep DEF InMain, Typed, Ids, SameRun
<1> QED  BY <1>1, <1>2

LEMMA CountTyped ==
    ASSUME Typed, NEW r \in Runs, NEW from, NEW to, NEW S, NEW n, Count(r, from, to, S, n),
           Held', IsRun(work[r]), to \notin Special, to \notin RenameMain,
           work[r].kind = "create" /\ to \in {"grow", "grown", "done"} =>
              from \in {"recordCreate", "grow", "grown", "done"}
    PROVE  Typed'
<1>1. /\ pages' = Increased(work[r].ids, n) /\ UNCHANGED <<ops, asked>>
      /\ work' = [work EXCEPT ![r].at = to, ![r].ids = {}] /\ work[r].at = from
      /\ history'.fresh = history.fresh
  BY DEF Count, Unchanged, On, Stale, Typed, Held, HasHistory
<1>2. Moves(r) /\ work'[r] = [work[r] EXCEPT !.at = to, !.ids = {}]
  BY <1>1 DEF Typed, Held, WorkShape, Moves
<1>3. SameRun(work[r], work'[r]) /\ work'[r].at = to
  BY <1>2 DEF IsRun, HasFields, SameRun
<1>4. IsCollection(pages') /\ Ids' = Ids
  BY <1>1, IncreasedCollection DEF Typed, Ids
<1> QED  BY <1>1, <1>2, <1>3, <1>4, PlainStep DEF InMain, Typed, SameRun

LEMMA ShrinkTyped ==
    ASSUME Typed, NEW r \in Runs, Shrink(r)
    PROVE  Typed'
<1>1. IsRun(work[r]) /\ work[r].at = "shrink"
  BY RunsAreRuns DEF Typed, Held, Shrink, Climb, On
<1>2. Held'  BY ShrinkKeeps DEF Typed
<1> QED  BY <1>1, <1>2, ClimbTyped DEF Shrink, Special, RenameMain

LEMMA GrowTyped ==
    ASSUME Typed, NEW r \in Runs, Grow(r)
    PROVE  Typed'
<1>1. IsRun(work[r]) /\ work[r].at = "grow"
  BY RunsAreRuns DEF Typed, Held, Grow, Climb, On
<1>2. Held'  BY GrowKeeps DEF Typed
<1> QED  BY <1>1, <1>2, ClimbTyped DEF Grow, Special, RenameMain

LEMMA ShrunkTyped ==
    ASSUME Typed, NEW r \in Runs, Shrunk(r)
    PROVE  Typed'
<1>1. IsRun(work[r]) /\ work[r].at = "shrunk" /\ work[r].kind \in {"rename", "delete", "erase"}
  BY RunsAreRuns DEF Typed, Held, Shrunk, Count, On, IsRun, Early, Holding, Late
<1>2. Held'  BY ShrunkKeeps DEF Typed
<1>3. \E to \in {"grow", "prune", "erase"} : Count(r, "shrunk", to, Losers(r), -Gains(r))
  BY <1>1 DEF Shrunk, Rename, Delete, Erase
<1> QED  BY <1>1, <1>2, <1>3, CountTyped DEF Special, RenameMain

LEMMA GrownTyped ==
    ASSUME Typed, NEW r \in Runs, Grown(r)
    PROVE  Typed'
<1>1. IsRun(work[r]) /\ work[r].at = "grown"
  BY RunsAreRuns DEF Typed, Held, Grown, Count, On
<1>2. Held'  BY GrownKeeps DEF Typed
<1>3. \E to \in {"prune", "done"} : Count(r, "grown", to, Gainers(r), Gains(r))
  BY DEF Grown
<1> QED  BY <1>1, <1>2, <1>3, CountTyped DEF Special, RenameMain

(* What is pruned is empty, and below the first page of all.                 *)
LEMMA PruneTyped ==
    ASSUME Typed, NEW r \in Runs, Prune(r)
    PROVE  Typed'
<1>1. IsRun(work[r]) /\ work[r].at = "prune"
  BY RunsAreRuns DEF Typed, Held, Prune, On
<1>2. Held'  BY PruneKeeps DEF Typed
<1> DEFINE S == LeafEmpties(work[r].copy.parent)
<1>3. Top \notin S  BY DEF LeafEmpties, Typed, IsCollection
<1>4. /\ UNCHANGED <<pages, ops, asked, history>>
      /\ work' = [work EXCEPT ![r].at = "pruned", ![r].ids = S]
  BY DEF Prune, Unchanged
<1> HIDE DEF S
<1>5. Moves(r) /\ work'[r] = [work[r] EXCEPT !.at = "pruned", !.ids = S]
  BY <1>4 DEF Typed, Held, WorkShape, Moves
<1>6. SameRun(work[r], work'[r]) /\ work'[r].at = "pruned" /\ work'[r].ids = S
  BY <1>1, <1>5 DEF IsRun, HasFields, SameRun
<1>7. RunTyped(work[r], Ids)  BY <1>1 DEF Typed
<1>8. RunTyped(work'[r], Ids') /\ StageTyped(work'[r], Ids')
  BY <1>3, <1>4, <1>6, <1>7 DEF RunTyped, StageTyped, SameRun, Ids
<1> QED
  BY <1>1, <1>2, <1>4, <1>5, <1>6, <1>8, QuietStep DEF InMain, RenameMain, Typed, Ids

LEMMA PrunedTyped ==
    ASSUME Typed, NEW r \in Runs, Pruned(r)
    PROVE  Typed'
<1>1. IsRun(work[r]) /\ work[r].at = "pruned"
  BY RunsAreRuns DEF Typed, Held, Pruned, On
<1>2. Held'  BY PrunedKeeps DEF Typed
<1> DEFINE at == IF Removes(r) /\ work[r].recursively THEN "recordDelete"
                 ELSE IF Removes(r) THEN "answered" ELSE "done"
<1>3. /\ pages' = [i \in Ids |-> IF i \in work[r].ids THEN NoPage ELSE pages[i]]
      /\ UNCHANGED <<ops, asked>> /\ history'.fresh = history.fresh
      /\ work' = [work EXCEPT ![r].ids = {}, ![r].at = at]
  BY DEF Pruned, Unchanged, Stale, Typed, Held, HasHistory
<1>a. at \in {"recordDelete", "answered", "done"}  OBVIOUS
<1> HIDE DEF at
<1>4. Moves(r) /\ work'[r] = [work[r] EXCEPT !.ids = {}, !.at = at]
  BY <1>3 DEF Typed, Held, WorkShape, Moves
<1>5. SameRun(work[r], work'[r]) /\ work'[r].at = at
  BY <1>1, <1>4 DEF IsRun, HasFields, SameRun
<1>6. Top \notin work[r].ids  BY <1>1 DEF Typed, StageTyped
<1>7. DOMAIN pages' = Ids /\ pages'[Top] = pages[Top]
      /\ \A i \in Ids : IsDocument(pages'[i], Ids)
  BY <1>3, <1>6, DeadDocuments DEF Typed, IsCollection, Ids
<1>8. IsCollection(pages')  BY <1>7, EditedCollection DEF Typed, IsCollection
<1>9. work[r].kind = "create" => FALSE
  BY <1>1 DEF IsRun, Early, Holding, Late
<1> QED
  BY <1>1, <1>a, <1>2, <1>3, <1>4, <1>5, <1>7, <1>8, <1>9, PlainStep
  DEF Special, InMain, RenameMain, Typed, Ids

LEMMA DoneTyped ==
    ASSUME Typed, NEW r \in Runs, Done(r)
    PROVE  Typed'
<1>1. IsRun(work[r])  BY RunsAreRuns DEF Typed, Held, Done
<1>2. Held'  BY DoneKeeps DEF Typed
<1>3. /\ UNCHANGED <<pages, asked>> /\ history'.fresh = history.fresh
      /\ ops' = ops \/ ops' = [ops EXCEPT ![work[r].op] = NoOp]
  BY DEF Done, Unchanged, Typed, Held, HasHistory
<1>4. /\ \A o \in Recorded' : OpTyped(ops'[o], Ids')
      /\ \A o \in Recorded' : o \in Recorded /\ ops'[o].kind = ops[o].kind
  BY <1>3 DEF Typed, Held, Recorded, Ids
<1>5. IsCollection(pages') /\ Ids' = Ids /\ (history.fresh \subseteq Ids)'
  BY <1>3 DEF Typed, Ids
<1> DEFINE todo == UNION {At(p) : p \in Ancestors(work[r].copy.path) \cup Ancestors(work[r].to)}
<1>6. \/ End(r)
      \/ work' = [work EXCEPT ![r].at = "recount", ![r].todo = todo]
  BY DEF Done
<1> HIDE DEF todo
<1>7. Moves(r) /\ \/ work'[r] = Over
                  \/ work'[r] = [work[r] EXCEPT !.at = "recount", !.todo = todo]
  BY <1>6 DEF End, Typed, Held, WorkShape, Moves
<1>8. \/ work'[r] = Over
      \/ SameRun(work[r], work'[r]) /\ work'[r].at = "recount"
  BY <1>1, <1>7 DEF IsRun, HasFields, SameRun
<1>9. RunTyped(work[r], Ids)  BY <1>1 DEF Typed
<1>10. IsRun(work'[r]) => RunTyped(work'[r], Ids') /\ StageTyped(work'[r], Ids')
  BY <1>5, <1>8, <1>9, RunIsNeither DEF RunTyped, StageTyped, SameRun
<1> QED
  BY <1>2, <1>3, <1>4, <1>5, <1>7, <1>8, <1>10, RunIsNeither, TypedStep DEF InMain, RenameMain

LEMMA RecountTyped ==
    ASSUME Typed, NEW r \in Runs, Recount(r)
    PROVE  Typed'
<1>1. IsRun(work[r]) /\ work[r].at = "recount" /\ work[r].kind = "rename"
  BY RunsAreRuns DEF Typed, Held, Recount, On, IsRun, Early, Holding, Late
<1>2. Held'  BY RecountKeeps DEF Typed
<1>3. /\ UNCHANGED <<pages, ops, asked, history>>
      /\ \/ End(r)
         \/ \E i : work' = [work EXCEPT ![r].at = "store", ![r].todo = @ \ {i},
                                        ![r].ids = {i}, ![r].sum = Recounted(i)]
  BY ZenonT(60) DEF Recount, Unchanged
<1>4. /\ Moves(r)
      /\ \/ work'[r] = Over
         \/ \E i : work'[r] = [work[r] EXCEPT !.at = "store", !.todo = @ \ {i},
                                              !.ids = {i}, !.sum = Recounted(i)]
  BY <1>3, ZenonT(60) DEF End, Typed, Held, WorkShape, Moves
<1>5. \/ work'[r] = Over
      \/ SameRun(work[r], work'[r]) /\ work'[r].at = "store"
  BY <1>1, <1>4, ZenonT(60) DEF IsRun, HasFields, SameRun
<1> QED  BY <1>1, <1>2, <1>3, <1>4, <1>5, PlainStep DEF Special, InMain, RenameMain, Typed, Ids

LEMMA StoreTyped ==
    ASSUME Typed, NEW r \in Runs, Store(r)
    PROVE  Typed'
<1>1. IsRun(work[r]) /\ work[r].at = "store" /\ work[r].kind = "rename"
  BY RunsAreRuns DEF Typed, Held, Store, On, IsRun, Early, Holding, Late
<1>2. Held'  BY StoreKeeps DEF Typed
<1>3. /\ pages' = [i \in Ids |-> IF i \in work[r].ids /\ Found(i)
                      THEN [pages[i] EXCEPT !.count = work[r].sum] ELSE pages[i]]
      /\ UNCHANGED <<ops, asked, history>>
      /\ work' = [work EXCEPT ![r].at = "recount", ![r].ids = {}]
  BY DEF Store, Unchanged
<1>4. DOMAIN pages' = Ids
      /\ \A i \in Ids : \/ pages'[i] = pages[i]
                        \/ Found(i) /\ \E n : pages'[i] = [pages[i] EXCEPT !.count = n]
  BY <1>3
<1>5. IsCollection(pages')  BY <1>4, CountedCollection DEF Typed
<1>6. Moves(r) /\ work'[r] = [work[r] EXCEPT !.at = "recount", !.ids = {}]
  BY <1>3 DEF Typed, Held, WorkShape, Moves
<1>7. SameRun(work[r], work'[r]) /\ work'[r].at = "recount"
  BY <1>1, <1>6 DEF IsRun, HasFields, SameRun
<1> QED
  BY <1>1, <1>2, <1>3, <1>4, <1>5, <1>6, <1>7, PlainStep
  DEF Special, InMain, RenameMain, Typed, Ids

LEMMA CleanupTyped ==
    ASSUME Typed, NEW r \in Runs, Cleanup(r)
    PROVE  Typed'
<1>1. IsRun(work[r])  BY RunsAreRuns DEF Typed, Held, Cleanup, On
<1>2. Held'  BY CleanupKeeps DEF Typed
<1>3. /\ UNCHANGED <<pages, asked>> /\ history'.fresh = history.fresh /\ End(r)
      /\ ops' = [ops EXCEPT ![work[r].op] = NoOp]
  BY DEF Cleanup, Unchanged, Typed, Held, HasHistory
<1>4. /\ \A o \in Recorded' : OpTyped(ops'[o], Ids')
      /\ \A o \in Recorded' : o \in Recorded /\ ops'[o].kind = ops[o].kind
  BY <1>3 DEF Typed, Held, Recorded, Ids
<1>5. IsCollection(pages') /\ Ids' = Ids /\ (history.fresh \subseteq Ids)'
  BY <1>3 DEF Typed, Ids
<1>6. Moves(r) /\ work'[r] = Over  BY <1>3 DEF End, Typed, Held, WorkShape, Moves
<1> QED  BY <1>2, <1>3, <1>4, <1>5, <1>6, RunIsNeither, TypedStep

LEMMA ClearRedirectTyped ==
    ASSUME Typed, NEW r \in Runs, ClearRedirect(r)
    PROVE  Typed'
<1>1. IsRun(work[r])  BY RunsAreRuns DEF Typed, Held, ClearRedirect, On
<1>2. Held'  BY ClearRedirectKeeps DEF Typed
<1>3. UNCHANGED <<pages, ops, asked, history>> /\ Go(r, "prepare")
  BY DEF ClearRedirect, Unchanged
<1> QED  BY <1>1, <1>2, <1>3, GoTyped DEF Special, RenameMain, Typed, Ids

LEMMA PrepareTyped ==
    ASSUME Typed, NEW r \in Runs, Prepare(r)
    PROVE  Typed'
<1>1. IsRun(work[r]) /\ work[r].at = "prepare" /\ work[r].kind = "create"
  BY RunsAreRuns DEF Typed, Held, Prepare, On, IsRun, Early, Holding, Late
<1>2. Held'  BY PrepareKeeps DEF Typed
<1> DEFINE empties == {i \in At(work[r].to) : pages[i].kind = "empty"}
           i == Earliest(empties)
<1>3. UNCHANGED <<pages, ops, asked>> /\ history'.fresh = history.fresh
  BY DEF Prepare, Unchanged, Stale, Typed, Held, HasHistory
<1>4. IsCollection(pages') /\ Ids' = Ids /\ (history.fresh \subseteq Ids)'
  BY <1>3 DEF Typed, Ids
<1>5. RunTyped(work[r], Ids)  BY <1>1 DEF Typed
<1>6. CASE empties = {}
  <2>1. Go(r, "find")  BY <1>6 DEF Prepare, Go
  <2> QED  BY <1>1, <1>2, <1>3, <1>4, <2>1, GoTyped DEF Special, RenameMain
<1>7. CASE empties # {}
  <2>1. i \in empties
    <3>1. empties \in SUBSET Ids  BY DEF At
    <3> QED  BY <1>7, <3>1, EarliestIsId DEF Typed
  <2>2. i \in Ids \ {Top} /\ IsDocument(pages[i], Ids)
    BY <2>1 DEF At, Typed, IsCollection, Ids
  <2>3. work' = [work EXCEPT ![r] = [@ EXCEPT !.at = "find", !.id = i, !.copy = pages[i],
                                              !.sum = Recounted(i)]]
    BY <1>7 DEF Prepare
  <2> HIDE DEF i
  <2>4. /\ Moves(r)
        /\ work'[r] = [work[r] EXCEPT !.at = "find", !.id = i, !.copy = pages[i],
                                      !.sum = Recounted(i)]
    BY <2>3 DEF Typed, Held, WorkShape, Moves
  <2>5. /\ work'[r].id = i /\ work'[r].copy = pages[i] /\ work'[r].to = work[r].to
        /\ work'[r].kind = "create" /\ work'[r].parent = work[r].parent
        /\ work'[r].at = "find"
    BY <1>1, <2>4 DEF IsRun, HasFields
  <2>6. RunTyped(work'[r], Ids') /\ StageTyped(work'[r], Ids')
    BY <1>1, <1>4, <1>5, <2>2, <2>5 DEF RunTyped, StageTyped
  <2> QED  BY <1>2, <1>3, <1>4, <2>4, <2>5, <2>6, QuietStep DEF InMain
<1> QED  BY <1>6, <1>7

(* One more document. *)
LEMMA AddedDocument ==
    ASSUME IsCollection(pages), NEW docs, NEW doc, DOMAIN docs = Ids \cup {Size},
           \A i \in Ids : docs[i] = pages[i], docs[Size] = doc, IsDocument(doc, Ids)
    PROVE  IsCollection(docs) /\ Size \notin Ids
<1>1. Size \in Nat \ {0} /\ Ids = 0 .. Size - 1 /\ Top \in Ids  BY IdsAreCounted
<1>2. DOMAIN docs = 0 .. Size + 1 - 1 /\ Size \notin Ids  BY <1>1
<1>3. \A i \in Ids : IsDocument(pages[i], Ids)  BY DEF IsCollection, Ids
<1>4. \A i \in DOMAIN docs : IsDocument(docs[i], Ids)  BY <1>3
<1>5. \A i \in DOMAIN docs : IsDocument(docs[i], DOMAIN docs)
  BY <1>4, WiderDocument
<1>6. docs[Top] = pages[Top]  BY <1>1
<1> QED  BY <1>2, <1>5, <1>6, GrownCollection DEF IsCollection

LEMMA WrittenDocument ==
    ASSUME NEW old, old = [kind |-> old.kind, path |-> old.path, parent |-> old.parent,
                           count |-> old.count],
           NEW k, NEW i, NEW n, NEW new, new = [old EXCEPT !.kind = k, !.parent = i, !.count = n]
    PROVE  /\ new = [kind |-> new.kind, path |-> new.path, parent |-> new.parent,
                     count |-> new.count]
           /\ new.kind = k /\ new.path = old.path /\ new.parent = i /\ new.count = n
  OBVIOUS

(* What a creation saves: a new document, or one that it read.               *)
LEMMA SaveWrites ==
    ASSUME Typed, NEW r \in Runs, Save(r), ~Throw(r)
    PROVE  \E id, page :
              /\ id = (IF work[r].id = NoId THEN Size ELSE work[r].id)
              /\ id # Top /\ id \in Ids \cup {Size} /\ (work[r].id # NoId => Found(id))
              /\ page.kind = "page" /\ IsDocument(page, Ids)
              /\ page.path = (IF work[r].id = NoId THEN work[r].to ELSE pages[id].path)
              /\ \/ page.parent = work[r].parent
                 \/ work[r].id # NoId /\ page.parent = pages[id].parent
              /\ DOMAIN pages' = Ids \cup {id} /\ pages'[id] = page
              /\ \A i \in Ids \ {id} : pages'[i] = pages[i]
              /\ work' = [work EXCEPT ![r].at = "recordCreate", ![r].id = id, ![r].copy = page]
              /\ UNCHANGED <<ops, asked>> /\ history'.fresh = history.fresh \cup {id}
              /\ history'.stale = (history.stale
                                     \/ work[r].parent \notin At(Dirname(work[r].to)))
<1>1. IsRun(work[r]) /\ work[r].at = "save" /\ work[r].kind = "create"
  BY RunsAreRuns DEF Typed, Held, Save, On, IsRun, Early, Holding, Late
<1> DEFINE run == work[r]
           id == IF run.id = NoId THEN NewId(0) ELSE run.id
           old == IF run.id = NoId
                  THEN [kind |-> "page", path |-> run.to, parent |-> run.parent, count |-> 0]
                  ELSE pages[id]
           above == IF run.parent = run.copy.parent THEN old.parent ELSE run.parent
           sum == IF run.sum = run.copy.count THEN old.count ELSE run.sum
           page == [old EXCEPT !.kind = "page", !.parent = above, !.count = sum]
<1>2. /\ run.id = NoId \/ Found(id)
      /\ pages' = Joined([i \in {id} |-> page], pages)
      /\ work' = [work EXCEPT ![r].at = "recordCreate", ![r].id = id, ![r].copy = page]
      /\ history'.fresh = history.fresh \cup {id}
      /\ history'.stale = (history.stale \/ run.parent \notin At(Dirname(run.to)))
      /\ UNCHANGED <<ops, asked>>
  BY DEF Save, Unchanged, Typed, Held, HasHistory
<1>3. /\ run.parent \in Ids \cup {NoId} /\ run.to \in Seq(Names)
      /\ run.id \in (Ids \ {Top}) \cup {NoId}
  BY <1>1 DEF Typed, RunTyped, IsPath
<1>4. Size \in Nat \ {0} /\ Ids = 0 .. Size - 1 /\ Top \in Ids /\ NoId \notin Ids
  BY IdsAreCounted DEF Typed
<1>5. id = IF run.id = NoId THEN Size ELSE run.id  BY <1>4 DEF NewId, Size
<1>6. id # Top /\ id \in Ids \cup {Size}  BY <1>3, <1>4, <1>5 DEF Top
<1>7. /\ old = [kind |-> old.kind, path |-> old.path, parent |-> old.parent,
                count |-> old.count]
      /\ old.path \in Seq(Names) /\ old.parent \in Ids \cup {NoId}
      /\ old.path = (IF run.id = NoId THEN run.to ELSE pages[id].path)
      /\ old.parent = (IF run.id = NoId THEN run.parent ELSE pages[id].parent)
  <2>1. CASE run.id = NoId  BY <1>3, <2>1
  <2>2. CASE run.id # NoId
    <3>1. IsDocument(pages[id], Ids)
      BY <1>2, <2>2 DEF Found, Typed, IsCollection, Ids
    <3> QED  BY <2>2, <3>1 DEF IsDocument
  <2> QED  BY <2>1, <2>2
<1> HIDE DEF id, old
<1>8. /\ page = [kind |-> page.kind, path |-> page.path, parent |-> page.parent,
                 count |-> page.count]
      /\ page.kind = "page" /\ page.path = old.path
      /\ page.parent \in {old.parent, run.parent}
  <2>1. above \in {old.parent, run.parent}  OBVIOUS
  <2>2. page = [old EXCEPT !.kind = "page", !.parent = above, !.count = sum]  OBVIOUS
  <2> HIDE DEF above, sum, page
  <2> QED  BY <1>7, <2>1, <2>2, WrittenDocument
<1> HIDE DEF page
<1>9. IsDocument(page, Ids)  BY <1>3, <1>7, <1>8 DEF IsDocument
<1>10. /\ DOMAIN pages' = Ids \cup {id} /\ pages'[id] = page
       /\ \A i \in Ids \ {id} : pages'[i] = pages[i]
  BY <1>2 DEF Joined, Ids
<1>11. \/ page.parent = run.parent
       \/ run.id # NoId /\ page.parent = pages[id].parent
  BY <1>7, <1>8
<1> QED  BY <1>2, <1>5, <1>6, <1>7, <1>8, <1>9, <1>10, <1>11, ZenonT(60)

LEMMA SaveTyped ==
    ASSUME Typed, NEW r \in Runs, Save(r)
    PROVE  Typed'
<1>1. IsRun(work[r]) /\ work[r].at = "save" /\ work[r].kind = "create"
  BY RunsAreRuns DEF Typed, Held, Save, On, IsRun, Early, Holding, Late
<1>2. Held'  BY SaveKeeps DEF Typed
<1>3. CASE Throw(r)  BY <1>1, <1>2, <1>3, ThrowTyped DEF Save, Unchanged
<1>4. CASE ~Throw(r)
  <2>1. PICK id, page :
           /\ id # Top /\ id \in Ids \cup {Size} /\ IsDocument(page, Ids)
           /\ DOMAIN pages' = Ids \cup {id} /\ pages'[id] = page
           /\ \A i \in Ids \ {id} : pages'[i] = pages[i]
           /\ work' = [work EXCEPT ![r].at = "recordCreate", ![r].id = id, ![r].copy = page]
           /\ UNCHANGED <<ops, asked>> /\ history'.fresh = history.fresh \cup {id}
    BY <1>4, SaveWrites
  <2>2. RunTyped(work[r], Ids) /\ work[r].parent \in Ids \cup {NoId}
    BY <1>1 DEF Typed, RunTyped
  <2>3. Size \in Nat \ {0} /\ Ids = 0 .. Size - 1 /\ Top \in Ids /\ NoId \notin Ids
    BY IdsAreCounted DEF Typed
  <2>4. IsCollection(pages') /\ Ids' = Ids \cup {id}
    <3>1. CASE id \in Ids
      <4>1. DOMAIN pages' = Ids  BY <2>1, <3>1
      <4>2. \A i \in Ids : IsDocument(pages'[i], Ids)
        BY <2>1 DEF Typed, IsCollection, Ids
      <4>3. pages'[Top] = pages[Top]  BY <2>1, <2>3
      <4> QED  BY <3>1, <4>1, <4>2, <4>3, EditedCollection DEF Typed, IsCollection, Ids
    <3>2. CASE id \notin Ids
      <4>1. id = Size  BY <2>1, <3>2
      <4>2. \A i \in Ids : pages'[i] = pages[i]  BY <2>1, <3>2
      <4> QED  BY <2>1, <4>1, <4>2, AddedDocument DEF Typed, Ids
    <3> QED  BY <3>1, <3>2
  <2>5. /\ Moves(r)
        /\ work'[r] = [work[r] EXCEPT !.at = "recordCreate", !.id = id, !.copy = page]
    BY <2>1 DEF Typed, Held, WorkShape, Moves
  <2>6. /\ work'[r].id = id /\ work'[r].copy = page /\ work'[r].to = work[r].to
        /\ work'[r].kind = "create" /\ work'[r].parent = work[r].parent
        /\ work'[r].at = "recordCreate"
    BY <1>1, <2>5 DEF IsRun, HasFields
  <2>7. id # NoId  BY <2>1, <2>3 DEF NoId
  <2>8. IsDocument(page, Ids') /\ id \in Ids' \ {Top} /\ Ids \subseteq Ids'
    BY <2>1, <2>4, WiderDocument
  <2>9. RunTyped(work'[r], Ids') /\ StageTyped(work'[r], Ids')
    BY <1>1, <2>2, <2>6, <2>7, <2>8 DEF RunTyped, StageTyped
  <2>10. (history.fresh \subseteq Ids)'  BY <2>1, <2>4 DEF Typed
  <2> QED
    BY <1>2, <2>1, <2>4, <2>5, <2>6, <2>8, <2>9, <2>10, QuietStep DEF InMain
<1> QED  BY <1>3, <1>4

(* An operation that a run records. *)
LEMMA RecordedTyped ==
    ASSUME Typed, Held', NEW r \in Runs, IsRun(work[r]), NEW stage, NEW at,
           ops' = [ops EXCEPT ![r] = Operation(r, stage, NoPath)], Go(r, at),
           at \notin Special, at \notin RenameMain, UNCHANGED <<pages, asked, history>>,
           \/ work[r].kind = "create" /\ work[r].at = "recordCreate" /\ stage = "Sub"
           \/ work[r].kind \in {"delete", "erase"} /\ stage = "Main"
    PROVE  Typed'
<1>1. RunTyped(work[r], Ids) /\ StageTyped(work[r], Ids)  BY DEF Typed
<1>2. Moves(r) /\ work'[r] = [work[r] EXCEPT !.at = at]
  BY DEF Go, Typed, Held, WorkShape, Moves
<1>3. SameRun(work[r], work'[r]) /\ work'[r].at = at
  BY <1>2 DEF IsRun, HasFields, SameRun
<1>4. IsCollection(pages') /\ Ids' = Ids /\ (history.fresh \subseteq Ids)'
  BY DEF Typed, Ids
<1>5. RunTyped(work'[r], Ids') /\ StageTyped(work'[r], Ids')
  BY <1>1, <1>3, <1>4 DEF RunTyped, StageTyped, SameRun, Special
<1>6. work[r].id \in Ids \ {Top}  BY <1>1 DEF RunTyped, StageTyped
<1>7. OpTyped(Operation(r, stage, NoPath), Ids)
  BY <1>1, <1>6 DEF OpTyped, Operation, RunTyped
<1>8. ops'[r] = Operation(r, stage, NoPath) /\ \A o \in Runs \ {r} : ops'[o] = ops[o]
  BY DEF Typed, Held
<1>9. \A o \in Recorded' : OpTyped(ops'[o], Ids')
  BY <1>4, <1>7, <1>8 DEF Typed, Recorded
<1>10. \A o \in Recorded' \ {r} : o \in Recorded /\ ops'[o].kind = ops[o].kind
  BY <1>8 DEF Recorded
<1>11. ~InMain(work'[r])  BY <1>3 DEF InMain
<1> QED  BY <1>2, <1>4, <1>5, <1>9, <1>10, <1>11, TypedStep

LEMMA RecordCreateTyped ==
    ASSUME Typed, NEW r \in Runs, RecordCreate(r)
    PROVE  Typed'
<1>1. IsRun(work[r]) /\ work[r].at = "recordCreate" /\ work[r].kind = "create"
  BY RunsAreRuns DEF Typed, Held, RecordCreate, On, IsRun, Early, Holding, Late
<1>2. Held'  BY RecordCreateKeeps DEF Typed
<1>3. /\ ops' = [ops EXCEPT ![r] = Operation(r, "Sub", NoPath)] /\ Go(r, "grow")
      /\ UNCHANGED <<pages, asked, history>>
  BY DEF RecordCreate, Unchanged
<1> QED  BY <1>1, <1>2, <1>3, RecordedTyped DEF Special, RenameMain

LEMMA RecordDeleteTyped ==
    ASSUME Typed, NEW r \in Runs, RecordDelete(r)
    PROVE  Typed'
<1>1. IsRun(work[r]) /\ work[r].kind \in {"delete", "erase"}
  BY RunsAreRuns DEF Typed, Held, RecordDelete, On, IsRun, Early, Holding, Late
<1>2. Held'  BY RecordDeleteKeeps DEF Typed
<1>3. /\ ops' = [ops EXCEPT ![r] = Operation(r, "Main", NoPath)] /\ Go(r, "stream")
      /\ UNCHANGED <<pages, asked, history>>
  BY DEF RecordDelete, Unchanged
<1> QED  BY <1>1, <1>2, <1>3, RecordedTyped DEF Special, RenameMain

LEMMA ReplaceTyped ==
    ASSUME Typed, NEW r \in Runs, Replace(r)
    PROVE  Typed'
<1>1. IsRun(work[r]) /\ work[r].at = "replace" /\ work[r].kind \in {"delete", "erase"}
  BY RunsAreRuns DEF Typed, Held, Replace, On, IsRun, Early, Holding, Late
<1>2. Held'  BY ReplaceKeeps DEF Typed
<1>3. CASE Throw(r)  BY <1>1, <1>2, <1>3, ThrowTyped DEF Replace, Unchanged
<1>4. CASE ~Throw(r)
  <2> DEFINE doc == [work[r].copy EXCEPT !.kind = "empty"]
  <2>1. /\ pages' = Joined(pages, [i \in {NewId(0)} |-> doc])
        /\ work' = [work EXCEPT ![r].at = "adopt", ![r].parent = NewId(0)]
        /\ UNCHANGED <<ops, asked>> /\ history'.fresh = history.fresh
    BY <1>4 DEF Replace, Unchanged, Stale, Typed, Held, HasHistory
  <2>2. RunTyped(work[r], Ids)  BY <1>1 DEF Typed
  <2>3. IsDocument(doc, Ids)
    BY <1>1, <2>2 DEF RunTyped, IsDocument
  <2> HIDE DEF doc
  <2>4. NewId(0) = Size /\ Size \in Nat \ {0} /\ Size \notin Ids
    BY IdsAreCounted DEF Typed, NewId, Size
  <2>5. /\ DOMAIN pages' = Ids \cup {Size} /\ pages'[Size] = doc
        /\ \A i \in Ids : pages'[i] = pages[i]
    BY <2>1, <2>4 DEF Joined, Ids
  <2>6. IsCollection(pages') /\ Ids' = Ids \cup {Size}
    BY <2>3, <2>5, AddedDocument DEF Typed, Ids
  <2>7. Moves(r) /\ work'[r] = [work[r] EXCEPT !.at = "adopt", !.parent = Size]
    BY <2>1, <2>4 DEF Typed, Held, WorkShape, Moves
  <2>8. /\ work'[r].id = work[r].id /\ work'[r].copy = work[r].copy
        /\ work'[r].to = work[r].to /\ work'[r].kind = work[r].kind
        /\ work'[r].parent = Size /\ work'[r].at = "adopt"
    BY <1>1, <2>7 DEF IsRun, HasFields
  <2>9. RunTyped(work'[r], Ids') /\ StageTyped(work'[r], Ids')
    BY <1>1, <2>2, <2>6, <2>8, WiderDocument DEF RunTyped, StageTyped
  <2>10. (history.fresh \subseteq Ids)'  BY <2>1, <2>6 DEF Typed
  <2> QED
    BY <1>1, <1>2, <2>1, <2>6, <2>7, <2>8, <2>9, <2>10, QuietStep DEF InMain
<1> QED  BY <1>3, <1>4

LEMMA AdoptTyped ==
    ASSUME Typed, NEW r \in Runs, Adopt(r)
    PROVE  Typed'
<1>1. IsRun(work[r]) /\ work[r].at = "adopt" /\ work[r].kind \in {"delete", "erase"}
  BY RunsAreRuns DEF Typed, Held, Adopt, On, IsRun, Early, Holding, Late
<1>2. Held'  BY AdoptKeeps DEF Typed
<1>3. /\ pages' = [i \in Ids |-> IF pages[i].parent = work[r].id
                      THEN [pages[i] EXCEPT !.parent = work[r].parent] ELSE pages[i]]
      /\ UNCHANGED <<ops, asked, history>> /\ \E at \in {"trash", "shrink"} : Go(r, at)
  BY DEF Adopt, Unchanged
<1>4. work[r].id \in Ids \ {Top} /\ work[r].parent \in Ids \cup {NoId}
  BY <1>1 DEF Typed, RunTyped
<1>5. \A i \in Ids : IsDocument(pages[i], Ids)  BY DEF Typed, IsCollection, Ids
<1>6. \A i \in Ids : pages[i].parent = work[r].id => pages[i].kind # "none" /\ i # Top
  <2>1. NoId \notin Ids  BY IdsAreCounted DEF Typed
  <2>2. \A i \in Ids : pages[i].kind = "none" => pages[i].parent = NoId
    <3>1. \A i \in Ids : pages[i].kind = "none" => pages[i] = NoPage
      BY <1>5 DEF IsDocument
    <3>2. NoPage.parent = NoId  BY DEF NoPage
    <3> QED  BY <3>1, <3>2
  <2> QED  BY <1>4, <2>1, <2>2 DEF Typed, IsCollection
<1>7. DOMAIN pages' = Ids /\ pages'[Top] = pages[Top]
  BY <1>3, <1>6, IdsAreCounted DEF Typed
<1>8. \A i \in Ids : IsDocument(pages'[i], Ids)
  BY <1>3, <1>4, <1>5, <1>6, ReparentedDocument
<1>9. IsCollection(pages')  BY <1>7, <1>8, EditedCollection DEF Typed, IsCollection
<1> QED  BY <1>1, <1>2, <1>3, <1>7, <1>9, GoTyped DEF Special, RenameMain, Typed, Ids

LEMMA TrashTargetTyped ==
    ASSUME Typed, NEW r \in Runs, TrashTarget(r)
    PROVE  Typed'
<1>1. IsRun(work[r]) /\ work[r].at = "trash" /\ work[r].kind \in {"delete", "erase"}
  BY RunsAreRuns DEF Typed, Held, TrashTarget, On, IsRun, Early, Holding, Late
<1>2. Held'  BY TrashTargetKeeps DEF Typed
<1>3. work[r].id \in Ids \ {Top} /\ work[r].copy.kind \in {"page", "empty"}
  BY <1>1 DEF Typed, RunTyped
<1> DEFINE id == work[r].id
           doc == CASE work[r].copy.kind = "page" ->
                          [NoPage EXCEPT !.kind = "trash", !.path = TrashPath]
                    [] work[r].copy.kind = "empty" ->
                          IF pages[id].kind = "empty" THEN NoPage ELSE pages[id]
<1>4. /\ pages' = pages \/ (Found(id) /\ pages' = [pages EXCEPT ![id] = doc])
      /\ UNCHANGED <<ops, asked>> /\ history'.fresh \subseteq history.fresh
      /\ \E at \in {"signpost", "shrink"} : Go(r, at)
  <2>1. pages' = pages \/ (Found(id) /\ pages' = [pages EXCEPT ![id] = doc])
    BY <1>3 DEF TrashTarget
  <2> QED  BY <2>1 DEF TrashTarget, Unchanged, Typed, Held, HasHistory
<1>5. IsDocument(doc, Ids)
  <2>1. \/ doc = NoPage \/ doc = pages[id]
        \/ doc = [NoPage EXCEPT !.kind = "trash", !.path = TrashPath]
    BY <1>3
  <2>2. IsDocument(pages[id], Ids)  BY <1>3 DEF Typed, IsCollection, Ids
  <2> HIDE DEF doc
  <2> QED  BY <2>1, <2>2, DeadDocuments
<1> HIDE DEF id, doc
<1>6. IsCollection(pages') /\ Ids' = Ids
  BY <1>3, <1>4, <1>5, ReplacedDocument DEF Typed, Ids, id
<1>7. (history.fresh \subseteq Ids)'  BY <1>4, <1>6 DEF Typed
<1> QED  BY <1>1, <1>2, <1>4, <1>6, <1>7, GoTyped DEF Special, RenameMain, Typed

LEMMA SignpostTyped ==
    ASSUME Typed, NEW r \in Runs, Signpost(r)
    PROVE  Typed'
<1>1. IsRun(work[r])  BY RunsAreRuns DEF Typed, Held, Signpost, On
<1>2. Held'  BY SignpostKeeps DEF Typed
<1>3. UNCHANGED <<pages, ops, asked, history>> /\ Go(r, "shrink")
  BY DEF Signpost, Unchanged
<1> QED  BY <1>1, <1>2, <1>3, GoTyped DEF Special, RenameMain, Typed, Ids

LEMMA ErasePageTyped ==
    ASSUME Typed, NEW r \in Runs, ErasePage(r)
    PROVE  Typed'
<1>1. IsRun(work[r]) /\ work[r].at = "erase" /\ work[r].kind \in {"delete", "erase"}
  BY RunsAreRuns DEF Typed, Held, ErasePage, On, IsRun, Early, Holding, Late
<1>2. Held'  BY ErasePageKeeps DEF Typed
<1>3. work[r].id \in Ids \ {Top}  BY <1>1 DEF Typed, RunTyped
<1>4. /\ pages' = [pages EXCEPT ![work[r].id] = NoPage]
      /\ work' = [work EXCEPT ![r].todo = @ \ {"page"}]
      /\ UNCHANGED <<ops, asked>> /\ history'.fresh \subseteq history.fresh
  BY DEF ErasePage, Unchanged, Typed, Held, HasHistory
<1>5. IsCollection(pages') /\ Ids' = Ids
  BY <1>3, <1>4, DeadDocuments, ReplacedDocument DEF Typed, Ids
<1>6. (history.fresh \subseteq Ids)'  BY <1>4, <1>5 DEF Typed
<1>7. Moves(r) /\ work'[r] = [work[r] EXCEPT !.todo = @ \ {"page"}]
  BY <1>4 DEF Typed, Held, WorkShape, Moves
<1>8. SameRun(work[r], work'[r]) /\ work'[r].at = "erase"
  BY <1>1, <1>7 DEF IsRun, HasFields, SameRun
<1> QED
  BY <1>1, <1>2, <1>4, <1>5, <1>6, <1>7, <1>8, PlainStep DEF Special, InMain, RenameMain, SameRun

LEMMA EraseRedirectsTyped ==
    ASSUME Typed, NEW r \in Runs, EraseRedirects(r)
    PROVE  Typed'
<1>1. IsRun(work[r]) /\ work[r].at = "erase"
  BY RunsAreRuns DEF Typed, Held, EraseRedirects, On
<1>2. Held'  BY EraseRedirectsKeeps DEF Typed
<1>3. /\ work' = [work EXCEPT ![r].todo = @ \ {"redirects"}]
      /\ UNCHANGED <<pages, ops, asked, history>>
  BY DEF EraseRedirects, Unchanged
<1>4. Moves(r) /\ work'[r] = [work[r] EXCEPT !.todo = @ \ {"redirects"}]
  BY <1>3 DEF Typed, Held, WorkShape, Moves
<1>5. SameRun(work[r], work'[r]) /\ work'[r].at = "erase"
  BY <1>1, <1>4 DEF IsRun, HasFields, SameRun
<1> QED
  BY <1>1, <1>2, <1>3, <1>4, <1>5, PlainStep
  DEF Special, InMain, RenameMain, SameRun, Typed, Ids

LEMMA ErasedTyped ==
    ASSUME Typed, NEW r \in Runs, Erased(r)
    PROVE  Typed'
<1>1. IsRun(work[r])  BY RunsAreRuns DEF Typed, Held, Erased, On
<1>2. Held'  BY ErasedKeeps DEF Typed
<1>3. UNCHANGED <<pages, ops, asked, history>> /\ Go(r, "prune")
  BY DEF Erased, Unchanged
<1> QED  BY <1>1, <1>2, <1>3, GoTyped DEF Special, RenameMain, Typed, Ids

LEMMA BeginTyped ==
    ASSUME Typed, Held', NEW r \in Runs, NEW kind \in {"rename", "create", "delete", "erase"},
           NEW id, NEW to, NEW redirect, NEW recursively, NEW at \in {"check", "clear"},
           Begin(r, kind, id, to, redirect, recursively, at),
           \/ kind = "create" /\ id = NoId
           \/ id \in Ids \ {Top} /\ pages[id].kind \in {"page", "empty"},
           kind \in {"rename", "create"} => IsPath(to) /\ to # <<>>
    PROVE  Typed'
<1> DEFINE copy == IF id = NoId THEN NoPage ELSE pages[id]
           todo == IF kind = "erase" THEN {"page", "redirects"} ELSE {}
<1>1. /\ UNCHANGED <<pages, ops, asked>> /\ history'.fresh = history.fresh /\ work[r] = Idle
      /\ work' = [work EXCEPT ![r] =
          [at |-> at, kind |-> kind, op |-> r, id |-> id, to |-> to,
           copy |-> copy, parent |-> NoId,
           redirect |-> redirect, recursively |-> recursively, ids |-> {},
           todo |-> todo, sum |-> 0, seen |-> Recorded, resumed |-> FALSE, ticked |-> FALSE]]
  BY DEF Begin, Spend, Typed, Held, HasHistory
<1>2. IsDocument(copy, Ids) /\ (id # NoId => copy.kind \in {"page", "empty"})
  <2>1. CASE id = NoId  BY <2>1, DeadDocuments
  <2>2. CASE id # NoId  BY <2>2 DEF Typed, IsCollection, Ids
  <2> QED  BY <2>1, <2>2
<1>3. NoId \notin Ids  BY IdsAreCounted DEF Typed
<1> HIDE DEF copy, todo
<1>4. /\ Moves(r) /\ work'[r].at = at /\ work'[r].kind = kind /\ work'[r].id = id
      /\ work'[r].to = to /\ work'[r].copy = copy /\ work'[r].parent = NoId
  BY <1>1 DEF Typed, Held, WorkShape, Moves
<1>5. RunTyped(work'[r], Ids) /\ StageTyped(work'[r], Ids)
  BY <1>2, <1>3, <1>4 DEF RunTyped, StageTyped
<1>6. IsCollection(pages') /\ Ids' = Ids /\ (history.fresh \subseteq Ids)'
  BY <1>1 DEF Typed, Ids
<1> QED  BY <1>1, <1>4, <1>5, <1>6, QuietStep DEF InMain, RenameMain

LEMMA RequestTyped ==
    ASSUME Typed, NEW r \in Runs, Request(r)
    PROVE  Typed'
<1>1. Held'  BY RequestKeeps DEF Typed
<1>2. ASSUME NEW i \in Ids, NEW renaming \in asked.renames,
             BeginRename(r, i, renaming[1], renaming[2])
      PROVE  Typed'
  BY <1>1, <1>2, BeginTyped DEF BeginRename, Typed, AskedTyped
<1>3. ASSUME NEW path \in asked.creates, BeginCreate(r, path)
      PROVE  Typed'
  BY <1>1, <1>3, BeginTyped DEF BeginCreate, Typed, AskedTyped
<1>4. ASSUME NEW i \in Ids, NEW recursively, BeginDelete(r, i, recursively)
      PROVE  Typed'
  BY <1>1, <1>4, BeginTyped DEF BeginDelete
<1>5. ASSUME NEW i \in Ids, NEW recursively, BeginErase(r, i, recursively)
      PROVE  Typed'
  BY <1>1, <1>5, BeginTyped DEF BeginErase
<1> QED  BY <1>2, <1>3, <1>4, <1>5 DEF Request

LEMMA ResumedTyped ==
    ASSUME Typed, NEW o \in Resumable
    PROVE  RunTyped(Resumed(o), Ids) /\ StageTyped(Resumed(o), Ids) /\ ~InMain(Resumed(o))
<1>1. OpTyped(ops[o], Ids) /\ ops[o].kind = "rename"  BY DEF Typed, Resumable
<1>2. ops[o].id \in Ids /\ IsDocument(pages[ops[o].id], Ids)
  BY <1>1 DEF OpTyped, Typed, IsCollection, Ids
<1>3. pages[ops[o].id].parent \in Ids \cup {NoId}  BY <1>2 DEF IsDocument
<1>4. NoId \notin Ids  BY IdsAreCounted DEF Typed
<1>5. RunTyped(Resumed(o), Ids)  BY <1>1, <1>3, <1>4 DEF OpTyped, RunTyped, Resumed
<1> QED  BY <1>5 DEF StageTyped, Resumed, InMain, RenameMain

LEMMA ResumeTyped ==
    ASSUME Typed, NEW r \in Runs, NEW o, Resume(o, r)
    PROVE  Typed'
<1>1. Held'  BY ResumeKeeps DEF Typed
<1>2. /\ o \in Resumable /\ UNCHANGED <<pages, ops, asked>> /\ history'.fresh = history.fresh
      /\ work' = [work EXCEPT ![r] = Resumed(o)]
  BY DEF Resume, Spend, Redone, Typed, Held, HasHistory
<1>3. Moves(r) /\ work'[r] = Resumed(o)
  BY <1>2 DEF Typed, Held, WorkShape, Moves
<1>4. IsCollection(pages') /\ Ids' = Ids /\ (history.fresh \subseteq Ids)'
  BY <1>2 DEF Typed, Ids
<1> QED  BY <1>1, <1>2, <1>3, <1>4, ResumedTyped, QuietStep

LEMMA TimePassesTyped ==
    ASSUME Typed, NEW o, TimePasses(o)
    PROVE  Typed'
<1>1. Held'  BY TimePassesKeeps DEF Typed
<1>2. /\ o \in Recorded /\ ops' = [ops EXCEPT ![o].ahead = FALSE]
      /\ UNCHANGED <<pages, work, asked, history>>
  BY DEF TimePasses, Resumable, Unchanged
<1>3. OpTyped(ops[o], Ids)  BY <1>2 DEF Typed
<1>4. ops'[o] = [ops[o] EXCEPT !.ahead = FALSE] /\ \A p \in Runs \ {o} : ops'[p] = ops[p]
  BY <1>2 DEF Typed, Held, Recorded
<1>5. /\ ops'[o] = [stage |-> ops'[o].stage, kind |-> ops'[o].kind, id |-> ops'[o].id,
                    copy |-> ops'[o].copy, from |-> ops'[o].from, to |-> ops'[o].to,
                    redirect |-> ops'[o].redirect, ahead |-> ops'[o].ahead,
                    order |-> ops'[o].order]
      /\ ops'[o].stage = ops[o].stage /\ ops'[o].kind = ops[o].kind
      /\ ops'[o].id = ops[o].id /\ ops'[o].copy = ops[o].copy /\ ops'[o].to = ops[o].to
  BY <1>3, <1>4 DEF OpTyped
<1>6. OpTyped(ops'[o], Ids)  BY <1>3, <1>5 DEF OpTyped
<1>7. \A p \in Recorded' : p \in Recorded /\ OpTyped(ops'[p], Ids) /\ ops'[p].kind = ops[p].kind
  BY <1>2, <1>4, <1>5, <1>6 DEF Typed, Recorded
<1>8. IsCollection(pages)' /\ AskedTyped' /\ (history.fresh \subseteq Ids)' /\ Ids' = Ids
  BY <1>2 DEF Typed, AskedTyped, Ids
<1>9. \A r \in Runs : IsRun(work'[r]) => RunTyped(work'[r], Ids') /\ StageTyped(work'[r], Ids')
  BY <1>2, <1>8 DEF Typed
<1>10. \A r \in Runs : IsRun(work'[r]) /\ InMain(work'[r]) /\ r \in Recorded' =>
                          ops'[r].kind = "rename"
  BY <1>2, <1>7 DEF Typed
<1> QED  BY <1>1, <1>7, <1>8, <1>9, <1>10 DEF Typed, InMain, IsRun, HasFields

LEMMA AwaitFailsTyped ==
    ASSUME Typed, NEW r \in Runs, AwaitFails(r)
    PROVE  Typed'
<1>1. IsRun(work[r])  BY RunsAreRuns DEF Typed, Held, AwaitFails, InFlight
<1>2. Held'  BY AwaitFailsKeeps DEF Typed
<1>3. Throw(r) /\ asked' = asked  BY DEF AwaitFails, Spend
<1> QED  BY <1>1, <1>2, <1>3, ThrowTyped

(* The runs that begin or end. *)
LEMMA RunsTyped ==
    ASSUME Typed, Held', UNCHANGED <<pages, ops, asked>>, history'.fresh = history.fresh,
           \A r \in Runs : \/ work'[r] \in {work[r], Over}
                           \/ r \in Resumable /\ work'[r] = Resumed(r)
    PROVE  Typed'
<1>1. /\ IsCollection(pages)' /\ AskedTyped' /\ (history.fresh \subseteq Ids)'
      /\ Ids' = Ids /\ Recorded' = Recorded
  BY DEF Typed, AskedTyped, Ids, Recorded
<1>2. \A o \in Recorded' : OpTyped(ops'[o], Ids')  BY <1>1 DEF Typed
<1>3. \A r \in Runs : IsRun(work'[r]) => RunTyped(work'[r], Ids') /\ StageTyped(work'[r], Ids')
  BY <1>1, RunIsNeither, ResumedTyped DEF Typed
<1>4. \A r \in Runs : IsRun(work'[r]) /\ InMain(work'[r]) /\ r \in Recorded' =>
                          ops'[r].kind = "rename"
  BY <1>1, RunIsNeither, ResumedTyped DEF Typed
<1> QED  BY <1>1, <1>2, <1>3, <1>4 DEF Typed, InMain, IsRun, HasFields

LEMMA CrashTyped ==
    ASSUME Typed, Crash
    PROVE  Typed'
<1>1. Held'  BY CrashKeeps DEF Typed
<1>2. UNCHANGED <<pages, ops, asked>> /\ history'.fresh = history.fresh
  BY DEF Crash, Spend, Typed, Held, HasHistory
<1>3. \A r \in Runs : work'[r] \in {work[r], Over}  BY DEF Crash
<1> QED  BY <1>1, <1>2, <1>3, RunsTyped

LEMMA BootTyped ==
    ASSUME Typed, Boot
    PROVE  Typed'
<1>1. Held'  BY BootKeeps DEF Typed
<1>2. UNCHANGED <<pages, ops, asked>> /\ history'.fresh = history.fresh
  BY DEF Boot, Redone, Typed, Held, HasHistory
<1>3. \A r \in Runs : work'[r] = work[r] \/ (r \in Resumable /\ work'[r] = Resumed(r))
  BY DEF Boot
<1> QED  BY <1>1, <1>2, <1>3, RunsTyped

LEMMA InitTyped == Init => Typed
<1> SUFFICES ASSUME Init  PROVE Typed
  OBVIOUS
<1>1. IsCollection(pages) /\ AskedTyped
  BY PageTreeAssumption DEF Init, AskedTyped
<1>2. \A r \in Runs : work[r] = Idle /\ r \notin Recorded
  BY DEF Init, Recorded
<1>3. history.fresh \subseteq Ids  BY DEF Init
<1> QED  BY <1>1, <1>2, <1>3, InitHeld, RunIsNeither DEF Typed, Recorded

LEMMA AdvanceTyped ==
    ASSUME Typed, NEW r \in Runs, Advance(r)
    PROVE  Typed'
<1>1. CASE Check(r) \/ Record(r) \/ TakeOff(r) \/ Find(r) \/ Insert(r) \/
           Link(r) \/ Plant(r) \/ Graft(r) \/ Put(r) \/ Bump(r) \/
           CreateRedirect(r) \/ SetStage(r)
  BY <1>1, CheckTyped, RecordTyped, TakeOffTyped, FindTyped, InsertTyped, LinkTyped,
     PlantTyped, GraftTyped, PutTyped, BumpTyped, CreateRedirectTyped, SetStageTyped
<1>2. CASE Stream(r) \/ BatchesEnd(r) \/ Unbump(r) \/ Shrink(r) \/ Shrunk(r) \/
           Grow(r) \/ Grown(r) \/ Prune(r) \/ Pruned(r) \/ Done(r) \/ Recount(r)
           \/ Store(r) \/ Cleanup(r)
  BY <1>2, StreamTyped, BatchesEndTyped, UnbumpTyped, ShrinkTyped, ShrunkTyped,
     GrowTyped, GrownTyped, PruneTyped, PrunedTyped, DoneTyped, RecountTyped,
     StoreTyped, CleanupTyped
<1>3. CASE ClearRedirect(r) \/ Prepare(r) \/ Save(r) \/ RecordCreate(r) \/
           Replace(r) \/ Adopt(r) \/ TrashTarget(r) \/ Signpost(r) \/
           RecordDelete(r) \/ ErasePage(r) \/ EraseRedirects(r) \/ Erased(r)
  BY <1>3, ClearRedirectTyped, PrepareTyped, SaveTyped, RecordCreateTyped,
     ReplaceTyped, AdoptTyped, TrashTargetTyped, SignpostTyped, RecordDeleteTyped,
     ErasePageTyped, EraseRedirectsTyped, ErasedTyped
<1>4. CASE On(r, "batch") /\ \E x \in work[r].todo : Batch(r, x)  BY <1>4, BatchTyped
<1> QED  BY Zenon, <1>1, <1>2, <1>3, <1>4 DEF Advance

LEMMA NextTyped == Typed /\ [Next]_vars => Typed'
<1> SUFFICES ASSUME Typed, [Next]_vars  PROVE Typed'
  OBVIOUS
<1>1. CASE UNCHANGED vars
  <2>1. Held'  BY NextKeeps DEF Typed
  <2>2. UNCHANGED <<pages, ops, asked, work, history>>  BY <1>1 DEF vars
  <2> QED  BY <2>1, <2>2, RunsTyped
<1>2. ASSUME NEW r \in Runs,
             Request(r) \/ Advance(r) \/ ExtendExpiryDate(r) \/ AwaitFails(r)
      PROVE  Typed'
  BY <1>2, RequestTyped, AdvanceTyped, ExtendExpiryDateTyped, AwaitFailsTyped
<1>3. ASSUME NEW r \in Runs, NEW x \in work[r].todo, BatchFails(r, x)
      PROVE  Typed'
  BY <1>3, BatchFailsTyped
<1>4. ASSUME NEW o \in Runs, TimePasses(o) \/ \E r \in Runs : Resume(o, r)
      PROVE  Typed'
  BY <1>4, TimePassesTyped, ResumeTyped
<1>5. CASE Crash \/ Boot  BY <1>5, CrashTyped, BootTyped
<1> QED  BY <1>1, <1>2, <1>3, <1>4, <1>5 DEF Next

LEMMA TypedIsTypeOK == Typed => TypeOK
<1> SUFFICES ASSUME Typed, NEW o \in Recorded
             PROVE  /\ ops[o].id \in Ids \ {Top}
                    /\ ops[o].stage \in [rename |-> {"Main", "Sub"}, create |-> {"Sub"},
                              delete |-> {"Main"}, erase |-> {"Main"}][ops[o].kind]
  BY DEF Typed, TypeOK
<1>1. OpTyped(ops[o], Ids)  BY DEF Typed
<1> QED  BY <1>1 DEF OpTyped

THEOREM PagesAreTyped == Spec => []TypeOK
<1>1. Spec => []Typed  BY InitTyped, NextTyped, PTL DEF Spec
<1> QED  BY <1>1, TypedIsTypeOK, PTL

-----------------------------------------------------------------------------
(* Paths and their prefixes. *)

Paths == Seq(Names)

LEMMA PrefixIsPointwise ==
    ASSUME NEW p \in Paths, NEW q \in Paths
    PROVE  IsPrefix(p, q) <=> Len(p) <= Len(q) /\ \A k \in 1 .. Len(p) : p[k] = q[k]
<1>1. CASE Len(p) <= Len(q)
  <2>1. /\ SubSeq(p, 1, Len(p)) = [k \in 1 .. Len(p) |-> p[k]]
        /\ SubSeq(q, 1, Len(p)) = [k \in 1 .. Len(p) |-> q[k]]
    BY <1>1 DEF Paths
  <2> QED  BY <1>1, <2>1 DEF IsPrefix
<1>2. CASE ~(Len(p) <= Len(q))  BY <1>2 DEF IsPrefix
<1> QED  BY <1>1, <1>2

LEMMA PathsEqual ==
    ASSUME NEW p \in Paths, NEW q \in Paths, Len(p) = Len(q),
           \A k \in 1 .. Len(p) : p[k] = q[k]
    PROVE  p = q
  BY DEF Paths

LEMMA PrefixReflexive ==
    ASSUME NEW p \in Paths
    PROVE  IsPrefix(p, p)
  BY PrefixIsPointwise DEF Paths

LEMMA PrefixTransitive ==
    ASSUME NEW p \in Paths, NEW q \in Paths, NEW s \in Paths,
           IsPrefix(p, q), IsPrefix(q, s)
    PROVE  IsPrefix(p, s)
<1>1. Len(p) \in Nat /\ Len(q) \in Nat /\ Len(s) \in Nat  BY DEF Paths
<1> QED  BY <1>1, PrefixIsPointwise

LEMMA PrefixesCompare ==
    ASSUME NEW p \in Paths, NEW q \in Paths, NEW s \in Paths,
           IsPrefix(p, s), IsPrefix(q, s)
    PROVE  IsPrefix(p, q) \/ IsPrefix(q, p)
<1>1. Len(p) \in Nat /\ Len(q) \in Nat /\ Len(s) \in Nat  BY DEF Paths
<1>2. CASE Len(p) <= Len(q)  BY <1>1, <1>2, PrefixIsPointwise
<1>3. CASE Len(q) <= Len(p)  BY <1>1, <1>3, PrefixIsPointwise
<1> QED  BY <1>1, <1>2, <1>3

LEMMA PrefixLonger ==
    ASSUME NEW p \in Paths, NEW q \in Paths, IsPrefix(p, q)
    PROVE  /\ Len(p) <= Len(q)
           /\ p # q => Len(p) < Len(q)
           /\ IsPrefix(q, p) => p = q
<1>1. Len(p) \in Nat /\ Len(q) \in Nat  BY DEF Paths
<1> QED  BY <1>1, PrefixIsPointwise, PathsEqual

LEMMA EmptyPath ==
    ASSUME NEW p \in Paths
    PROVE  IsPrefix(<<>>, p) /\ (IsPrefix(p, <<>>) => p = <<>>) /\ (Len(p) = 0 => p = <<>>)
           /\ <<>> \in Paths
<1>1. <<>> \in Paths /\ Len(<<>>) = 0 /\ Len(p) \in Nat  BY DEF Paths
<1> QED  BY <1>1, PrefixIsPointwise, PathsEqual

LEMMA FrontIsPath ==
    ASSUME NEW p \in Paths, p # <<>>
    PROVE  /\ Front(p) \in Paths /\ Len(Front(p)) = Len(p) - 1
           /\ \A k \in 1 .. Len(p) - 1 : Front(p)[k] = p[k]
           /\ IsStrictPrefix(Front(p), p)
<1>1. Len(p) \in Nat /\ Len(p) # 0  BY EmptyPath DEF Paths
<1>2. /\ Front(p) \in Paths /\ Len(Front(p)) = Len(p) - 1
      /\ \A k \in 1 .. Len(p) - 1 : Front(p)[k] = p[k]
  <2>1. \A k \in 1 .. Len(p) - 1 : p[k] \in Names  BY <1>1 DEF Paths
  <2> DEFINE n == Len(p) - 1
  <2>2. n \in Nat /\ \A k \in 1 .. n : p[k] \in Names  BY <1>1, <2>1
  <2>3. Front(p) = SubSeq(p, 1, n)  BY DEF Front
  <2> HIDE DEF n
  <2>4. /\ SubSeq(p, 1, n) \in Seq(Names)
        /\ Len(SubSeq(p, 1, n)) = IF 1 <= n THEN n - 1 + 1 ELSE 0
        /\ \A k \in 1 .. n - 1 + 1 : SubSeq(p, 1, n)[k] = p[1 + k - 1]
    BY <2>2, SubSeqProperties
  <2>5. /\ Len(SubSeq(p, 1, n)) = n
        /\ \A k \in 1 .. n : SubSeq(p, 1, n)[k] = p[k]
    BY <2>2, <2>4
  <2> QED  BY <2>3, <2>4, <2>5 DEF n, Paths
<1> QED  BY <1>1, <1>2, PrefixIsPointwise DEF IsStrictPrefix

LEMMA PrefixOfFront ==
    ASSUME NEW p \in Paths, NEW q \in Paths, q # <<>>
    PROVE  IsPrefix(p, Front(q)) <=> IsStrictPrefix(p, q)
<1>1. Len(p) \in Nat /\ Len(q) \in Nat  BY DEF Paths
<1>2. IsPrefix(p, Front(q)) => IsStrictPrefix(p, q)
  BY <1>1, FrontIsPath, PrefixIsPointwise DEF IsStrictPrefix
<1>3. IsStrictPrefix(p, q) => Len(p) < Len(q)  BY PrefixLonger DEF IsStrictPrefix
<1>4. IsStrictPrefix(p, q) => IsPrefix(p, Front(q))
  BY <1>1, <1>3, FrontIsPath, PrefixIsPointwise DEF IsStrictPrefix
<1> QED  BY <1>2, <1>4

LEMMA AncestorsArePrefixes ==
    ASSUME NEW to \in Paths, NEW p
    PROVE  p \in Ancestors(to) <=> p \in Paths /\ IsStrictPrefix(p, to)
<1>1. ASSUME p \in Ancestors(to)  PROVE p \in Paths /\ IsStrictPrefix(p, to)
  <2>1. p \in Paths /\ Len(p) \in 0 .. Len(to) - 1 /\ p = SubSeq(to, 1, Len(p))
    BY <1>1, PrefixLengths DEF Paths
  <2>2. \A k \in 1 .. Len(p) : p[k] = to[k]  BY <2>1, SMTT(60) DEF Paths
  <2> QED  BY <2>1, <2>2, PrefixIsPointwise DEF IsStrictPrefix, Paths
<1>2. ASSUME p \in Paths, IsStrictPrefix(p, to)  PROVE p \in Ancestors(to)
  <2>1. Len(p) \in Nat /\ Len(to) \in Nat /\ Len(p) < Len(to)
    BY <1>2, PrefixLonger DEF IsStrictPrefix, Paths
  <2>2. p = SubSeq(to, 1, Len(p))
    <3>1. SubSeq(p, 1, Len(p)) = p  BY <1>2 DEF Paths
    <3> QED  BY <1>2, <3>1 DEF IsStrictPrefix, IsPrefix
  <2>3. Len(p) \in 0 .. Len(to) - 1  BY <2>1
  <2> QED  BY <2>2, <2>3 DEF Ancestors
<1> QED  BY <1>1, <1>2

LEMMA PrefixOfPath ==
    ASSUME NEW p \in Paths, NEW q, IsPath(q), IsPrefix(p, q)
    PROVE  IsPath(p)
<1>1. NoPath \in Paths /\ TrashPath \in Paths
  BY DEF NoPath, TrashPath, Paths, Names
<1> QED  BY <1>1, PrefixTransitive DEF IsPath, Paths

LEMMA MovedDeeper ==
    ASSUME NEW p \in Paths, NEW from \in Paths, NEW to \in Paths, IsPrefix(from, p)
    PROVE  LET m == Moved(p, from, to) IN
           /\ m \in Paths
           /\ Len(m) = Len(to) + (Len(p) - Len(from))
           /\ \A k \in 1 .. Len(to) + (Len(p) - Len(from)) :
                 m[k] = IF k <= Len(to) THEN to[k] ELSE p[Len(from) + (k - Len(to))]
           /\ IsPrefix(to, m)
           /\ p # from => IsStrictPrefix(to, m)
           /\ p = from => m = to
<1> DEFINE rest == SubSeq(p, Len(from) + 1, Len(p))
<1>1. Len(p) \in Nat /\ Len(from) \in Nat /\ Len(to) \in Nat /\ Len(from) <= Len(p)
  BY PrefixLonger DEF Paths
<1>2. /\ rest \in Paths /\ Len(rest) = Len(p) - Len(from)
      /\ \A k \in 1 .. Len(p) - Len(from) : rest[k] = p[Len(from) + k]
  BY <1>1 DEF Paths
<1>3. Moved(p, from, to) = to \o rest  BY DEF Moved
<1> HIDE DEF rest
<1> DEFINE m == to \o rest
<1>4. /\ m \in Paths /\ Len(m) = Len(to) + Len(rest)
      /\ \A k \in 1 .. Len(to) + Len(rest) :
            m[k] = IF k <= Len(to) THEN to[k] ELSE rest[k - Len(to)]
  BY <1>2, ConcatProperties DEF Paths
<1> HIDE DEF m
<1>5. \A k \in 1 .. Len(to) + (Len(p) - Len(from)) :
            m[k] = IF k <= Len(to) THEN to[k] ELSE p[Len(from) + (k - Len(to))]
  <2> SUFFICES ASSUME NEW k \in 1 .. Len(to) + (Len(p) - Len(from))
               PROVE  m[k] = IF k <= Len(to) THEN to[k] ELSE p[Len(from) + (k - Len(to))]
    OBVIOUS
  <2>1. CASE k <= Len(to)  BY <1>1, <1>2, <1>4, <2>1
  <2>2. CASE ~(k <= Len(to))
    <3>1. k - Len(to) \in 1 .. Len(p) - Len(from)  BY <1>1, <2>2
    <3>2. rest[k - Len(to)] = p[Len(from) + (k - Len(to))]  BY <1>2, <3>1
    <3> QED  BY <1>1, <1>2, <1>4, <2>2, <3>2
  <2> QED  BY <2>1, <2>2
<1>6. IsPrefix(to, m)
  <2>1. Len(to) <= Len(m) /\ \A k \in 1 .. Len(to) : to[k] = m[k]  BY <1>1, <1>2, <1>4, SMTT(60)
  <2> QED  BY <1>4, <2>1, PrefixIsPointwise
<1>7. p # from => Len(from) < Len(p)  BY PrefixLonger
<1>8. p # from => to # m  BY <1>1, <1>2, <1>4, <1>7
<1>9. p = from => m = to
  <2> SUFFICES ASSUME p = from  PROVE m = to
    OBVIOUS
  <2>1. Len(m) = Len(to)  BY <1>1, <1>2, <1>4
  <2>2. \A k \in 1 .. Len(m) : m[k] = to[k]  BY <1>1, <1>2, <1>4, <2>1
  <2> QED  BY <1>4, <2>1, <2>2, PathsEqual
<1>10. Moved(p, from, to) = m  BY <1>3 DEF m
<1> QED
  BY <1>2, <1>4, <1>5, <1>6, <1>8, <1>9, <1>10 DEF IsStrictPrefix

LEMMA FrontOfMoved ==
    ASSUME NEW p \in Paths, NEW from \in Paths, NEW to \in Paths, IsStrictPrefix(from, p)
    PROVE  Front(Moved(p, from, to)) = Moved(Front(p), from, to)
<1>1. Len(p) \in Nat /\ Len(from) \in Nat /\ Len(to) \in Nat /\ Len(from) < Len(p)
  BY PrefixLonger DEF IsStrictPrefix, Paths
<1>2. p # <<>>  BY <1>1 DEF Paths
<1> DEFINE q == Front(p)
<1>3. /\ q \in Paths /\ Len(q) = Len(p) - 1 /\ IsPrefix(from, q)
      /\ \A k \in 1 .. Len(p) - 1 : q[k] = p[k]
  BY <1>2, FrontIsPath, PrefixOfFront
<1> HIDE DEF q
<1> DEFINE m == Moved(p, from, to)  f == Moved(q, from, to)
<1>4. /\ m \in Paths /\ Len(m) = Len(to) + (Len(p) - Len(from))
      /\ \A k \in 1 .. Len(to) + (Len(p) - Len(from)) :
            m[k] = IF k <= Len(to) THEN to[k] ELSE p[Len(from) + (k - Len(to))]
  BY MovedDeeper DEF IsStrictPrefix
<1>5. /\ f \in Paths /\ Len(f) = Len(to) + (Len(q) - Len(from))
      /\ \A k \in 1 .. Len(to) + (Len(q) - Len(from)) :
            f[k] = IF k <= Len(to) THEN to[k] ELSE q[Len(from) + (k - Len(to))]
  BY <1>3, MovedDeeper, ZenonT(60)
<1> HIDE DEF m, f
<1>6. m # <<>>  BY <1>1, <1>4 DEF Paths
<1>7. /\ Front(m) \in Paths /\ Len(Front(m)) = Len(m) - 1
      /\ \A k \in 1 .. Len(m) - 1 : Front(m)[k] = m[k]
  BY <1>4, <1>6, FrontIsPath
<1>8. Len(f) = Len(m) - 1  BY <1>1, <1>3, <1>4, <1>5
<1>9. \A k \in 1 .. Len(m) - 1 : m[k] = f[k]
  <2> SUFFICES ASSUME NEW k \in 1 .. Len(m) - 1  PROVE m[k] = f[k]
    OBVIOUS
  <2>0. /\ k \in 1 .. Len(to) + (Len(p) - Len(from))
        /\ k \in 1 .. Len(to) + (Len(q) - Len(from))
    BY <1>1, <1>3, <1>4
  <2>1. CASE k <= Len(to)  BY <1>4, <1>5, <2>0, <2>1
  <2>2. CASE ~(k <= Len(to))
    <3>1. Len(from) + (k - Len(to)) \in 1 .. Len(p) - 1  BY <1>1, <1>4, <2>2
    <3>2. q[Len(from) + (k - Len(to))] = p[Len(from) + (k - Len(to))]  BY <1>3, <3>1
    <3>3. m[k] = p[Len(from) + (k - Len(to))]  BY <1>1, <1>4, <2>2
    <3>4. f[k] = q[Len(from) + (k - Len(to))]  BY <1>1, <1>3, <1>4, <1>5, <2>2
    <3> QED  BY <3>2, <3>3, <3>4
  <2> QED  BY <2>1, <2>2
<1>10. Front(m) = f  BY <1>5, <1>7, <1>8, <1>9, PathsEqual
<1> QED  BY <1>10 DEF m, f, q

LEMMA MovedIsStrict ==
    ASSUME NEW p \in Paths, NEW from \in Paths, NEW to \in Paths, IsStrictPrefix(from, p)
    PROVE  Moved(p, from, to) \in Paths /\ IsStrictPrefix(to, Moved(p, from, to))
  BY MovedDeeper DEF IsStrictPrefix

-----------------------------------------------------------------------------
(* Who is above and who is below a page.  The climb stops within as many     *)
(* steps as there are documents, so it misses no ancestor.                   *)

Closed(C) == \A j \in C \cap Ids : pages[j].parent \in C

LEMMA ClimbedGrows ==
    ASSUME IsCollection(pages), NEW i \in Ids, NEW climb, climb[0] = {i},
           \A n \in 1 .. Size : climb[n] = Stepped(climb[n - 1])
    PROVE  \A n \in 0 .. Size : /\ climb[n] \subseteq Ids \cup {NoId}
                                /\ Closed(climb[n]) \/ Cardinality(climb[n]) >= n + 1
<1>1. /\ Size \in Nat /\ IsFiniteSet(Ids \cup {NoId}) /\ IsFiniteSet({i})
      /\ \A j \in Ids : pages[j].parent \in Ids \cup {NoId}
  BY IdsAreCounted, FS_Union, FS_Singleton DEF IsCollection, IsDocument, Ids
<1> DEFINE P(n) == /\ climb[n] \subseteq Ids \cup {NoId}
                   /\ Closed(climb[n]) \/ Cardinality(climb[n]) >= n + 1
           S == {n \in 0 .. Size : P(n)}
<1>2. 0 \in S
  <2>1. Cardinality({i}) = 1  BY FS_Singleton
  <2>2. P(0)  BY <2>1
  <2> QED  BY <1>1, <2>2
<1>3. \A n \in 1 .. Size : n - 1 \in S => n \in S
  <2> SUFFICES ASSUME NEW n \in 1 .. Size, P(n - 1)  PROVE P(n)
    OBVIOUS
  <2> DEFINE C == climb[n - 1]  D == climb[n]
  <2>1. D = C \cup {pages[j].parent : j \in C \cap Ids}  BY DEF Stepped
  <2> HIDE DEF C, D
  <2>2. C \subseteq Ids \cup {NoId}  BY DEF C
  <2>3. D \subseteq Ids \cup {NoId}  BY <1>1, <2>1, <2>2
  <2>4. CASE Closed(C)
    <3>1. D = C  BY <2>1, <2>4 DEF Closed
    <3> QED  BY <2>3, <2>4, <3>1 DEF D
  <2>5. CASE ~Closed(C)
    <3>1. PICK p \in D : p \notin C  BY <2>1, <2>5 DEF Closed
    <3>2. IsFiniteSet(C) /\ IsFiniteSet(D)  BY <1>1, <2>2, <2>3, FS_Subset
    <3>3. C \cup {p} \subseteq D /\ IsFiniteSet(C \cup {p})
      BY <2>1, <3>1, <3>2, FS_Subset
    <3>4. Cardinality(C \cup {p}) = Cardinality(C) + 1  BY <3>1, <3>2, FS_AddElement
    <3>5. Cardinality(C \cup {p}) <= Cardinality(D)  BY <3>2, <3>3, FS_Subset
    <3>6. Cardinality(C) \in Nat /\ Cardinality(D) \in Nat  BY <3>2, FS_CardinalityType
    <3>7. Cardinality(C) >= n  BY <2>5 DEF C
    <3> QED  BY <2>3, <3>4, <3>5, <3>6, <3>7 DEF D
  <2> QED  BY <2>4, <2>5
<1>4. S \in SUBSET Nat  OBVIOUS
<1> HIDE DEF S
<1>5. \A n \in 0 .. Size : n \in S  BY <1>1, <1>2, <1>3, <1>4, Induction
<1> QED  BY <1>5 DEF S

LEMMA ClimbedHasParents ==
    ASSUME IsCollection(pages), NEW i \in Ids
    PROVE  Climbed(i) \subseteq Ids \cup {NoId} /\ Closed(Climbed(i))
<1>1. /\ Size \in Nat /\ Size = Cardinality(Ids) /\ IsFiniteSet(Ids \cup {NoId})
      /\ NoId \notin Ids /\ IsFiniteSet(Ids)
      /\ \A j \in Ids : pages[j].parent \in Ids \cup {NoId}
  BY IdsAreCounted, FS_Union, FS_Singleton DEF IsCollection, IsDocument, Ids, Size
<1>2. PICK climb : /\ climb[0] = {i}
                   /\ \A n \in 1 .. Size : climb[n] = Stepped(climb[n - 1])
                   /\ Climbed(i) = climb[Size]
  BY <1>1, ClimbedSteps
<1>3. /\ Climbed(i) \subseteq Ids \cup {NoId}
      /\ Closed(Climbed(i)) \/ Cardinality(Climbed(i)) >= Size + 1
  <2>1. Size \in 0 .. Size  BY <1>1
  <2> QED  BY <1>2, <2>1, ClimbedGrows
<1>4. CASE Cardinality(Climbed(i)) >= Size + 1
  <2>1. Cardinality(Ids \cup {NoId}) = Size + 1  BY <1>1, FS_AddElement
  <2>2. Cardinality(Climbed(i)) <= Cardinality(Ids \cup {NoId}) /\ IsFiniteSet(Climbed(i))
    BY <1>1, <1>3, FS_Subset
  <2>3. Cardinality(Climbed(i)) \in Nat  BY <2>2, FS_CardinalityType
  <2>4. Cardinality(Climbed(i)) = Cardinality(Ids \cup {NoId})
    BY <1>1, <1>4, <2>1, <2>2, <2>3
  <2>5. Climbed(i) = Ids \cup {NoId}  BY <1>1, <1>3, <2>4, FS_Subset
  <2> QED  BY <1>1, <1>3, <2>5 DEF Closed
<1> QED  BY <1>3, <1>4

LEMMA ClimbedIsSet ==
    ASSUME IsCollection(pages), NEW j \in Ids, NEW i \in Ids, pages[j].parent = i
    PROVE  Climbed(i) \subseteq Climbed(j)
<1>1. Size \in Nat  BY IdsAreCounted
<1>2. j \in Climbed(j) /\ Closed(Climbed(j))  BY <1>1, ClimbedHasSelf, ClimbedHasParents
<1> QED  BY <1>1, <1>2, ClimbedIsClosed DEF Closed

(* A page below another one, or below a descendant of it, descends from it.  *)
LEMMA ChildrenDescend ==
    ASSUME IsCollection(pages), NEW i \in Ids, NEW j \in Ids \ {i},
           pages[j].parent \in {i} \cup Descendants(i)
    PROVE  j \in Descendants(i)
<1>1. Size \in Nat  BY IdsAreCounted
<1>2. pages[j].parent \in Ids /\ i \in Climbed(pages[j].parent)
  BY <1>1, ClimbedHasSelf DEF Descendants
<1>3. i \in Climbed(j)  BY <1>2, ClimbedIsSet
<1> QED  BY <1>3 DEF Descendants

LEMMA DescendantsHang ==
    ASSUME IsCollection(pages), NEW i \in Ids, NEW j \in Descendants(i)
    PROVE  pages[j].parent \in {i} \cup Descendants(i)
<1> DEFINE p == pages[j].parent
<1>1. /\ Size \in Nat /\ j \in Ids /\ i \in Climbed(j) /\ i # j /\ NoId \notin Ids
      /\ p \in Ids \cup {NoId}
  BY IdsAreCounted DEF Descendants, IsCollection, IsDocument, Ids
<1>2. CASE p \notin Ids
  <2> DEFINE C == {j, p}
  <2>1. j \in C /\ i \notin C /\ \A k \in C \cap Ids : pages[k].parent \in C  BY <1>1, <1>2
  <2> HIDE DEF C
  <2>2. Climbed(j) \subseteq C  BY <1>1, <2>1, ClimbedIsClosed
  <2> QED  BY <1>1, <2>1, <2>2
<1>3. CASE p \in Ids
  <2>1. p \in Climbed(p) /\ Closed(Climbed(p))
    BY <1>1, <1>3, ClimbedHasSelf, ClimbedHasParents
  <2> DEFINE C == {j} \cup Climbed(p)
  <2>2. j \in C /\ \A k \in C \cap Ids : pages[k].parent \in C
    BY <2>1 DEF Closed
  <2> HIDE DEF C
  <2>3. Climbed(j) \subseteq C  BY <1>1, <2>2, ClimbedIsClosed
  <2> QED  BY <1>1, <1>3, <2>3 DEF Descendants, C
<1> QED  BY <1>2, <1>3

(* All descendants are in a set that has the children of the page and of its *)
(* members.                                                                  *)
LEMMA DescendantsIn ==
    ASSUME IsCollection(pages), NEW i \in Ids, NEW S,
           \A j \in Ids \ {i} : pages[j].parent \in S \cup {i} => j \in S
    PROVE  Descendants(i) \subseteq S
<1> SUFFICES ASSUME NEW j \in Ids \ {i}, i \in Climbed(j), j \notin S
             PROVE  FALSE
  BY DEF Descendants
<1> DEFINE C == (Ids \cup {NoId}) \ (S \cup {i})
<1>1. /\ Size \in Nat
      /\ \A k \in Ids : pages[k].parent \in Ids \cup {NoId}
  BY IdsAreCounted DEF IsCollection, IsDocument, Ids
<1>2. j \in C /\ i \notin C  OBVIOUS
<1>3. \A k \in C \cap Ids : pages[k].parent \in C  BY <1>1
<1> HIDE DEF C
<1>4. Climbed(j) \subseteq C  BY <1>1, <1>2, <1>3, ClimbedIsClosed
<1> QED  BY <1>2, <1>4

(* What is pruned is empty, on the chain, and all that was below goes too.   *)
LEMMA LeafEmptiesAreLeaves ==
    ASSUME IsCollection(pages), NEW p, NEW j \in LeafEmpties(p)
    PROVE  /\ j \in Ids /\ pages[j].kind = "empty" /\ j \in Climbed(p) /\ Found(p)
           /\ \A k \in Ids : pages[k].parent = j => k \in LeafEmpties(p)
<1>1. /\ Found(p) /\ j \in Chain(p)
      /\ \A k \in {j} \cup Descendants(j) : pages[k].kind = "empty" /\ k \in Chain(p)
  BY DEF LeafEmpties
<1>2. j \in Ids /\ j \in Climbed(p)  BY <1>1 DEF Chain, Found
<1> SUFFICES ASSUME NEW k \in Ids, pages[k].parent = j, k # j
             PROVE  k \in LeafEmpties(p)
  BY <1>1, <1>2
<1>3. k \in Descendants(j)  BY <1>2, ChildrenDescend
<1> DEFINE S == {j} \cup Descendants(j)
<1>4. \A m \in Ids \ {k} : pages[m].parent \in S \cup {k} => m \in S
  BY <1>2, <1>3, ChildrenDescend
<1> HIDE DEF S
<1>5. Descendants(k) \subseteq S  BY <1>4, DescendantsIn
<1> QED  BY <1>1, <1>3, <1>5 DEF LeafEmpties, S

-----------------------------------------------------------------------------
(* What keeps operations apart.  A run is open until it records its          *)
(* operation, and holds it from then on.  What is claimed: the paths of the  *)
(* operations that move or remove pages, and of the runs that have passed    *)
(* the check.  A broad claim is to all that is below.                        *)

Open(r) == IsRun(work[r]) /\ Early(work[r].kind, work[r].at)
Holds(r, o) == IsRun(work[r]) /\ Holding(work[r].kind, work[r].at) /\ work[r].op = o
Is(o, ats) == \E r \in Runs : Holds(r, o) /\ work[r].at \in ats

Passed(r) == Open(r) /\ ~On(r, "check") /\ ~Create(r)
Claiming(o) == IF o \in Recorded THEN ops[o].kind # "create" ELSE Passed(o)
Claim(o) == IF o \in Recorded THEN ops[o] ELSE work[o]
Broad(o) == Claiming(o) /\ (o \in Recorded \/ work[o].recursively)
From(o) == Claim(o).copy.path
Renames(o) == Claim(o).kind = "rename"
PathsOf(o) == {Claim(o).copy.path, Claim(o).to} \ {NoPath}
InArea(o, path) == \E p \in PathsOf(o) : IsPrefix(p, path)
Deeper(o) == IsStrictPrefix(Claim(o).copy.path, Claim(o).to)

MainAts == RenameMain \cup {"cleanup"}

CopyFits(copy) == IsPath(copy.path) /\ copy.path # <<>> /\ copy.parent # NoId

RunFits(r, w) ==
    /\ w.kind = "rename" => w.recursively = TRUE /\ (w.at \in MainAts => w.op = r)
    /\ w.kind \in {"delete", "erase"} =>
          /\ w.to = NoPath
          /\ w.at \in {"recordDelete", "stream", "batch", "done", "cleanup"} => w.recursively
          /\ w.at \in {"replace", "adopt"} => ~w.recursively
    /\ w.kind # "create" => CopyFits(w.copy)
    /\ w.kind = "delete" => w.at # "erase"
    /\ w.kind = "erase" => w.at \notin {"trash", "signpost"}

OpFits(op) ==
    /\ op.from = op.copy.path
    /\ op.kind # "rename" => op.to = NoPath
    /\ op.kind # "create" => CopyFits(op.copy)

RunsFit ==
    /\ \A r \in Runs : IsRun(work[r]) => up /\ RunFits(r, work[r])
    /\ \A o \in Recorded : OpFits(ops[o])

OneOpen == \A r, s \in Runs : Open(r) /\ Open(s) => r = s
OneHolds == \A o, r, s \in Runs : Holds(r, o) /\ Holds(s, o) => r = s

Agrees(r, o) ==
    /\ o \in Recorded
    /\ ops[o].kind = work[r].kind /\ ops[o].copy = work[r].copy /\ ops[o].id = work[r].id
    /\ work[r].kind = "rename" =>
          /\ ops[o].to = work[r].to
          /\ ops[o].stage = "Main" <=> work[r].at \in MainAts
Agreed == \A r, o \in Runs : Holds(r, o) => Agrees(r, o)

SeenShrinks == \A r \in Runs : Open(r) /\ On(r, "check") => Recorded \subseteq work[r].seen

Apart ==
    \A o, q \in Runs : o # q /\ Broad(o) /\ Broad(q) => \A p \in PathsOf(o) : ~InArea(q, p)

Outside ==
    \A r, o \in Runs : Broad(o) =>
        /\ Open(r) /\ Create(r) => ~InArea(o, work[r].to)
        /\ Passed(r) /\ ~work[r].recursively => ~InArea(o, work[r].copy.path)

DeeperHeld ==
    \A o \in Recorded : Renames(o) /\ ops[o].stage = "Sub" /\ Deeper(o) =>
        \E r \in Runs : Holds(r, o)

Ordered ==
    /\ RunsFit /\ OneOpen /\ OneHolds /\ Agreed /\ SeenShrinks /\ Apart /\ Outside
    /\ DeeperHeld

-----------------------------------------------------------------------------
(* Steps that claim nothing new. *)

SameClaim(v, w) ==
    w.kind = v.kind /\ w.copy = v.copy /\ w.id = v.id /\ w.to = v.to

Others(r) ==
    /\ \A s \in Runs \ {r} : work'[s] = work[s]
    /\ up' = up

(* No claim is new or wider or another one. *)
Settled ==
    \A o \in Runs :
        /\ Claiming(o)' => Claiming(o) /\ SameClaim(Claim(o), Claim(o)')
        /\ Broad(o)' => Broad(o)

LEMMA SettledPaths ==
    ASSUME Settled, NEW o \in Runs, Broad(o)'
    PROVE  /\ Broad(o) /\ PathsOf(o)' = PathsOf(o) /\ \A path : InArea(o, path)' <=> InArea(o, path)
           /\ From(o)' = From(o) /\ (Deeper(o)' <=> Deeper(o)) /\ (Renames(o)' <=> Renames(o))
<1>1. Broad(o) /\ SameClaim(Claim(o), Claim(o)')  BY DEF Settled, Broad
<1>2. Claim(o).copy' = Claim(o).copy /\ Claim(o).to' = Claim(o).to /\ Claim(o).kind' = Claim(o).kind
  BY <1>1 DEF SameClaim
<1>3. PathsOf(o)' = PathsOf(o)  BY <1>2 DEF PathsOf
<1> QED  BY <1>1, <1>2, <1>3 DEF InArea, From, Deeper, Renames

LEMMA ApartStays ==
    ASSUME Apart, Settled
    PROVE  Apart'
<1> SUFFICES ASSUME NEW o \in Runs, NEW q \in Runs, o # q, Broad(o)', Broad(q)',
                    NEW p \in PathsOf(o)'
             PROVE  ~InArea(q, p)'
  BY DEF Apart
<1>1. Broad(o) /\ Broad(q) /\ p \in PathsOf(o) /\ (InArea(q, p)' <=> InArea(q, p))
  BY SettledPaths
<1> QED  BY <1>1 DEF Apart

(* Who is open was open, with the same claim and path.                       *)
NoneOpens ==
    \A r \in Runs : Open(r)' =>
        /\ Open(r) /\ work'[r].kind = work[r].kind /\ work'[r].to = work[r].to
        /\ work'[r].recursively = work[r].recursively
        /\ work[r].kind # "create" => work'[r].copy = work[r].copy
        /\ (On(r, "check")' <=> On(r, "check")) /\ work'[r].seen = work[r].seen

LEMMA OutsideStays ==
    ASSUME Outside, Settled, NoneOpens
    PROVE  Outside'
<1> SUFFICES ASSUME NEW r \in Runs, NEW o \in Runs, Broad(o)', Open(r)'
             PROVE  (/\ Create(r) => ~InArea(o, work[r].to)
                     /\ Passed(r) /\ ~work[r].recursively => ~InArea(o, work[r].copy.path))'
  BY DEF Outside, Passed
<1>1. Broad(o) /\ \A path : InArea(o, path)' <=> InArea(o, path)
  BY SettledPaths
<1>2. /\ Open(r) /\ work'[r].kind = work[r].kind /\ work'[r].to = work[r].to
      /\ work'[r].recursively = work[r].recursively
      /\ work[r].kind # "create" => work'[r].copy = work[r].copy
      /\ On(r, "check")' <=> On(r, "check")
  BY DEF NoneOpens
<1>3. Create(r)' => ~InArea(o, work[r].to)  BY <1>1, <1>2 DEF Outside, Create
<1>4. Passed(r)' /\ ~work[r].recursively => ~InArea(o, work[r].copy.path)
  BY <1>1, <1>2 DEF Outside, Passed, Create
<1> QED  BY <1>1, <1>2, <1>3, <1>4 DEF Passed, Create

LEMMA OneOpenStays ==
    ASSUME OneOpen, NoneOpens
    PROVE  OneOpen'
  BY DEF OneOpen, NoneOpens

LEMMA SeenStays ==
    ASSUME SeenShrinks, NoneOpens, Recorded' \subseteq Recorded
    PROVE  SeenShrinks'
  BY DEF SeenShrinks, NoneOpens

(* The operations stay, but for their expiry dates.                          *)
Alike(op, new) ==
    /\ new.kind = op.kind /\ new.copy = op.copy /\ new.id = op.id /\ new.to = op.to
    /\ new.from = op.from /\ new.stage = op.stage

OpsStay == Recorded' = Recorded /\ \A o \in Recorded : Alike(ops[o], ops'[o])

(* A run goes on, before or after its operation is recorded.                 *)
GoesOn(r) ==
    /\ IsRun(work[r]) /\ IsRun(work'[r]) /\ Others(r) /\ OpsStay
    /\ work'[r].kind = work[r].kind /\ work'[r].op = work[r].op
    /\ work'[r].to = work[r].to /\ work'[r].recursively = work[r].recursively
    /\ work'[r].seen = work[r].seen
    /\ \/ work'[r].copy = work[r].copy /\ work'[r].id = work[r].id
       \/ work[r].kind = "create" /\ Early(work[r].kind, work[r].at)
    /\ Early(work[r].kind, work'[r].at) => Early(work[r].kind, work[r].at)
    /\ Holding(work[r].kind, work[r].at) <=> Holding(work[r].kind, work'[r].at)
    /\ work[r].kind = "rename" => (work[r].at \in MainAts <=> work'[r].at \in MainAts)
    /\ work[r].at # "check" /\ work'[r].at # "check"
    /\ RunFits(r, work'[r])

LEMMA GoingOnSettles ==
    ASSUME Held, NEW r \in Runs, GoesOn(r)
    PROVE  Settled /\ NoneOpens /\ Recorded' = Recorded
           /\ \A s, o \in Runs : Holds(s, o)' <=> Holds(s, o)
<1>1. Recorded' = Recorded /\ \A o \in Recorded : Alike(ops[o], ops'[o])
  BY DEF GoesOn, OpsStay
<1>2. ASSUME NEW s \in Runs, Open(s)'
      PROVE  /\ Open(s) /\ work'[s].kind = work[s].kind /\ work'[s].to = work[s].to
             /\ work'[s].recursively = work[s].recursively
             /\ work[s].kind # "create" => work'[s].copy = work[s].copy /\ work'[s].id = work[s].id
             /\ (On(s, "check")' <=> On(s, "check")) /\ work'[s].seen = work[s].seen
  <2>1. CASE s = r
    <3>1. Early(work[r].kind, work'[r].at)  BY <1>2, <2>1 DEF Open, GoesOn
    <3> QED  BY <2>1, <3>1 DEF Open, GoesOn, On
  <2>2. CASE s # r  BY <1>2, <2>2 DEF Open, GoesOn, Others, On
  <2> QED  BY <2>1, <2>2
<1>3. NoneOpens  BY <1>2 DEF NoneOpens
<1>4. Settled
  <2> SUFFICES ASSUME NEW o \in Runs, Claiming(o)'
               PROVE  /\ Claiming(o) /\ SameClaim(Claim(o), Claim(o)')
                      /\ Broad(o)' => Broad(o)
    BY DEF Settled, Broad
  <2>1. CASE o \in Recorded
    BY <1>1, <2>1 DEF Claiming, Claim, Broad, SameClaim, Alike
  <2>2. CASE o \notin Recorded
    <3>1. Passed(o)'  BY <1>1, <2>2 DEF Claiming
    <3>2. Passed(o) /\ SameClaim(work[o], work'[o]) /\ work'[o].recursively = work[o].recursively
      BY <1>2, <3>1 DEF Passed, Create, SameClaim
    <3> QED  BY <1>1, <2>2, <3>2 DEF Claiming, Claim, Broad, SameClaim
  <2> QED  BY <2>1, <2>2
<1>5. \A s, o \in Runs : Holds(s, o)' <=> Holds(s, o)
  BY DEF GoesOn, Others, Holds
<1> QED  BY <1>1, <1>3, <1>4, <1>5

LEMMA GoingOnKeepsOrder ==
    ASSUME Held, Ordered, NEW r \in Runs, GoesOn(r)
    PROVE  Ordered'
<1>1. /\ Settled /\ NoneOpens /\ Recorded' = Recorded
      /\ \A s, o \in Runs : Holds(s, o)' <=> Holds(s, o)
      /\ \A o \in Recorded : Alike(ops[o], ops'[o])
  BY GoingOnSettles DEF GoesOn, OpsStay
<1>2. RunsFit'
  <2>1. \A s \in Runs : IsRun(work'[s]) => up' /\ RunFits(s, work'[s])
    BY DEF GoesOn, Others, Ordered, RunsFit
  <2> QED  BY <1>1, <2>1 DEF Ordered, RunsFit, OpFits, Alike
<1>3. OneHolds'  BY <1>1 DEF Ordered, OneHolds
<1>4. Agreed'
  <2> SUFFICES ASSUME NEW s \in Runs, NEW o \in Runs, Holds(s, o)'  PROVE Agrees(s, o)'
    BY DEF Agreed
  <2>1. Holds(s, o) /\ Agrees(s, o)  BY <1>1 DEF Ordered, Agreed
  <2>2. CASE s # r
    BY <1>1, <2>1, <2>2 DEF Agrees, GoesOn, Others, Alike
  <2>3. CASE s = r
    <3>1. ~(work[r].kind = "create" /\ Early(work[r].kind, work[r].at))
      BY <2>1, <2>3 DEF Holds, Early, Holding
    <3> QED  BY <1>1, <2>1, <2>3, <3>1 DEF Agrees, GoesOn, Alike
  <2> QED  BY <2>2, <2>3
<1>5. DeeperHeld'
  <2> SUFFICES ASSUME NEW o \in Recorded', Renames(o)', ops'[o].stage = "Sub", Deeper(o)'
               PROVE  \E s \in Runs : Holds(s, o)'
    BY DEF DeeperHeld
  <2>1. o \in Recorded /\ Alike(ops[o], ops'[o]) /\ o \in Runs  BY <1>1 DEF Recorded
  <2>2. Renames(o) /\ Deeper(o) /\ ops[o].stage = "Sub"
    BY <1>1, <2>1 DEF Renames, Deeper, Claim, Alike
  <2> QED  BY <1>1, <2>1, <2>2 DEF Ordered, DeeperHeld
<1>6. OneOpen' /\ SeenShrinks' /\ Apart' /\ Outside'
  BY <1>1, OneOpenStays, SeenStays, ApartStays, OutsideStays DEF Ordered
<1> QED  BY <1>2, <1>3, <1>4, <1>5, <1>6 DEF Ordered

-----------------------------------------------------------------------------
(* A run ends or goes on to recount; its operation may be deleted.           *)

Leaves(r) ==
    /\ IsRun(work[r]) /\ Others(r)
    /\ \/ work'[r] = Over
       \/ /\ IsRun(work'[r]) /\ Late(work'[r].kind, work'[r].at)
          /\ RunFits(r, work'[r])
    /\ \/ ops' = ops
       \/ /\ Holding(work[r].kind, work[r].at)
          /\ ops' = [ops EXCEPT ![work[r].op] = NoOp]

LEMMA LeavingSettles ==
    ASSUME Held, NEW r \in Runs, Leaves(r)
    PROVE  /\ Settled /\ NoneOpens /\ Recorded' \subseteq Recorded
           /\ \A o \in Recorded' : ops'[o] = ops[o]
           /\ \A s, o \in Runs : Holds(s, o)' => Holds(s, o) /\ s # r
           /\ \A s, o \in Runs : Holds(s, o) /\ s # r => Holds(s, o)'
<1>1. Recorded' \subseteq Recorded /\ \A o \in Recorded' : ops'[o] = ops[o]
  BY DEF Leaves, Recorded, Held
<1>2. ~IsRun(Over) /\ \A kind, at : Late(kind, at) => ~Early(kind, at) /\ ~Holding(kind, at)
  BY RunIsNeither DEF Late, Early, Holding
<1>3. \A s \in Runs : Open(s)' => Open(s) /\ s # r /\ work'[s] = work[s]
  BY <1>2 DEF Leaves, Others, Open
<1>4. NoneOpens  BY <1>3 DEF NoneOpens, On
<1>5. ASSUME NEW o \in Runs, Claiming(o)'
      PROVE  /\ Claiming(o) /\ SameClaim(Claim(o), Claim(o)')
             /\ Broad(o)' => Broad(o)
  <2>1. CASE o \in Recorded'
    BY <1>1, <1>5, <2>1 DEF Claiming, Claim, Broad, SameClaim
  <2>2. CASE o \notin Recorded'
    <3>1. Passed(o)'  BY <1>5, <2>2 DEF Claiming
    <3>2. Passed(o) /\ work'[o] = work[o]  BY <1>3, <3>1 DEF Passed, On, Create
    <3>3. o \notin Recorded  BY <3>2 DEF Held, NotYet, Passed, Open
    <3> QED  BY <2>2, <3>2, <3>3 DEF Claiming, Claim, Broad, SameClaim
  <2> QED  BY <2>1, <2>2
<1>6. Settled  BY <1>5 DEF Settled, Broad
<1>7. \A s, o \in Runs : Holds(s, o)' <=> Holds(s, o) /\ s # r
  BY <1>2 DEF Leaves, Others, Holds
<1> QED  BY <1>1, <1>4, <1>6, <1>7

LEMMA LeavingKeepsOrder ==
    ASSUME Held, Ordered, NEW r \in Runs, Leaves(r),
           \A o \in Recorded' : ~(/\ Holds(r, o) /\ Renames(o)
                                  /\ ops[o].stage = "Sub" /\ Deeper(o))
    PROVE  Ordered'
<1>1. /\ Settled /\ NoneOpens /\ Recorded' \subseteq Recorded
      /\ \A o \in Recorded' : ops'[o] = ops[o]
      /\ \A s, o \in Runs : Holds(s, o)' => Holds(s, o) /\ s # r
      /\ \A s, o \in Runs : Holds(s, o) /\ s # r => Holds(s, o)'
  BY LeavingSettles
<1>2. RunsFit'
  <2>1. \A s \in Runs : IsRun(work'[s]) => up' /\ RunFits(s, work'[s])
    BY RunIsNeither DEF Leaves, Others, Ordered, RunsFit
  <2> QED  BY <1>1, <2>1 DEF Ordered, RunsFit
<1>3. OneHolds'  BY <1>1 DEF Ordered, OneHolds
<1>4. Agreed'
  <2> SUFFICES ASSUME NEW s \in Runs, NEW o \in Runs, Holds(s, o)'  PROVE Agrees(s, o)'
    BY DEF Agreed
  <2>1. Holds(s, o) /\ s # r /\ Agrees(s, o) /\ work'[s] = work[s]
    BY <1>1 DEF Ordered, Agreed, Leaves, Others
  <2>2. o \in Recorded'
    <3>1. work[s].op = o /\ o \in Recorded  BY <2>1 DEF Holds, Agrees
    <3>2. CASE ops' = ops  BY <3>1, <3>2 DEF Recorded
    <3>3. CASE Holds(r, work[r].op) /\ ops' = [ops EXCEPT ![work[r].op] = NoOp]
      <4>1. work[r].op \in Runs  BY DEF Leaves, IsRun
      <4>2. work[r].op # o  BY <2>1, <3>3, <4>1 DEF Ordered, OneHolds
      <4> QED  BY <3>1, <3>3, <4>2 DEF Recorded, Held
    <3> QED  BY <3>2, <3>3 DEF Leaves, Holds
  <2> QED  BY <1>1, <2>1, <2>2 DEF Agrees
<1>5. DeeperHeld'
  <2> SUFFICES ASSUME NEW o \in Recorded', Renames(o)', ops'[o].stage = "Sub", Deeper(o)'
               PROVE  \E s \in Runs : Holds(s, o)'
    BY DEF DeeperHeld
  <2>1. o \in Recorded /\ ops'[o] = ops[o] /\ o \in Runs  BY <1>1 DEF Recorded
  <2>2. Renames(o) /\ Deeper(o)  BY <2>1 DEF Renames, Deeper, Claim
  <2>3. PICK s \in Runs : Holds(s, o)  BY <2>1, <2>2 DEF Ordered, DeeperHeld
  <2> QED  BY <1>1, <2>1, <2>2, <2>3
<1>6. OneOpen' /\ SeenShrinks' /\ Apart' /\ Outside'
  BY <1>1, OneOpenStays, SeenStays, ApartStays, OutsideStays DEF Ordered
<1> QED  BY <1>2, <1>3, <1>4, <1>5, <1>6 DEF Ordered

LEMMA ThrowingKeepsOrder ==
    ASSUME Held, Ordered, NEW r \in Runs, IsRun(work[r]), Throw(r), up' = up,
           ~history'.damaged
    PROVE  Ordered' /\ Settled /\ NoneOpens /\ (GoesOn(r) \/ (Leaves(r) /\ ops' = ops))
<1>1. Others(r)  BY DEF Throw, Go, End, Others, Held, WorkShape
<1>2. CASE Cleaned(r)
  <2>1. work'[r] = [work[r] EXCEPT !.at = "cleanup"]
    BY <1>2 DEF Throw, Go, Held, WorkShape
  <2>2. /\ HasFields(work'[r]) /\ work'[r].at = "cleanup"
        /\ work'[r].kind = work[r].kind /\ work'[r].op = work[r].op
        /\ work'[r].to = work[r].to /\ work'[r].recursively = work[r].recursively
        /\ work'[r].seen = work[r].seen /\ work'[r].resumed = work[r].resumed
        /\ work'[r].copy = work[r].copy /\ work'[r].id = work[r].id
    BY <2>1 DEF IsRun, HasFields
  <2>3. Holding(work[r].kind, work[r].at) /\ work[r].kind \in {"rename", "delete", "erase"}
    BY <1>2 DEF Cleaned, Rename, Removes, Delete, Erase, RenameMain, Holding, IsRun, Late,
          Held, NotYet
  <2>4. /\ Holding(work[r].kind, "cleanup") /\ ~Early(work[r].kind, "cleanup")
        /\ work[r].at # "check"
        /\ work[r].kind = "rename" => work[r].at \in MainAts
    BY <1>2, <2>3 DEF Holding, Early, Cleaned, Rename, Removes, Delete, Erase, MainAts
  <2>5. RunFits(r, work'[r])
    <3>1. RunFits(r, work[r])  BY DEF Ordered, RunsFit
    <3>2. work[r].kind \in {"delete", "erase"} =>
              work[r].at \in {"recordDelete", "stream", "batch", "done", "cleanup"}
      BY <2>3 DEF Holding
    <3> QED  BY <2>2, <2>4, <3>1, <3>2 DEF RunFits
  <2>6. IsRun(work'[r])  BY <2>2, <2>4 DEF IsRun
  <2>7. OpsStay  BY DEF Throw, OpsStay, Recorded, Alike
  <2>8. GoesOn(r)
    BY <1>1, <2>2, <2>3, <2>4, <2>5, <2>6, <2>7 DEF GoesOn, MainAts
  <2> QED  BY <2>8, GoingOnKeepsOrder, GoingOnSettles
<1>3. CASE ~Cleaned(r)
  <2>1. work'[r] = Over /\ ops' = ops  BY <1>3 DEF Throw, End, Held, WorkShape
  <2>2. Leaves(r)  BY <1>1, <2>1 DEF Leaves
  <2>3. ASSUME NEW o \in Recorded', Holds(r, o), Renames(o), ops[o].stage = "Sub", Deeper(o)
        PROVE  FALSE
    <3>1. o \in Recorded /\ o \in Runs  BY <2>1 DEF Recorded
    <3>2. Agrees(r, o)  BY <2>3, <3>1 DEF Ordered, Agreed
    <3>3. /\ work[r].kind = "rename" /\ work[r].op = o /\ work[r].at \notin MainAts
          /\ IsStrictPrefix(work[r].copy.path, work[r].to)
      BY <2>3, <3>1, <3>2 DEF Agrees, Renames, Deeper, Claim, Holds
    <3>4. Dirty(r)
      BY <3>1, <3>3 DEF Dirty, Rename, On, UnderTarget, MainAts, RenameMain
    <3> QED  BY <3>4 DEF Throw, Held, HasHistory
  <2>4. Ordered'  BY <2>2, <2>3, LeavingKeepsOrder
  <2> QED  BY <2>1, <2>2, <2>4, LeavingSettles
<1> QED  BY <1>2, <1>3

-----------------------------------------------------------------------------
(* A run records its operation, with the claim it has made.                  *)

Notes(r) ==
    /\ IsRun(work[r]) /\ IsRun(work'[r]) /\ Others(r)
    /\ Early(work[r].kind, work[r].at) /\ work[r].at # "check"
    /\ Holding(work[r].kind, work'[r].at)
    /\ work'[r].kind = work[r].kind /\ work'[r].op = work[r].op /\ work'[r].to = work[r].to
    /\ work'[r].copy = work[r].copy /\ work'[r].id = work[r].id
    /\ \A o \in Runs \ {r} : ops'[o] = ops[o]
    /\ r \in Recorded' /\ OpFits(ops'[r]) /\ Agrees(r, r)'
    /\ work[r].kind # "create" => work[r].recursively
    /\ work[r].kind # "create" => ops'[r].to = work[r].to
    /\ RunFits(r, work'[r])

LEMMA NotingSettles ==
    ASSUME Held, NEW r \in Runs, Notes(r)
    PROVE  /\ Settled /\ NoneOpens
           /\ r \notin Recorded /\ work[r].op = r /\ Recorded' = Recorded \cup {r}
           /\ \A s, o \in Runs : Holds(s, o)' <=> Holds(s, o) \/ (s = r /\ o = r)
<1>1. r \notin Recorded /\ work[r].op = r  BY DEF Held, NotYet, Notes
<1>2. Recorded' = Recorded \cup {r}  BY DEF Recorded, Notes
<1>3. ~Early(work[r].kind, work'[r].at) /\ ~Holding(work[r].kind, work[r].at)
  BY PhasesDiffer DEF Notes
<1>4. \A s \in Runs : Open(s)' => Open(s) /\ s # r /\ work'[s] = work[s]
  BY <1>3 DEF Notes, Others, Open
<1>5. NoneOpens  BY <1>4 DEF NoneOpens, On
<1>6. ASSUME NEW o \in Runs, Claiming(o)'
      PROVE  /\ Claiming(o) /\ SameClaim(Claim(o), Claim(o)')
             /\ Broad(o)' => Broad(o)
  <2>1. CASE o = r
    <3>1. ops'[r].kind # "create"  BY <1>2, <1>6, <2>1 DEF Claiming
    <3>2. /\ work[r].kind # "create" /\ ops'[r].kind = work[r].kind
          /\ ops'[r].copy = work[r].copy /\ ops'[r].id = work[r].id /\ ops'[r].to = work[r].to
      BY <3>1 DEF Notes, Agrees
    <3>3. Passed(r) /\ work[r].recursively
      BY <3>2 DEF Notes, Passed, Open, On, Create
    <3> QED  BY <1>1, <1>2, <2>1, <3>2, <3>3 DEF Claiming, Claim, Broad, SameClaim
  <2>2. CASE o # r /\ o \in Recorded
    BY <1>2, <1>6, <2>2 DEF Claiming, Claim, Broad, SameClaim, Notes
  <2>3. CASE o # r /\ o \notin Recorded
    <3>1. Passed(o)'  BY <1>2, <1>6, <2>3 DEF Claiming
    <3>2. Passed(o) /\ work'[o] = work[o]  BY <1>4, <3>1 DEF Passed, On, Create
    <3> QED  BY <1>2, <2>3, <3>2 DEF Claiming, Claim, Broad, SameClaim
  <2> QED  BY <2>1, <2>2, <2>3
<1>7. Settled  BY <1>6 DEF Settled, Broad
<1>8. \A s, o \in Runs : Holds(s, o)' <=> Holds(s, o) \/ (s = r /\ o = r)
  BY <1>1, <1>3 DEF Notes, Others, Holds
<1> QED  BY <1>1, <1>2, <1>5, <1>7, <1>8

LEMMA NotingKeepsOrder ==
    ASSUME Held, Ordered, NEW r \in Runs, Notes(r)
    PROVE  Ordered'
<1>1. /\ Settled /\ NoneOpens
      /\ r \notin Recorded /\ work[r].op = r /\ Recorded' = Recorded \cup {r}
      /\ \A s, o \in Runs : Holds(s, o)' <=> Holds(s, o) \/ (s = r /\ o = r)
      /\ \A o \in Runs \ {r} : ops'[o] = ops[o]
  BY NotingSettles DEF Notes
<1>2. \A s, o \in Runs : Holds(s, o) => o \in Recorded /\ o # r /\ Agrees(s, o)
  BY <1>1 DEF Ordered, Agreed, Agrees
<1>3. RunsFit'
  <2>1. \A s \in Runs : IsRun(work'[s]) => up' /\ RunFits(s, work'[s])
    BY DEF Notes, Others, Ordered, RunsFit
  <2>2. \A o \in Recorded : o \in Runs /\ o # r  BY <1>1 DEF Recorded
  <2> QED  BY <1>1, <2>1, <2>2 DEF Ordered, RunsFit, Notes
<1>4. OneHolds'  BY <1>1, <1>2 DEF Ordered, OneHolds
<1>5. Agreed'
  <2> SUFFICES ASSUME NEW s \in Runs, NEW o \in Runs, Holds(s, o)'  PROVE Agrees(s, o)'
    BY DEF Agreed
  <2>1. CASE s = r /\ o = r  BY <2>1 DEF Notes
  <2>2. CASE Holds(s, o)
    <3>1. s # r  BY <2>2, PhasesDiffer DEF Holds, Notes
    <3> QED  BY <1>1, <1>2, <2>2, <3>1 DEF Agrees, Notes, Others
  <2> QED  BY <1>1, <2>1, <2>2
<1>6. SeenShrinks'
  <2> SUFFICES ASSUME NEW s \in Runs, Open(s)', On(s, "check")'
               PROVE  Recorded' \subseteq work'[s].seen
    BY DEF SeenShrinks
  <2>1. Open(s) /\ Open(r)  BY <1>1 DEF NoneOpens, Notes, Open
  <2>2. s = r  BY <2>1 DEF Ordered, OneOpen
  <2>3. ~Early(work'[r].kind, work'[r].at)  BY PhasesDiffer DEF Notes
  <2> QED  BY <2>2, <2>3 DEF Open
<1>7. DeeperHeld'
  <2> SUFFICES ASSUME NEW o \in Recorded', Renames(o)', ops'[o].stage = "Sub", Deeper(o)'
               PROVE  \E s \in Runs : Holds(s, o)'
    BY DEF DeeperHeld
  <2>1. CASE o = r  BY <1>1, <2>1
  <2>2. CASE o # r
    <3>1. o \in Recorded /\ o \in Runs /\ ops'[o] = ops[o]  BY <1>1, <2>2 DEF Recorded
    <3>2. Renames(o) /\ Deeper(o)  BY <3>1 DEF Renames, Deeper, Claim
    <3> QED  BY <1>1, <3>1, <3>2 DEF Ordered, DeeperHeld
  <2> QED  BY <2>1, <2>2
<1>8. OneOpen' /\ Apart' /\ Outside'
  BY <1>1, OneOpenStays, ApartStays, OutsideStays DEF Ordered
<1> QED  BY <1>3, <1>4, <1>5, <1>6, <1>7, <1>8 DEF Ordered

-----------------------------------------------------------------------------
(* Which steps only go on.  What a run claims stays.                         *)
Unmoved(v, w) ==
    /\ HasFields(w)
    /\ w.kind = v.kind /\ w.op = v.op /\ w.to = v.to /\ w.recursively = v.recursively
    /\ w.seen = v.seen /\ w.resumed = v.resumed /\ w.copy = v.copy /\ w.id = v.id

Passage(kind, recursively, from, to) ==
    /\ from # "check" /\ to # "check"
    /\ Early(kind, from) <=> Early(kind, to)
    /\ Holding(kind, from) <=> Holding(kind, to)
    /\ Late(kind, from) <=> Late(kind, to)
    /\ kind = "rename" => (from \in MainAts <=> to \in MainAts)
    /\ to = "recordDelete" => recursively
    /\ to \in {"replace", "adopt"} => from = "replace"
    /\ kind = "delete" /\ to = "erase" => from = "erase"
    /\ kind = "erase" /\ to \in {"trash", "signpost"} => from = "trash"

LEMMA UnmovedGoes ==
    ASSUME Held, Ordered, NEW r \in Runs, IsRun(work[r]), Moves(r),
           Unmoved(work[r], work'[r]), UNCHANGED <<ops, up>>,
           Passage(work[r].kind, work[r].recursively, work[r].at, work'[r].at)
    PROVE  GoesOn(r)
<1>1. Others(r)  BY DEF Held, WorkShape, Moves, Others
<1>2. RunFits(r, work[r])  BY DEF Ordered, RunsFit
<1>3. IsRun(work'[r])  BY DEF IsRun, Unmoved, Passage
<1>5. RunFits(r, work'[r])
  <2>1. work[r].kind \in {"delete", "erase"} /\ Holding(work[r].kind, work'[r].at) =>
            work[r].recursively
    BY <1>2 DEF RunFits, Holding, Passage
  <2>2. work[r].kind \in {"delete", "erase"} /\ work'[r].at \in {"stream", "batch", "done", "cleanup"}
            => Holding(work[r].kind, work'[r].at)
    BY DEF Holding
  <2> QED  BY <1>2, <2>1, <2>2 DEF RunFits, Unmoved, Passage
<1>4. OpsStay  BY DEF OpsStay, Recorded, Alike
<1> QED  BY <1>1, <1>3, <1>4, <1>5 DEF GoesOn, Unmoved, Passage

LEMMA GoGoes ==
    ASSUME Held, Ordered, NEW r \in Runs, IsRun(work[r]), NEW at, Go(r, at),
           UNCHANGED <<ops, up>>,
           Passage(work[r].kind, work[r].recursively, work[r].at, at)
    PROVE  GoesOn(r) /\ Unmoved(work[r], work'[r]) /\ work'[r].at = at
<1>1. Moves(r) /\ work'[r] = [work[r] EXCEPT !.at = at]
  BY DEF Held, WorkShape, Go, Moves
<1>2. Unmoved(work[r], work'[r]) /\ work'[r].at = at
  BY <1>1 DEF IsRun, HasFields, Unmoved
<1> QED  BY <1>1, <1>2, UnmovedGoes

LEMMA InsertGoes ==
    ASSUME Held, Ordered, NEW r \in Runs, Insert(r)
    PROVE  GoesOn(r)
<1>1. IsRun(work[r]) /\ work[r].at = "insert"  BY RunsAreRuns DEF Held, Insert, On
<1>2. /\ Moves(r) /\ UNCHANGED <<ops, up>>
      /\ work'[r] = [work[r] EXCEPT !.at = "link", !.todo = {}]
  BY <1>1 DEF Held, WorkShape, Moves, Insert, Unchanged
<1>3. Unmoved(work[r], work'[r]) /\ work'[r].at = "link"
  BY <1>1, <1>2 DEF IsRun, HasFields, Unmoved
<1>4. Passage(work[r].kind, work[r].recursively, "insert", "link")
  BY <1>1 DEF IsRun, Early, Holding, Late, Passage, MainAts, RenameMain
<1> QED  BY <1>1, <1>2, <1>3, <1>4, UnmovedGoes

LEMMA PlantGoes ==
    ASSUME Held, Ordered, NEW r \in Runs, Plant(r)
    PROVE  GoesOn(r)
<1>1. IsRun(work[r]) /\ work[r].at = "plant"  BY RunsAreRuns DEF Held, Plant, On
<1>2. /\ Moves(r) /\ UNCHANGED <<ops, up>>
      /\ work'[r] = [work[r] EXCEPT !.at = "graft",
          !.ids = NewId(0) .. NewId(Cardinality(Plants(r)) - 1)]
  BY <1>1 DEF Held, WorkShape, Moves, Plant, Unchanged
<1>3. Unmoved(work[r], work'[r]) /\ work'[r].at = "graft"
  BY <1>1, <1>2 DEF IsRun, HasFields, Unmoved
<1>4. Passage(work[r].kind, work[r].recursively, "plant", "graft")
  BY <1>1 DEF IsRun, Early, Holding, Late, Passage, MainAts, RenameMain
<1> QED  BY <1>1, <1>2, <1>3, <1>4, UnmovedGoes

LEMMA GraftGoes ==
    ASSUME Held, Ordered, NEW r \in Runs, Graft(r)
    PROVE  GoesOn(r)
<1>1. IsRun(work[r]) /\ work[r].at = "graft"  BY RunsAreRuns DEF Held, Graft, On, Stale
<1>2. /\ Moves(r) /\ UNCHANGED <<ops, up>>
      /\ work'[r] = [work[r] EXCEPT !.at = "put",
          !.parent = Earliest(work[r].ids) + Cardinality(work[r].ids) - 1, !.ids = {}]
  BY <1>1 DEF Held, WorkShape, Moves, Graft, Unchanged, Stale
<1>3. Unmoved(work[r], work'[r]) /\ work'[r].at = "put"
  BY <1>1, <1>2 DEF IsRun, HasFields, Unmoved
<1>4. Passage(work[r].kind, work[r].recursively, "graft", "put")
  BY <1>1 DEF IsRun, Early, Holding, Late, Passage, MainAts, RenameMain
<1> QED  BY <1>1, <1>2, <1>3, <1>4, UnmovedGoes

LEMMA StreamGoes ==
    ASSUME Held, Ordered, NEW r \in Runs, Stream(r)
    PROVE  GoesOn(r)
<1>1. IsRun(work[r]) /\ work[r].at = "stream"  BY RunsAreRuns DEF Held, Stream, On
<1>2. /\ Moves(r) /\ UNCHANGED <<ops, up>>
      /\ work'[r] = [work[r] EXCEPT !.at = "batch", !.todo =
          {<<i, pages[i].path, pages[i].kind>> : i \in Descendants(work[r].id)}]
  BY <1>1 DEF Held, WorkShape, Moves, Stream, Unchanged
<1>3. Unmoved(work[r], work'[r]) /\ work'[r].at = "batch"
  BY <1>1, <1>2 DEF IsRun, HasFields, Unmoved
<1>4. Passage(work[r].kind, work[r].recursively, "stream", "batch")
  BY <1>1 DEF IsRun, Early, Holding, Late, Passage, MainAts, RenameMain
<1> QED  BY <1>1, <1>2, <1>3, <1>4, UnmovedGoes

LEMMA BatchGoes ==
    ASSUME Held, Ordered, NEW r \in Runs, NEW x, Batch(r, x)
    PROVE  GoesOn(r)
<1>1. IsRun(work[r]) /\ work[r].at = "batch"  BY RunsAreRuns DEF Held, Batch, On
<1>2. /\ Moves(r) /\ UNCHANGED <<ops, up>>
      /\ work'[r] = [work[r] EXCEPT !.todo = @ \ {x}]
  BY <1>1 DEF Held, WorkShape, Moves, Batch, Unchanged
<1>3. Unmoved(work[r], work'[r]) /\ work'[r].at = "batch"
  BY <1>1, <1>2 DEF IsRun, HasFields, Unmoved
<1>4. Passage(work[r].kind, work[r].recursively, "batch", "batch")
  BY <1>1 DEF IsRun, Early, Holding, Late, Passage, MainAts, RenameMain
<1> QED  BY <1>1, <1>2, <1>3, <1>4, UnmovedGoes

LEMMA BatchFailsGoes ==
    ASSUME Held, Ordered, NEW r \in Runs, NEW x, BatchFails(r, x)
    PROVE  GoesOn(r)
<1>1. IsRun(work[r]) /\ work[r].at = "batch"  BY RunsAreRuns DEF Held, BatchFails, On, Damage
<1>2. /\ Moves(r) /\ UNCHANGED <<ops, up>>
      /\ work'[r] = [work[r] EXCEPT !.todo = @ \ {x}]
  BY <1>1 DEF Held, WorkShape, Moves, BatchFails, Unchanged, Damage
<1>3. Unmoved(work[r], work'[r]) /\ work'[r].at = "batch"
  BY <1>1, <1>2 DEF IsRun, HasFields, Unmoved
<1>4. Passage(work[r].kind, work[r].recursively, "batch", "batch")
  BY <1>1 DEF IsRun, Early, Holding, Late, Passage, MainAts, RenameMain
<1> QED  BY <1>1, <1>2, <1>3, <1>4, UnmovedGoes

LEMMA ErasePageGoes ==
    ASSUME Held, Ordered, NEW r \in Runs, ErasePage(r)
    PROVE  GoesOn(r)
<1>1. IsRun(work[r]) /\ work[r].at = "erase"  BY RunsAreRuns DEF Held, ErasePage, On
<1>2. /\ Moves(r) /\ UNCHANGED <<ops, up>>
      /\ work'[r] = [work[r] EXCEPT !.todo = @ \ {"page"}]
  BY <1>1 DEF Held, WorkShape, Moves, ErasePage, Unchanged
<1>3. Unmoved(work[r], work'[r]) /\ work'[r].at = "erase"
  BY <1>1, <1>2 DEF IsRun, HasFields, Unmoved
<1>4. Passage(work[r].kind, work[r].recursively, "erase", "erase")
  BY <1>1 DEF IsRun, Early, Holding, Late, Passage, MainAts, RenameMain
<1> QED  BY <1>1, <1>2, <1>3, <1>4, UnmovedGoes

LEMMA EraseRedirectsGoes ==
    ASSUME Held, Ordered, NEW r \in Runs, EraseRedirects(r)
    PROVE  GoesOn(r)
<1>1. IsRun(work[r]) /\ work[r].at = "erase"  BY RunsAreRuns DEF Held, EraseRedirects, On
<1>2. /\ Moves(r) /\ UNCHANGED <<ops, up>>
      /\ work'[r] = [work[r] EXCEPT !.todo = @ \ {"redirects"}]
  BY <1>1 DEF Held, WorkShape, Moves, EraseRedirects, Unchanged
<1>3. Unmoved(work[r], work'[r]) /\ work'[r].at = "erase"
  BY <1>1, <1>2 DEF IsRun, HasFields, Unmoved
<1>4. Passage(work[r].kind, work[r].recursively, "erase", "erase")
  BY <1>1 DEF IsRun, Early, Holding, Late, Passage, MainAts, RenameMain
<1> QED  BY <1>1, <1>2, <1>3, <1>4, UnmovedGoes

LEMMA PutGoes ==
    ASSUME Held, Ordered, NEW r \in Runs, Put(r)
    PROVE  GoesOn(r)
<1>1. IsRun(work[r]) /\ work[r].at = "put"  BY RunsAreRuns DEF Held, Put, On
<1>2. PICK at \in {"bump"} : Go(r, at) /\ UNCHANGED <<ops, up>>
  BY DEF Put, Unchanged
<1>3. Passage(work[r].kind, work[r].recursively, "put", at)
  BY <1>1 DEF IsRun, Early, Holding, Late, Passage, MainAts, RenameMain
<1> QED  BY <1>1, <1>2, <1>3, GoGoes

LEMMA BumpGoes ==
    ASSUME Held, Ordered, NEW r \in Runs, Bump(r)
    PROVE  GoesOn(r)
<1>1. IsRun(work[r]) /\ work[r].at = "bump"  BY RunsAreRuns DEF Held, Bump, On
<1>2. PICK at \in {"redirect", "stage"} : Go(r, at) /\ UNCHANGED <<ops, up>>
  BY DEF Bump, Unchanged
<1>3. Passage(work[r].kind, work[r].recursively, "bump", at)
  BY <1>1 DEF IsRun, Early, Holding, Late, Passage, MainAts, RenameMain
<1> QED  BY <1>1, <1>2, <1>3, GoGoes

LEMMA ClearRedirectGoes ==
    ASSUME Held, Ordered, NEW r \in Runs, ClearRedirect(r)
    PROVE  GoesOn(r)
<1>1. IsRun(work[r]) /\ work[r].at = "clear"  BY RunsAreRuns DEF Held, ClearRedirect, On
<1>2. PICK at \in {"prepare"} : Go(r, at) /\ UNCHANGED <<ops, up>>
  BY DEF ClearRedirect, Unchanged
<1>3. Passage(work[r].kind, work[r].recursively, "clear", at)
  BY <1>1 DEF IsRun, Early, Holding, Late, Passage, MainAts, RenameMain
<1> QED  BY <1>1, <1>2, <1>3, GoGoes

LEMMA UnbumpGoes ==
    ASSUME Held, Ordered, NEW r \in Runs, Unbump(r)
    PROVE  GoesOn(r)
<1>1. IsRun(work[r]) /\ work[r].at = "unbump"  BY RunsAreRuns DEF Held, Unbump, On
<1>2. PICK at \in {"shrink"} : Go(r, at) /\ UNCHANGED <<ops, up>>
  BY DEF Unbump, Unchanged, Stale
<1>3. Passage(work[r].kind, work[r].recursively, "unbump", at)
  BY <1>1 DEF IsRun, Early, Holding, Late, Passage, MainAts, RenameMain
<1> QED  BY <1>1, <1>2, <1>3, GoGoes

LEMMA SignpostGoes ==
    ASSUME Held, Ordered, NEW r \in Runs, Signpost(r)
    PROVE  GoesOn(r)
<1>1. IsRun(work[r]) /\ work[r].at = "signpost"  BY RunsAreRuns DEF Held, Signpost, On
<1>2. PICK at \in {"shrink"} : Go(r, at) /\ UNCHANGED <<ops, up>>
  BY DEF Signpost, Unchanged, Delete
<1>3. Passage(work[r].kind, work[r].recursively, "signpost", at)
  BY <1>1 DEF IsRun, Early, Holding, Late, Passage, MainAts, RenameMain
<1> QED  BY <1>1, <1>2, <1>3, GoGoes

LEMMA ErasedGoes ==
    ASSUME Held, Ordered, NEW r \in Runs, Erased(r)
    PROVE  GoesOn(r)
<1>1. IsRun(work[r]) /\ work[r].at = "erase"  BY RunsAreRuns DEF Held, Erased, On
<1>2. PICK at \in {"prune"} : Go(r, at) /\ UNCHANGED <<ops, up>>
  BY DEF Erased, Unchanged
<1>3. Passage(work[r].kind, work[r].recursively, "erase", at)
  BY <1>1 DEF IsRun, Early, Holding, Late, Passage, MainAts, RenameMain
<1> QED  BY <1>1, <1>2, <1>3, GoGoes

LEMMA TakeOffGoes ==
    ASSUME Held, Ordered, NEW r \in Runs, TakeOff(r)
    PROVE  Throw(r) \/ GoesOn(r)
<1>1. IsRun(work[r]) /\ work[r].at = "takeOff"  BY RunsAreRuns DEF Held, TakeOff, On
<1>2. CASE ~Throw(r)
  <2>1. Go(r, "find") /\ UNCHANGED <<ops, up>>  BY <1>2 DEF TakeOff, Unchanged
  <2>2. Passage(work[r].kind, work[r].recursively, "takeOff", "find")
    BY <1>1 DEF IsRun, Early, Holding, Late, Passage, MainAts, RenameMain
  <2> QED  BY <1>1, <2>1, <2>2, GoGoes
<1> QED  BY <1>2

LEMMA FindGoes ==
    ASSUME Held, Ordered, NEW r \in Runs, Find(r)
    PROVE  Throw(r) \/ GoesOn(r)
<1>1. IsRun(work[r]) /\ work[r].at = "find"  BY RunsAreRuns DEF Held, Find, On
<1>2. CASE Go(r, "plant") /\ Rename(r) /\ UNCHANGED <<ops, up>>
  <2>1. Passage(work[r].kind, work[r].recursively, "find", "plant")
    BY <1>1, <1>2 DEF Rename, IsRun, Early, Holding, Late, Passage, MainAts, RenameMain
  <2> QED  BY <1>1, <1>2, <2>1, GoGoes
<1>3. ASSUME NEW i, NEW at, at = IF Rename(r) THEN "put" ELSE "save",
             work' = [work EXCEPT ![r] = [@ EXCEPT !.at = at, !.parent = i]],
             UNCHANGED <<ops, up>>
      PROVE  GoesOn(r)
  <2>1. Moves(r) /\ work'[r] = [work[r] EXCEPT !.at = at, !.parent = i]
    BY <1>3 DEF Held, WorkShape, Moves
  <2>2. Unmoved(work[r], work'[r]) /\ work'[r].at = at
    BY <1>1, <2>1 DEF IsRun, HasFields, Unmoved
  <2>3. Passage(work[r].kind, work[r].recursively, "find", at)
    BY <1>1, <1>3 DEF Rename, IsRun, Early, Holding, Late, Passage, MainAts, RenameMain
  <2> QED  BY <1>1, <1>3, <2>1, <2>2, <2>3, UnmovedGoes
<1>4. ASSUME NEW todo, work' = [work EXCEPT ![r] = [@ EXCEPT !.at = "insert", !.todo = todo]],
             UNCHANGED <<ops, up>>
      PROVE  GoesOn(r)
  <2>1. Moves(r) /\ work'[r] = [work[r] EXCEPT !.at = "insert", !.todo = todo]
    BY <1>4 DEF Held, WorkShape, Moves
  <2>2. Unmoved(work[r], work'[r]) /\ work'[r].at = "insert"
    BY <1>1, <2>1 DEF IsRun, HasFields, Unmoved
  <2>3. Passage(work[r].kind, work[r].recursively, "find", "insert")
    BY <1>1 DEF IsRun, Early, Holding, Late, Passage, MainAts, RenameMain
  <2> QED  BY <1>1, <1>4, <2>1, <2>2, <2>3, UnmovedGoes
<1>5. \/ Throw(r)
      \/ Go(r, "plant") /\ Rename(r) /\ UNCHANGED <<ops, up>>
      \/ /\ UNCHANGED <<ops, up>>
         /\ \/ \E i : work' = [work EXCEPT ![r] = [@ EXCEPT
                    !.at = IF Rename(r) THEN "put" ELSE "save", !.parent = i]]
            \/ \E todo : work' = [work EXCEPT ![r] = [@ EXCEPT !.at = "insert", !.todo = todo]]
  BY DEF Find, Unchanged
<1> QED  BY <1>2, <1>3, <1>4, <1>5

LEMMA LinkGoes ==
    ASSUME Held, Ordered, NEW r \in Runs, Link(r)
    PROVE  Throw(r) \/ GoesOn(r)
<1>1. IsRun(work[r]) /\ work[r].at = "link"  BY RunsAreRuns DEF Held, Link, On
<1>2. CASE ~Throw(r)
  <2>1. /\ Moves(r) /\ UNCHANGED <<ops, up>>
        /\ work'[r] = [work[r] EXCEPT !.at = IF Rename(r) THEN "put" ELSE "save",
                                     !.parent = Earliest(At(Dirname(work[r].to)))]
    BY <1>1, <1>2 DEF Held, WorkShape, Moves, Link, Unchanged
  <2>2. Unmoved(work[r], work'[r]) /\ work'[r].at = IF Rename(r) THEN "put" ELSE "save"
    BY <1>1, <2>1 DEF IsRun, HasFields, Unmoved
  <2>3. Passage(work[r].kind, work[r].recursively, "link",
                IF Rename(r) THEN "put" ELSE "save")
    BY <1>1 DEF Rename, IsRun, Early, Holding, Late, Passage, MainAts, RenameMain
  <2> QED  BY <1>1, <2>1, <2>2, <2>3, UnmovedGoes
<1> QED  BY <1>2

LEMMA CreateRedirectGoes ==
    ASSUME Held, Ordered, NEW r \in Runs, CreateRedirect(r)
    PROVE  Throw(r) \/ GoesOn(r)
<1>1. IsRun(work[r]) /\ work[r].at = "redirect"
  BY RunsAreRuns DEF Held, CreateRedirect, On
<1>2. CASE ~Throw(r)
  <2>1. Go(r, "stage") /\ UNCHANGED <<ops, up>>  BY <1>2 DEF CreateRedirect, Unchanged
  <2>2. Passage(work[r].kind, work[r].recursively, "redirect", "stage")
    BY <1>1 DEF IsRun, Early, Holding, Late, Passage, MainAts, RenameMain
  <2> QED  BY <1>1, <2>1, <2>2, GoGoes
<1> QED  BY <1>2

LEMMA ExtendExpiryDateGoes ==
    ASSUME Held, Ordered, NEW r \in Runs, Typed, ExtendExpiryDate(r)
    PROVE  GoesOn(r)
<1>1. IsRun(work[r]) /\ work[r].at = "batch"
  BY RunsAreRuns DEF Held, ExtendExpiryDate, On
<1>2. /\ Moves(r) /\ up' = up /\ work'[r] = [work[r] EXCEPT !.ticked = TRUE]
  BY <1>1 DEF Held, WorkShape, Moves, ExtendExpiryDate, Unchanged
<1>3. Unmoved(work[r], work'[r]) /\ work'[r].at = "batch"
  BY <1>1, <1>2 DEF IsRun, HasFields, Unmoved
<1>4. Passage(work[r].kind, work[r].recursively, "batch", "batch")
  BY <1>1 DEF IsRun, Early, Holding, Late, Passage, MainAts, RenameMain
<1>5. OpsStay
  <2>1. CASE ops[work[r].op] = NoOp
    BY <2>1 DEF ExtendExpiryDate, OpsStay, Recorded, Alike
  <2>2. CASE ops[work[r].op] # NoOp
    <3> DEFINE o == work[r].op
    <3>1. o \in Recorded /\ ops' = [ops EXCEPT ![o].ahead = TRUE]
      BY <1>1, <2>2 DEF ExtendExpiryDate, Recorded, IsRun
    <3> HIDE DEF o
    <3>2. OpTyped(ops[o], Ids)  BY <3>1 DEF Typed
    <3>3. ops'[o] = [ops[o] EXCEPT !.ahead = TRUE]
          /\ \A q \in Runs \ {o} : ops'[q] = ops[q]
      BY <3>1 DEF Held, Recorded
    <3>4. Alike(ops[o], ops'[o]) /\ ops'[o] # NoOp
      BY <3>2, <3>3 DEF OpTyped, Alike, NoOp
    <3>5. \A q \in Recorded : Alike(ops[q], ops'[q])
      BY <3>3, <3>4 DEF Alike, Recorded
    <3> QED  BY <3>1, <3>3, <3>4, <3>5 DEF OpsStay, Recorded
  <2> QED  BY <2>1, <2>2
<1>6. Others(r)  BY <1>2 DEF Held, WorkShape, Moves, Others
<1>7. GoesOn(r)
  <2>1. RunFits(r, work'[r])
    BY <1>1, <1>3 DEF Ordered, RunsFit, RunFits, Unmoved
  <2> QED  BY <1>1, <1>3, <1>4, <1>5, <1>6, <2>1 DEF GoesOn, Unmoved, Passage, IsRun
<1> QED  BY <1>7

LEMMA BatchesEndGoes ==
    ASSUME Held, Ordered, NEW r \in Runs, BatchesEnd(r)
    PROVE  GoesOn(r)
<1>1. IsRun(work[r]) /\ work[r].at = "batch"  BY RunsAreRuns DEF Held, BatchesEnd, On
<1>2. Go(r, IF Rename(r) THEN "unbump" ELSE "done") /\ UNCHANGED <<ops, up>>
  BY DEF BatchesEnd, Unchanged
<1>3. Passage(work[r].kind, work[r].recursively, "batch", IF Rename(r) THEN "unbump" ELSE "done")
  BY <1>1 DEF Rename, IsRun, Early, Holding, Late, Passage, MainAts, RenameMain
<1> QED  BY <1>1, <1>2, <1>3, GoGoes

LEMMA ClimbGoes ==
    ASSUME Held, Ordered, NEW r \in Runs, NEW from, NEW to, NEW i, NEW S,
           Climb(r, from, to, i, S), IsRun(work[r]),
           Passage(work[r].kind, work[r].recursively, from, to)
    PROVE  Throw(r) \/ GoesOn(r)
<1>1. CASE ~Throw(r)
  <2>1. /\ Moves(r) /\ UNCHANGED <<ops, up>>
        /\ work'[r] = [work[r] EXCEPT !.at = to, !.ids = S] /\ work[r].at = from
    BY <1>1 DEF Held, WorkShape, Moves, Climb, Unchanged, On
  <2>2. Unmoved(work[r], work'[r]) /\ work'[r].at = to
    BY <2>1 DEF IsRun, HasFields, Unmoved
  <2> QED  BY <2>1, <2>2, UnmovedGoes
<1> QED  BY <1>1

LEMMA CountGoes ==
    ASSUME Held, Ordered, NEW r \in Runs, NEW from, NEW to, NEW n, NEW S,
           Count(r, from, to, S, n), IsRun(work[r]),
           Passage(work[r].kind, work[r].recursively, from, to)
    PROVE  GoesOn(r)
<1>1. /\ Moves(r) /\ UNCHANGED <<ops, up>>
      /\ work'[r] = [work[r] EXCEPT !.at = to, !.ids = {}] /\ work[r].at = from
  BY DEF Held, WorkShape, Moves, Count, Unchanged, On
<1>2. Unmoved(work[r], work'[r]) /\ work'[r].at = to
  BY <1>1 DEF IsRun, HasFields, Unmoved
<1> QED  BY <1>1, <1>2, UnmovedGoes

LEMMA ShrinkGoes ==
    ASSUME Held, Ordered, NEW r \in Runs, Shrink(r)
    PROVE  Throw(r) \/ GoesOn(r)
<1>1. IsRun(work[r]) /\ work[r].at = "shrink"  BY RunsAreRuns DEF Held, Shrink, Climb, On
<1>2. Passage(work[r].kind, work[r].recursively, "shrink", "shrunk")
  BY <1>1 DEF IsRun, Early, Holding, Late, Passage, MainAts, RenameMain
<1> QED  BY <1>1, <1>2, ClimbGoes DEF Shrink

LEMMA GrowGoes ==
    ASSUME Held, Ordered, NEW r \in Runs, Grow(r)
    PROVE  Throw(r) \/ GoesOn(r)
<1>1. IsRun(work[r]) /\ work[r].at = "grow"  BY RunsAreRuns DEF Held, Grow, Climb, On
<1>2. Passage(work[r].kind, work[r].recursively, "grow", "grown")
  BY <1>1 DEF IsRun, Early, Holding, Late, Passage, MainAts, RenameMain
<1> QED  BY <1>1, <1>2, ClimbGoes DEF Grow

LEMMA ShrunkGoes ==
    ASSUME Held, Ordered, NEW r \in Runs, Shrunk(r)
    PROVE  GoesOn(r)
<1>1. IsRun(work[r]) /\ work[r].at = "shrunk"  BY RunsAreRuns DEF Held, Shrunk, Count, On
<1> DEFINE to == CASE Rename(r) -> "grow" [] Delete(r) -> "prune" [] Erase(r) -> "erase"
<1>2. work[r].kind \in {"rename", "delete", "erase"}
  BY <1>1 DEF IsRun, Early, Holding, Late
<1>3. /\ work[r].kind = "rename" => to = "grow"
      /\ work[r].kind = "delete" => to = "prune"
      /\ work[r].kind = "erase" => to = "erase"
  BY DEF Rename, Delete, Erase
<1>4. Count(r, "shrunk", to, Losers(r), -Gains(r))  BY DEF Shrunk
<1> HIDE DEF to
<1>5. Passage(work[r].kind, work[r].recursively, "shrunk", to)
  BY <1>1, <1>2, <1>3 DEF IsRun, Early, Holding, Late, Passage, MainAts, RenameMain
<1> QED  BY <1>1, <1>4, <1>5, CountGoes

LEMMA GrownGoes ==
    ASSUME Held, Ordered, NEW r \in Runs, Grown(r)
    PROVE  GoesOn(r)
<1>1. IsRun(work[r]) /\ work[r].at = "grown"  BY RunsAreRuns DEF Held, Grown, Count, On
<1>2. Passage(work[r].kind, work[r].recursively, "grown", IF Rename(r) THEN "prune" ELSE "done")
  BY <1>1 DEF Rename, IsRun, Early, Holding, Late, Passage, MainAts, RenameMain
<1> QED  BY <1>1, <1>2, CountGoes DEF Grown

LEMMA PruneGoes ==
    ASSUME Held, Ordered, NEW r \in Runs, Prune(r)
    PROVE  GoesOn(r)
<1>1. IsRun(work[r]) /\ work[r].at = "prune"  BY RunsAreRuns DEF Held, Prune, On
<1>2. /\ Moves(r) /\ UNCHANGED <<ops, up>>
      /\ work'[r] = [work[r] EXCEPT !.at = "pruned", !.ids = LeafEmpties(work[r].copy.parent)]
  BY <1>1 DEF Held, WorkShape, Moves, Prune, Unchanged
<1>3. Unmoved(work[r], work'[r]) /\ work'[r].at = "pruned"
  BY <1>1, <1>2 DEF IsRun, HasFields, Unmoved
<1>4. Passage(work[r].kind, work[r].recursively, "prune", "pruned")
  BY <1>1 DEF IsRun, Early, Holding, Late, Passage, MainAts, RenameMain
<1> QED  BY <1>1, <1>2, <1>3, <1>4, UnmovedGoes

LEMMA PrunedGoes ==
    ASSUME Held, Ordered, NEW r \in Runs, Pruned(r)
    PROVE  GoesOn(r)
<1> DEFINE to == IF Removes(r) /\ work[r].recursively THEN "recordDelete"
                ELSE IF Removes(r) THEN "answered" ELSE "done"
<1>1. IsRun(work[r]) /\ work[r].at = "pruned"  BY RunsAreRuns DEF Held, Pruned, On
<1>2. /\ Moves(r) /\ UNCHANGED <<ops, up>>
      /\ work'[r] = [work[r] EXCEPT !.ids = {}, !.at = to]
  BY <1>1 DEF Held, WorkShape, Moves, Pruned, Unchanged
<1>3. /\ work[r].kind \in {"delete", "erase"} =>
            to = IF work[r].recursively THEN "recordDelete" ELSE "answered"
      /\ work[r].kind \notin {"delete", "erase"} => to = "done"
  BY DEF Removes, Delete, Erase
<1> HIDE DEF to
<1>4. Unmoved(work[r], work'[r]) /\ work'[r].at = to
  BY <1>1, <1>2 DEF IsRun, HasFields, Unmoved
<1>5. Passage(work[r].kind, work[r].recursively, "pruned", to)
  BY <1>1, <1>3 DEF IsRun, Early, Holding, Late, Passage, MainAts, RenameMain
<1> QED  BY <1>1, <1>2, <1>4, <1>5, UnmovedGoes

LEMMA ReplaceGoes ==
    ASSUME Held, Ordered, NEW r \in Runs, Replace(r)
    PROVE  Throw(r) \/ GoesOn(r)
<1>1. IsRun(work[r]) /\ work[r].at = "replace"  BY RunsAreRuns DEF Held, Replace, On
<1>2. CASE ~Throw(r)
  <2>1. /\ Moves(r) /\ UNCHANGED <<ops, up>>
        /\ work'[r] = [work[r] EXCEPT !.at = "adopt", !.parent = NewId(0)]
    BY <1>1, <1>2 DEF Held, WorkShape, Moves, Replace, Unchanged, Stale
  <2>2. Unmoved(work[r], work'[r]) /\ work'[r].at = "adopt"
    BY <1>1, <2>1 DEF IsRun, HasFields, Unmoved
  <2>3. Passage(work[r].kind, work[r].recursively, "replace", "adopt")
    BY <1>1 DEF IsRun, Early, Holding, Late, Passage, MainAts, RenameMain
  <2> QED  BY <1>1, <2>1, <2>2, <2>3, UnmovedGoes
<1> QED  BY <1>2

LEMMA AdoptGoes ==
    ASSUME Held, Ordered, NEW r \in Runs, Adopt(r)
    PROVE  GoesOn(r)
<1>1. IsRun(work[r]) /\ work[r].at = "adopt"  BY RunsAreRuns DEF Held, Adopt, On
<1>2. Go(r, IF Delete(r) THEN "trash" ELSE "shrink") /\ UNCHANGED <<ops, up>>
  BY DEF Adopt, Unchanged
<1>3. Passage(work[r].kind, work[r].recursively, "adopt", IF Delete(r) THEN "trash" ELSE "shrink")
  BY <1>1 DEF Delete, IsRun, Early, Holding, Late, Passage, MainAts, RenameMain
<1> QED  BY <1>1, <1>2, <1>3, GoGoes

LEMMA TrashTargetGoes ==
    ASSUME Held, Ordered, NEW r \in Runs, TrashTarget(r)
    PROVE  GoesOn(r)
<1>1. IsRun(work[r]) /\ work[r].at = "trash"  BY RunsAreRuns DEF Held, TrashTarget, On
<1>2. PICK at \in {"signpost", "shrink"} : Go(r, at) /\ UNCHANGED <<ops, up>>
  BY DEF TrashTarget, Unchanged
<1>3. Passage(work[r].kind, work[r].recursively, "trash", at)
  BY <1>1 DEF IsRun, Early, Holding, Late, Passage, MainAts, RenameMain
<1> QED  BY <1>1, <1>2, <1>3, GoGoes

(* A creation learns the document it is to be. *)
LEMMA CreatingGoes ==
    ASSUME Held, Ordered, NEW r \in Runs, IsRun(work[r]), Moves(r), UNCHANGED <<ops, up>>,
           work[r].kind = "create", work[r].at \in {"prepare", "save"},
           work'[r].at \in {"find", "recordCreate"}, HasFields(work'[r]),
           work'[r].kind = work[r].kind, work'[r].op = work[r].op, work'[r].to = work[r].to,
           work'[r].recursively = work[r].recursively, work'[r].seen = work[r].seen,
           work'[r].resumed = work[r].resumed
    PROVE  GoesOn(r)
<1>1. Others(r)  BY DEF Held, WorkShape, Moves, Others
<1>2. OpsStay  BY DEF OpsStay, Recorded, Alike
<1>3. Early("create", work[r].at) /\ Early("create", work'[r].at)  BY DEF Early
<1>4. IsRun(work'[r])  BY <1>3 DEF IsRun
<1>5. RunFits(r, work'[r])  BY DEF RunFits
<1> QED  BY <1>1, <1>2, <1>3, <1>4, <1>5, PhasesDiffer DEF GoesOn

LEMMA PrepareGoes ==
    ASSUME Held, Ordered, NEW r \in Runs, Prepare(r)
    PROVE  GoesOn(r)
<1> DEFINE empties == {i \in At(work[r].to) : pages[i].kind = "empty"}
           i == Earliest(empties)
           new == IF empties = {} THEN [work[r] EXCEPT !.at = "find"]
                  ELSE [work[r] EXCEPT !.at = "find", !.id = i, !.copy = pages[i],
                                       !.sum = Recounted(i)]
<1>1. IsRun(work[r]) /\ work[r].at = "prepare"  BY RunsAreRuns DEF Held, Prepare, On
<1>2. Moves(r) /\ UNCHANGED <<ops, up>> /\ work'[r] = new
  BY <1>1 DEF Held, WorkShape, Moves, Prepare, Unchanged, Stale
<1>3. /\ HasFields(new) /\ new.at = "find" /\ new.kind = work[r].kind /\ new.op = work[r].op
      /\ new.to = work[r].to /\ new.recursively = work[r].recursively /\ new.seen = work[r].seen
      /\ new.resumed = work[r].resumed
  BY <1>1 DEF IsRun, HasFields
<1> HIDE DEF new
<1>4. work[r].kind = "create"  BY <1>1 DEF IsRun, Early, Holding, Late
<1> QED  BY <1>1, <1>2, <1>3, <1>4, CreatingGoes

LEMMA SaveGoes ==
    ASSUME Held, Ordered, NEW r \in Runs, Save(r)
    PROVE  Throw(r) \/ GoesOn(r)
<1>1. IsRun(work[r]) /\ work[r].at = "save"  BY RunsAreRuns DEF Held, Save, On
<1>2. work[r].kind = "create"  BY <1>1 DEF IsRun, Early, Holding, Late
<1>3. CASE ~Throw(r)
  <2> DEFINE run == work[r]
             id == IF run.id = NoId THEN NewId(0) ELSE run.id
             old == IF run.id = NoId
                    THEN [kind |-> "page", path |-> run.to, parent |-> run.parent, count |-> 0]
                    ELSE pages[id]
             page == [old EXCEPT
               !.kind = "page",
               !.parent = IF run.parent = run.copy.parent THEN @ ELSE run.parent,
               !.count = IF run.sum = run.copy.count THEN @ ELSE run.sum]
  <2>1. /\ UNCHANGED <<ops, up>>
        /\ work' = [work EXCEPT ![r].at = "recordCreate", ![r].id = id, ![r].copy = page]
    BY <1>3 DEF Save, Unchanged
  <2> HIDE DEF id, page
  <2>3. Moves(r) /\ work'[r] = [work[r] EXCEPT !.at = "recordCreate", !.id = id, !.copy = page]
    BY <1>1, <2>1 DEF Held, WorkShape, Moves
  <2>2. /\ HasFields(work'[r]) /\ work'[r].at = "recordCreate" /\ work'[r].kind = work[r].kind
        /\ work'[r].op = work[r].op /\ work'[r].to = work[r].to
        /\ work'[r].recursively = work[r].recursively /\ work'[r].seen = work[r].seen
        /\ work'[r].resumed = work[r].resumed
    BY <1>1, <2>3 DEF IsRun, HasFields
  <2> QED  BY <1>1, <1>2, <2>1, <2>2, <2>3, CreatingGoes
<1> QED  BY <1>3

(* The steps that record.                                                    *)
LEMMA RecordingNotes ==
    ASSUME Held, Ordered, NEW r \in Runs, IsRun(work[r]), NEW stage, NEW to, NEW at,
           ops' = [ops EXCEPT ![r] = Operation(r, stage, to)], Go(r, at), up' = up,
           Early(work[r].kind, work[r].at), work[r].at # "check", Holding(work[r].kind, at),
           work[r].kind # "create" => work[r].recursively /\ to = work[r].to,
           work[r].kind # "rename" => to = NoPath /\ at \notin {"replace", "adopt"},
           work[r].kind = "rename" => stage = "Main" /\ at = "takeOff"
    PROVE  Notes(r)
<1>1. Moves(r) /\ work'[r] = [work[r] EXCEPT !.at = at]
  BY DEF Held, WorkShape, Go, Moves
<1>2. Unmoved(work[r], work'[r]) /\ work'[r].at = at
  BY <1>1 DEF IsRun, HasFields, Unmoved
<1>3. Others(r)  BY <1>1 DEF Held, WorkShape, Moves, Others
<1>4. IsRun(work'[r])  BY <1>2 DEF IsRun, Unmoved
<1>5. work[r].op = r  BY DEF Held, NotYet
<1>6. ops'[r] = Operation(r, stage, to) /\ \A o \in Runs \ {r} : ops'[o] = ops[o]
  BY DEF Held
<1>7. RunFits(r, work[r])  BY DEF Ordered, RunsFit
<1>8. RunFits(r, work'[r])
  BY <1>2, <1>5, <1>7 DEF RunFits, Unmoved, Holding
<1>9. /\ ops'[r].from = work[r].copy.path /\ ops'[r].copy = work[r].copy
      /\ ops'[r].kind = work[r].kind /\ ops'[r].to = to /\ ops'[r].id = work[r].id
      /\ ops'[r].stage = stage
  BY <1>6 DEF Operation
<1>10. OpFits(ops'[r])  BY <1>7, <1>9 DEF OpFits, RunFits
<1>11. r \in Recorded'
  <2>1. Operation(r, stage, to) # NoOp  BY DEF Operation, NoOp
  <2> QED  BY <1>6, <2>1 DEF Recorded
<1>12. Agrees(r, r)'
  BY <1>2, <1>9, <1>11 DEF Agrees, Unmoved, MainAts, RenameMain
<1> QED  BY <1>2, <1>3, <1>4, <1>6, <1>8, <1>9, <1>10, <1>11, <1>12 DEF Notes, Unmoved

LEMMA RecordNotes ==
    ASSUME Held, Ordered, NEW r \in Runs, Record(r)
    PROVE  Notes(r)
<1>1. IsRun(work[r]) /\ work[r].at = "record" /\ work[r].kind = "rename"
  BY RunsAreRuns DEF Held, Record, On, IsRun, Early, Holding, Late
<1>2. /\ ops' = [ops EXCEPT ![r] = Operation(r, "Main", work[r].to)]
      /\ Go(r, "takeOff") /\ up' = up
  BY DEF Record, Unchanged
<1>3. RunFits(r, work[r])  BY <1>1 DEF Ordered, RunsFit
<1> QED  BY <1>1, <1>2, <1>3, RecordingNotes DEF Early, Holding, RunFits

LEMMA RecordCreateNotes ==
    ASSUME Held, Ordered, NEW r \in Runs, RecordCreate(r)
    PROVE  Notes(r)
<1>1. IsRun(work[r]) /\ work[r].at = "recordCreate" /\ work[r].kind = "create"
  BY RunsAreRuns DEF Held, RecordCreate, On, IsRun, Early, Holding, Late
<1>2. /\ ops' = [ops EXCEPT ![r] = Operation(r, "Sub", NoPath)]
      /\ Go(r, "grow") /\ up' = up
  BY DEF RecordCreate, Unchanged
<1> QED  BY <1>1, <1>2, RecordingNotes DEF Early, Holding

LEMMA RecordDeleteNotes ==
    ASSUME Held, Ordered, NEW r \in Runs, RecordDelete(r)
    PROVE  Notes(r)
<1>1. IsRun(work[r]) /\ work[r].at = "recordDelete" /\ work[r].kind \in {"delete", "erase"}
  BY RunsAreRuns DEF Held, RecordDelete, On, IsRun, Early, Holding, Late
<1>2. /\ ops' = [ops EXCEPT ![r] = Operation(r, "Main", NoPath)]
      /\ Go(r, "stream") /\ up' = up
  BY DEF RecordDelete, Unchanged
<1>3. RunFits(r, work[r])  BY <1>1 DEF Ordered, RunsFit
<1> QED  BY <1>1, <1>2, <1>3, RecordingNotes DEF Early, Holding, RunFits

(* The steps that end a run, or its operation.                               *)
LEMMA RecountLeaves ==
    ASSUME Held, Ordered, NEW r \in Runs, Recount(r)
    PROVE  Leaves(r) /\ ops' = ops
<1>1. IsRun(work[r]) /\ work[r].at = "recount"  BY RunsAreRuns DEF Held, Recount, On
<1>2. UNCHANGED <<ops, up>>  BY DEF Recount, Unchanged
<1>3. CASE End(r)
  <2>1. Others(r) /\ work'[r] = Over  BY <1>2, <1>3 DEF Held, WorkShape, End, Others
  <2> QED  BY <1>1, <1>2, <2>1 DEF Leaves
<1>4. CASE ~End(r)
  <2>1. PICK i : work' = [work EXCEPT ![r].at = "store", ![r].todo = @ \ {i},
                                      ![r].ids = {i}, ![r].sum = Recounted(i)]
    BY <1>4 DEF Recount
  <2>2. /\ Moves(r)
        /\ work'[r] = [work[r] EXCEPT !.at = "store", !.todo = @ \ {i},
                                      !.ids = {i}, !.sum = Recounted(i)]
    BY <2>1 DEF Held, WorkShape, Moves
  <2>3. Unmoved(work[r], work'[r]) /\ work'[r].at = "store"
    BY <1>1, <2>2 DEF IsRun, HasFields, Unmoved
  <2>4. Late(work[r].kind, "store") /\ RunFits(r, work[r])
    BY <1>1 DEF IsRun, Early, Holding, Late, Ordered, RunsFit
  <2>5. RunFits(r, work'[r])  BY <2>3, <2>4 DEF RunFits, Unmoved, Late, MainAts, RenameMain
  <2>6. Others(r)  BY <1>2, <2>2 DEF Held, WorkShape, Moves, Others
  <2> QED  BY <1>1, <1>2, <2>3, <2>4, <2>5, <2>6 DEF Leaves, Unmoved, IsRun
<1> QED  BY <1>3, <1>4

LEMMA StoreLeaves ==
    ASSUME Held, Ordered, NEW r \in Runs, Store(r)
    PROVE  Leaves(r) /\ ops' = ops
<1>1. IsRun(work[r]) /\ work[r].at = "store"  BY RunsAreRuns DEF Held, Store, On
<1>2. /\ Moves(r) /\ UNCHANGED <<ops, up>>
      /\ work'[r] = [work[r] EXCEPT !.at = "recount", !.ids = {}]
  BY <1>1 DEF Held, WorkShape, Moves, Store, Unchanged
<1>3. Unmoved(work[r], work'[r]) /\ work'[r].at = "recount"
  BY <1>1, <1>2 DEF IsRun, HasFields, Unmoved
<1>4. Late(work[r].kind, "recount") /\ RunFits(r, work[r])
  BY <1>1 DEF IsRun, Early, Holding, Late, Ordered, RunsFit
<1>5. RunFits(r, work'[r])  BY <1>3, <1>4 DEF RunFits, Unmoved, Late, MainAts, RenameMain
<1>6. Others(r)  BY <1>2 DEF Held, WorkShape, Moves, Others
<1> QED  BY <1>1, <1>2, <1>3, <1>4, <1>5, <1>6 DEF Leaves, Unmoved, IsRun

LEMMA DoneLeaves ==
    ASSUME Held, Ordered, NEW r \in Runs, Done(r)
    PROVE  /\ Leaves(r) /\ work[r].at \in {"done", "answered"}
           /\ On(r, "done") => ops' = [ops EXCEPT ![work[r].op] = NoOp]
           /\ On(r, "answered") => ops' = ops
<1>1. IsRun(work[r]) /\ work[r].at \in {"done", "answered"}
  BY RunsAreRuns DEF Held, Done
<1>2. /\ On(r, "done") => ops' = [ops EXCEPT ![work[r].op] = NoOp]
      /\ On(r, "answered") => ops' = ops
      /\ (On(r, "done") \/ On(r, "answered")) /\ up' = up
  BY <1>1 DEF Done, On, Unchanged
<1>3. On(r, "done") => Holding(work[r].kind, work[r].at)
  BY <1>1 DEF On, IsRun, Early, Holding, Late
<1>4. Others(r) /\ (work'[r] = Over \/ (work[r].resumed /\ \E todo :
          work'[r] = [work[r] EXCEPT !.at = "recount", !.todo = todo]))
  BY DEF Held, WorkShape, Done, End, Others, Unchanged
<1>5. ASSUME work[r].resumed, NEW todo, work'[r] = [work[r] EXCEPT !.at = "recount", !.todo = todo]
      PROVE  IsRun(work'[r]) /\ Late(work'[r].kind, work'[r].at) /\ RunFits(r, work'[r])
  <2>6. work'[r] = [work[r] EXCEPT !.at = "recount", !.todo = todo]  BY <1>5
  <2>1. Unmoved(work[r], work'[r]) /\ work'[r].at = "recount"
    BY <1>1, <2>6 DEF IsRun, HasFields, Unmoved
  <2>2. work[r].kind = "rename" /\ RunFits(r, work[r])
    BY <1>1, <1>5 DEF IsRun, Ordered, RunsFit
  <2>3. Late(work'[r].kind, work'[r].at)  BY <2>1, <2>2 DEF Late, Unmoved
  <2>4. RunFits(r, work'[r])  BY <2>1, <2>2 DEF RunFits, Unmoved, MainAts, RenameMain
  <2>5. work[r].op \in Runs  BY <1>1 DEF IsRun
  <2> QED  BY <2>1, <2>2, <2>3, <2>4, <2>5 DEF IsRun, Unmoved
<1> QED  BY <1>1, <1>2, <1>3, <1>4, <1>5 DEF Leaves, On

LEMMA CleanupLeaves ==
    ASSUME Held, Ordered, NEW r \in Runs, Cleanup(r)
    PROVE  /\ Leaves(r) /\ work'[r] = Over /\ work[r].at = "cleanup"
           /\ ops' = [ops EXCEPT ![work[r].op] = NoOp]
           /\ ~history'.damaged => work[r].kind = "rename"
<1>1. IsRun(work[r]) /\ work[r].at = "cleanup"  BY RunsAreRuns DEF Held, Cleanup, On
<1>2. Holding(work[r].kind, work[r].at) /\ work[r].kind \in {"rename", "delete", "erase"}
  BY <1>1 DEF IsRun, Early, Holding, Late
<1>3. ~history'.damaged => ~Removes(r)  BY DEF Cleanup, Held, HasHistory
<1>4. Others(r) /\ work'[r] = Over /\ ops' = [ops EXCEPT ![work[r].op] = NoOp]
  BY DEF Held, WorkShape, Cleanup, End, Others, Unchanged
<1> QED  BY <1>1, <1>2, <1>3, <1>4 DEF Leaves, Removes, Delete, Erase

(* The end of an operation that had its run.                                 *)
LEMMA EndingKeepsOrder ==
    ASSUME Held, Ordered, NEW r \in Runs, Leaves(r),
           Holding(work[r].kind, work[r].at) => work[r].op \notin Recorded'
    PROVE  Ordered'
  BY LeavingKeepsOrder DEF Holds

-----------------------------------------------------------------------------
(* The main part of a rename ends: its operation may be resumed.             *)
LEMMA SetStageOrders ==
    ASSUME Typed, Ordered, NEW r \in Runs, SetStage(r), ~Throw(r)
    PROVE  /\ Ordered' /\ Settled /\ NoneOpens /\ Recorded' = Recorded /\ Others(r)
           /\ Holds(r, r) /\ work[r].kind = "rename" /\ work[r].at = "stage"
           /\ Unmoved(work[r], work'[r]) /\ work'[r].at = "stream"
           /\ ops'[r].stage = "Sub" /\ ops[r].stage = "Main"
           /\ \A o \in Runs \ {r} : ops'[o] = ops[o]
           /\ \A s, o \in Runs : Holds(s, o)' <=> Holds(s, o)
<1> Held  BY DEF Typed
<1>1. IsRun(work[r]) /\ work[r].at = "stage" /\ work[r].kind = "rename"
  BY RunsAreRuns DEF Held, SetStage, On, IsRun, Early, Holding, Late
<1>2. /\ ops' = [ops EXCEPT ![r].stage = "Sub"] /\ Go(r, "stream") /\ up' = up
      /\ ops[r] # NoOp
  BY DEF SetStage, Unchanged
<1>3. Moves(r) /\ work'[r] = [work[r] EXCEPT !.at = "stream"]
  BY <1>2 DEF Held, WorkShape, Go, Moves
<1>4. Unmoved(work[r], work'[r]) /\ work'[r].at = "stream"
  BY <1>1, <1>3 DEF IsRun, HasFields, Unmoved
<1>5. Others(r)  BY <1>2, <1>3 DEF Held, WorkShape, Moves, Others
<1>6. RunFits(r, work[r])  BY <1>1 DEF Ordered, RunsFit
<1>7. work[r].op = r /\ Holds(r, r)
  BY <1>1, <1>6 DEF RunFits, MainAts, RenameMain, Holds, Holding
<1>8. Agrees(r, r)  BY <1>7 DEF Ordered, Agreed
<1>9. /\ ops'[r] = [ops[r] EXCEPT !.stage = "Sub"]
      /\ \A o \in Runs \ {r} : ops'[o] = ops[o]
  BY <1>2 DEF Held
<1>10. OpTyped(ops[r], Ids)  BY <1>8 DEF Typed, Agrees
<1>11. /\ ops'[r].kind = ops[r].kind /\ ops'[r].copy = ops[r].copy /\ ops'[r].id = ops[r].id
       /\ ops'[r].to = ops[r].to /\ ops'[r].from = ops[r].from /\ ops'[r].stage = "Sub"
       /\ ops'[r] # NoOp
  BY <1>9, <1>10 DEF OpTyped, NoOp
<1>12. ops[r].stage = "Main"  BY <1>1, <1>8 DEF Agrees, MainAts, RenameMain
<1>13. Recorded' = Recorded  BY <1>8, <1>9, <1>11 DEF Recorded, Agrees
<1>14. ~Early("rename", "stream") /\ ~Early("rename", "stage")
       /\ Holding("rename", "stream") /\ Holding("rename", "stage")
  BY DEF Early, Holding
<1>15. IsRun(work'[r])  BY <1>1, <1>4, <1>14 DEF IsRun, Unmoved
<1>17. \A s \in Runs : Open(s)' => Open(s) /\ s # r /\ work'[s] = work[s]
  BY <1>1, <1>4, <1>5, <1>14 DEF Open, Unmoved, Others
<1>18. NoneOpens  BY <1>17 DEF NoneOpens, On
<1>19. Settled
  <2> SUFFICES ASSUME NEW o \in Runs, Claiming(o)'
               PROVE  /\ Claiming(o) /\ SameClaim(Claim(o), Claim(o)')
                      /\ Broad(o)' => Broad(o)
    BY DEF Settled, Broad
  <2>1. CASE o \in Recorded
    BY <1>9, <1>11, <1>13, <2>1 DEF Claiming, Claim, Broad, SameClaim
  <2>2. CASE o \notin Recorded
    <3>1. Passed(o)'  BY <1>13, <2>2 DEF Claiming
    <3>2. Passed(o) /\ work'[o] = work[o]  BY <1>17, <3>1 DEF Passed, On, Create
    <3> QED  BY <1>13, <2>2, <3>2 DEF Claiming, Claim, Broad, SameClaim
  <2> QED  BY <2>1, <2>2
<1>20. \A s, o \in Runs : Holds(s, o)' <=> Holds(s, o)
  BY <1>1, <1>4, <1>5, <1>14, <1>15 DEF Holds, Unmoved, Others
<1>21. RunsFit'
  <2>1. RunFits(r, work'[r])  BY <1>1, <1>4, <1>6 DEF RunFits, Unmoved, MainAts, RenameMain
  <2>2. \A s \in Runs : IsRun(work'[s]) => up' /\ RunFits(s, work'[s])
    BY <1>1, <1>5, <2>1 DEF Ordered, RunsFit, Others
  <2>3. \A o \in Recorded : OpFits(ops'[o])
    BY <1>9, <1>11, ZenonT(60) DEF Ordered, RunsFit, OpFits, Recorded
  <2> QED  BY <1>13, <2>2, <2>3 DEF RunsFit
<1>22. Agreed'
  <2> SUFFICES ASSUME NEW s \in Runs, NEW o \in Runs, Holds(s, o)  PROVE Agrees(s, o)'
    BY <1>20 DEF Agreed
  <2>1. Agrees(s, o)  BY DEF Ordered, Agreed
  <2>2. CASE s = r
    <3>1. o = r  BY <1>7, <2>2 DEF Holds
    <3> QED  BY <1>4, <1>11, <1>13, <2>1, <2>2, <3>1 DEF Agrees, Unmoved, MainAts, RenameMain
  <2>3. CASE s # r
    <3>1. o # r  BY <1>7, <2>3 DEF Ordered, OneHolds
    <3> QED  BY <1>5, <1>9, <1>13, <2>1, <2>3, <3>1 DEF Agrees, Others
  <2> QED  BY <2>2, <2>3
<1>23. DeeperHeld'
  <2> SUFFICES ASSUME NEW o \in Recorded', Renames(o)', ops'[o].stage = "Sub", Deeper(o)'
               PROVE  \E s \in Runs : Holds(s, o)'
    BY DEF DeeperHeld
  <2>1. CASE o = r  BY <1>7, <1>20, <2>1
  <2>2. CASE o # r
    <3>1. o \in Recorded /\ o \in Runs /\ ops'[o] = ops[o]
      BY <1>9, <1>13, <2>2 DEF Recorded
    <3>2. Renames(o) /\ Deeper(o)  BY <1>13, <3>1 DEF Renames, Deeper, Claim
    <3> QED  BY <1>20, <3>1, <3>2 DEF Ordered, DeeperHeld
  <2> QED  BY <2>1, <2>2
<1>24. OneHolds'  BY <1>20 DEF Ordered, OneHolds
<1>25. OneOpen' /\ SeenShrinks' /\ Apart' /\ Outside'
  BY <1>13, <1>18, <1>19, OneOpenStays, SeenStays, ApartStays, OutsideStays DEF Ordered
<1>26. Ordered'  BY <1>21, <1>22, <1>23, <1>24, <1>25 DEF Ordered
<1> QED
  BY <1>1, <1>4, <1>5, <1>7, <1>9, <1>11, <1>12, <1>13, <1>18, <1>19, <1>20, <1>26

-----------------------------------------------------------------------------
(* Time passes for an operation.                                             *)
LEMMA TimeOrders ==
    ASSUME Typed, Ordered, NEW p \in Runs, TimePasses(p)
    PROVE  /\ Ordered' /\ Settled /\ NoneOpens /\ OpsStay /\ work' = work /\ up' = up
<1> Held  BY DEF Typed
<1>1. /\ p \in Recorded /\ ops' = [ops EXCEPT ![p].ahead = FALSE] /\ work' = work /\ up' = up
  BY DEF TimePasses, Resumable, Unchanged
<1>2. OpTyped(ops[p], Ids)  BY <1>1 DEF Typed
<1>3. ops'[p] = [ops[p] EXCEPT !.ahead = FALSE] /\ \A o \in Runs \ {p} : ops'[o] = ops[o]
  BY <1>1 DEF Held
<1>4. Alike(ops[p], ops'[p]) /\ ops'[p] # NoOp  BY <1>2, <1>3 DEF OpTyped, Alike, NoOp
<1>5. OpsStay  BY <1>1, <1>3, <1>4 DEF OpsStay, Recorded, Alike
<1>6. Recorded' = Recorded /\ \A o \in Recorded : Alike(ops[o], ops'[o])
  BY <1>5 DEF OpsStay
<1>7. \A s : (Open(s)' <=> Open(s)) /\ \A o : Holds(s, o)' <=> Holds(s, o)
  BY <1>1 DEF Open, Holds
<1>8. NoneOpens  BY <1>1, <1>7 DEF NoneOpens, On
<1>9. Settled
  <2> SUFFICES ASSUME NEW o \in Runs, Claiming(o)'
               PROVE  /\ Claiming(o) /\ SameClaim(Claim(o), Claim(o)')
                      /\ Broad(o)' => Broad(o)
    BY DEF Settled, Broad
  <2>1. CASE o \in Recorded
    BY <1>6, <2>1 DEF Claiming, Claim, Broad, SameClaim, Alike
  <2>2. CASE o \notin Recorded
    <3>1. Passed(o)'  BY <1>6, <2>2 DEF Claiming
    <3>2. Passed(o) /\ work'[o] = work[o]  BY <1>1, <1>7, <3>1 DEF Passed, On, Create
    <3> QED  BY <1>6, <2>2, <3>2 DEF Claiming, Claim, Broad, SameClaim
  <2> QED  BY <2>1, <2>2
<1>10. RunsFit'  BY <1>1, <1>6 DEF Ordered, RunsFit, OpFits, Alike
<1>11. Agreed'
  <2> SUFFICES ASSUME NEW s \in Runs, NEW o \in Runs, Holds(s, o)  PROVE Agrees(s, o)'
    BY <1>7 DEF Agreed
  <2>1. Agrees(s, o)  BY DEF Ordered, Agreed
  <2> QED  BY <1>1, <1>6, <2>1 DEF Agrees, Alike
<1>12. DeeperHeld'
  <2> SUFFICES ASSUME NEW o \in Recorded', Renames(o)', ops'[o].stage = "Sub", Deeper(o)'
               PROVE  \E s \in Runs : Holds(s, o)'
    BY DEF DeeperHeld
  <2>1. o \in Recorded /\ Alike(ops[o], ops'[o]) /\ o \in Runs  BY <1>6 DEF Recorded
  <2>2. Renames(o) /\ Deeper(o) /\ ops[o].stage = "Sub"
    BY <1>6, <2>1 DEF Renames, Deeper, Claim, Alike
  <2> QED  BY <1>7, <2>1, <2>2 DEF Ordered, DeeperHeld
<1>13. OneHolds'  BY <1>7 DEF Ordered, OneHolds
<1>14. OneOpen' /\ SeenShrinks' /\ Apart' /\ Outside'
  BY <1>6, <1>8, <1>9, OneOpenStays, SeenStays, ApartStays, OutsideStays DEF Ordered
<1> QED  BY <1>1, <1>5, <1>8, <1>9, <1>10, <1>11, <1>12, <1>13, <1>14 DEF Ordered

-----------------------------------------------------------------------------
(* A run passes the check, and claims its paths.                             *)
Claims(r) ==
    /\ Open(r) /\ Open(r)' /\ Others(r) /\ UNCHANGED ops
    /\ work[r].at = "check" /\ work'[r].at # "check" /\ work[r].kind # "create"
    /\ Unmoved(work[r], work'[r]) /\ RunFits(r, work'[r])
    /\ CanOperate(work[r].recursively, work[r].copy.path, work[r].to)
    /\ ~Covers(work[r].to) /\ work[r].seen = Recorded

LEMMA CheckClaims ==
    ASSUME Held, Ordered, NEW r \in Runs, Check(r), ~history'.crowded
    PROVE  (Leaves(r) /\ UNCHANGED ops /\ work'[r] = Over) \/ Claims(r)
<1>1. IsRun(work[r]) /\ work[r].at = "check"  BY RunsAreRuns DEF Held, Check, On
<1>2. Early(work[r].kind, "check") /\ work[r].kind \in {"rename", "delete", "erase"}
  BY <1>1 DEF IsRun, Early, Holding, Late
<1>3. UNCHANGED <<ops, up>>  BY DEF Check, Unchanged
<1>4. CASE End(r)
  <2>1. Others(r) /\ work'[r] = Over  BY <1>3, <1>4 DEF Held, WorkShape, End, Others
  <2> QED  BY <1>1, <1>3, <2>1 DEF Leaves
<1>5. CASE ~End(r)
  <2> DEFINE refused == \/ Rename(r) /\ \E i \in At(work[r].to) : pages[i].kind = "page"
                        \/ ~CanOperate(work[r].recursively, work[r].copy.path, work[r].to)
             replaced == Removes(r) /\ ~work[r].recursively /\ Children(work[r].id) # {}
  <2>1. /\ ~refused
        /\ \/ Rename(r) /\ Go(r, "record")
           \/ replaced /\ Go(r, "replace")
           \/ ~replaced /\ Delete(r) /\ Go(r, "trash")
           \/ ~replaced /\ Erase(r) /\ Go(r, "shrink")
        /\ history' = [history EXCEPT
                 !.crowded = @ \/ (~refused /\ (work[r].seen # Recorded \/ Covers(work[r].to))),
                 !.doubled = @ \/ (~refused /\ Rename(r) /\ At(work[r].to) # {})]
    BY <1>5 DEF Check
  <2>2. CanOperate(work[r].recursively, work[r].copy.path, work[r].to)  BY <2>1
  <2>3. PICK at \in {"record", "replace", "trash", "shrink"} :
          /\ Go(r, at)
          /\ at = "record" => work[r].kind = "rename"
          /\ at = "replace" => work[r].kind \in {"delete", "erase"} /\ ~work[r].recursively
          /\ at = "trash" => work[r].kind = "delete"
          /\ at = "shrink" => work[r].kind = "erase"
    BY <2>1 DEF Rename, Removes, Delete, Erase
  <2>4. work[r].seen = Recorded /\ ~Covers(work[r].to)
    <3> HIDE DEF refused, replaced
    <3> QED  BY <2>1 DEF Held, HasHistory
  <2> HIDE DEF refused, replaced
  <2>5. Moves(r) /\ work'[r] = [work[r] EXCEPT !.at = at]
    BY <2>3 DEF Held, WorkShape, Go, Moves
  <2>6. Unmoved(work[r], work'[r]) /\ work'[r].at = at
    BY <1>1, <2>5 DEF IsRun, HasFields, Unmoved
  <2>7. Early(work[r].kind, at)  BY <2>3 DEF Early
  <2>8. RunFits(r, work[r])  BY <1>1 DEF Ordered, RunsFit
  <2>9. RunFits(r, work'[r])
    <3>1. at \notin MainAts \cup {"recordDelete", "stream", "batch", "done", "cleanup", "adopt", "erase"}
      BY DEF MainAts, RenameMain
    <3> QED  BY <2>3, <2>6, <2>8, <3>1 DEF RunFits, Unmoved
  <2>10. Others(r)  BY <1>3, <2>5 DEF Held, WorkShape, Moves, Others
  <2>11. Open(r) /\ Open(r)'
    BY <1>1, <1>2, <2>6, <2>7 DEF Open, IsRun, Unmoved
  <2> QED
    BY <1>1, <1>2, <1>3, <2>2, <2>4, <2>6, <2>9, <2>10, <2>11 DEF Claims
<1> QED  BY <1>4, <1>5

(* All others claim what they have claimed, and all of them have recorded.   *)
LEMMA ClaimingSettles ==
    ASSUME Held, Ordered, NEW r \in Runs, Claims(r)
    PROVE  /\ \A o \in Runs \ {r} :
                /\ Claiming(o)' => Claiming(o) /\ o \in Recorded /\ Claim(o)' = Claim(o)
                /\ Broad(o)' => Broad(o)
           /\ Claiming(r)' /\ Claim(r)' = work'[r] /\ SameClaim(work[r], work'[r])
           /\ Broad(r)' <=> work[r].recursively
           /\ Recorded' = Recorded /\ r \notin Recorded
           /\ \A s \in Runs : (Open(s)' => s = r) /\ (Open(s) => s = r)
           /\ \A s, o \in Runs : Holds(s, o)' <=> Holds(s, o)
<1>1. Recorded' = Recorded  BY DEF Claims, Recorded
<1>2. r \notin Recorded  BY DEF Claims, Open, Held, NotYet
<1>3. \A s \in Runs : (Open(s)' => s = r) /\ (Open(s) => s = r)
  BY DEF Claims, Others, Ordered, OneOpen, Open
<1>4. ASSUME NEW o \in Runs \ {r}, Claiming(o)'
      PROVE  /\ Claiming(o) /\ o \in Recorded /\ Claim(o)' = Claim(o)
             /\ Broad(o)' => Broad(o)
  <2>1. o \in Recorded  BY <1>1, <1>3, <1>4 DEF Claiming, Passed
  <2> QED  BY <1>1, <1>4, <2>1 DEF Claims, Claiming, Claim, Broad
<1>5. Claiming(r)' /\ Claim(r)' = work'[r] /\ SameClaim(work[r], work'[r])
  BY <1>1, <1>2 DEF Claims, Claiming, Passed, On, Create, Claim, Unmoved, SameClaim
<1>6. Broad(r)' <=> work[r].recursively
  BY <1>1, <1>2, <1>5 DEF Broad, Claims, Unmoved
<1>7. \A s, o \in Runs : Holds(s, o)' <=> Holds(s, o)
  <2>1. ~Holding(work[r].kind, work[r].at) /\ ~Holding(work[r].kind, work'[r].at)
    BY PhasesDiffer DEF Claims, Open, Unmoved
  <2> QED  BY <2>1 DEF Claims, Others, Holds, Unmoved
<1>8. \A o \in Runs \ {r} : Broad(o)' => Claiming(o)'  BY DEF Broad
<1> QED  BY <1>1, <1>2, <1>3, <1>4, <1>5, <1>6, <1>7, <1>8

(* canOperate keeps the paths of a recursive run and those of an operation   *)
(* apart, both ways.                                                         *)
LEMMA ClaimIsFree ==
    ASSUME Ordered, NEW o \in Recorded, Claiming(o), NEW recursively, NEW from, NEW to,
           CanOperate(recursively, from, to), from # NoPath
    PROVE  /\ ~InArea(o, from) /\ (to # NoPath => ~InArea(o, to))
           /\ recursively => \A p \in PathsOf(o) : ~IsPrefix(from, p)
           /\ ~Covers(to) => \A p \in PathsOf(o) : ~IsPrefix(to, p)
<1>1. PathsOf(o) = {ops[o].from, ops[o].to} \ {NoPath}
  BY DEF Ordered, RunsFit, OpFits, PathsOf, Claim
<1> QED  BY <1>1 DEF CanOperate, EitherOverlap, AreaOverlap, InArea, Covers

(* Operations that stay, with their runs.                                    *)
LEMMA HoldersStay ==
    ASSUME Ordered, Recorded' = Recorded, ops' = ops,
           \A s, o \in Runs : Holds(s, o)' <=> Holds(s, o)
    PROVE  OneHolds' /\ DeeperHeld'
<1>1. OneHolds'  BY DEF Ordered, OneHolds
<1>2. DeeperHeld'
  <2> SUFFICES ASSUME NEW o \in Recorded', Renames(o)', ops'[o].stage = "Sub", Deeper(o)'
               PROVE  \E s \in Runs : Holds(s, o)'
    BY DEF DeeperHeld
  <2>1. o \in Recorded /\ o \in Runs /\ Renames(o) /\ Deeper(o)
    BY DEF Recorded, Renames, Deeper, Claim
  <2> QED  BY <2>1 DEF Ordered, DeeperHeld
<1> QED  BY <1>1, <1>2

LEMMA ClaimingKeepsOrder ==
    ASSUME Held, Ordered, NEW r \in Runs, Claims(r)
    PROVE  Ordered'
<1>1. /\ \A o \in Runs \ {r} :
           /\ Claiming(o)' => Claiming(o) /\ o \in Recorded /\ Claim(o)' = Claim(o)
           /\ Broad(o)' => Broad(o)
      /\ Claiming(r)' /\ Claim(r)' = work'[r] /\ SameClaim(work[r], work'[r])
      /\ Broad(r)' <=> work[r].recursively
      /\ Recorded' = Recorded /\ r \notin Recorded
      /\ \A s \in Runs : (Open(s)' => s = r) /\ (Open(s) => s = r)
      /\ \A s, o \in Runs : Holds(s, o)' <=> Holds(s, o)
  BY ClaimingSettles
<1>2. ops' = ops /\ \A s \in Runs \ {r} : work'[s] = work[s]  BY DEF Claims, Others
<1>3. CopyFits(work[r].copy) /\ work[r].copy.path # NoPath
  <2>1. CopyFits(work[r].copy)  BY DEF Ordered, RunsFit, RunFits, Claims, Open
  <2> QED  BY <2>1, PrefixReflexive DEF CopyFits, IsPath, Paths
<1>4. ASSUME NEW o \in Runs \ {r}, Broad(o)'
      PROVE  /\ o \in Recorded /\ PathsOf(o)' = PathsOf(o)
             /\ \A path : InArea(o, path)' <=> InArea(o, path)
             /\ ~InArea(o, work[r].copy.path)
             /\ work[r].to # NoPath => ~InArea(o, work[r].to)
             /\ work[r].recursively => \A p \in PathsOf(o) : ~IsPrefix(work[r].copy.path, p)
             /\ \A p \in PathsOf(o) : ~IsPrefix(work[r].to, p)
  <2>1. Claiming(o) /\ o \in Recorded /\ Claim(o)' = Claim(o)
    BY <1>1, <1>4 DEF Broad
  <2>2. PathsOf(o)' = PathsOf(o)  BY <2>1 DEF PathsOf
  <2> QED  BY <1>3, <2>1, <2>2, ClaimIsFree DEF Claims, InArea
<1>5. PathsOf(r)' = {work[r].copy.path, work[r].to} \ {NoPath}
  BY <1>1 DEF PathsOf, SameClaim
<1>6. Apart'
  <2> SUFFICES ASSUME NEW o \in Runs, NEW q \in Runs, o # q, Broad(o)', Broad(q)',
                      NEW p \in PathsOf(o)'
               PROVE  ~InArea(q, p)'
    BY DEF Apart
  <2>1. CASE o = r
    BY <1>4, <1>5, <2>1
  <2>2. CASE q = r
    <3>1. work[r].recursively  BY <1>1, <2>2
    <3>2. \A e \in PathsOf(r)' : ~IsPrefix(e, p)  BY <1>4, <1>5, <2>2, <3>1
    <3> QED  BY <2>2, <3>2 DEF InArea
  <2>3. CASE o # r /\ q # r
    <3>1. p \in PathsOf(o) /\ Broad(o) /\ Broad(q) /\ (InArea(q, p)' <=> InArea(q, p))
      BY <1>1, <1>4, <2>3
    <3> QED  BY <3>1 DEF Ordered, Apart
  <2> QED  BY <2>1, <2>2, <2>3
<1>7. Outside'
  <2> SUFFICES ASSUME NEW s \in Runs, NEW o \in Runs, Broad(o)', Open(s)'
               PROVE  (/\ Create(s) => ~InArea(o, work[s].to)
                       /\ Passed(s) /\ ~work[s].recursively => ~InArea(o, work[s].copy.path))'
    BY DEF Outside, Passed
  <2>1. s = r  BY <1>1
  <2>2. ~Create(r)' /\ work'[r].recursively = work[r].recursively
        /\ work'[r].copy = work[r].copy
    BY DEF Claims, Unmoved, Create
  <2>3. CASE o = r  BY <1>1, <2>1, <2>2, <2>3
  <2>4. CASE o # r  BY <1>4, <2>1, <2>2, <2>4
  <2> QED  BY <2>3, <2>4
<1>8. OneOpen'  BY <1>1 DEF OneOpen
<1>9. SeenShrinks'  BY <1>1 DEF SeenShrinks, Claims, On
<1>10. RunsFit'
  BY <1>1, <1>2 DEF Ordered, RunsFit, Claims, Others, Open
<1>11. OneHolds' /\ DeeperHeld'
  BY <1>1, <1>2, HoldersStay
<1>12. Agreed'
  <2> SUFFICES ASSUME NEW s \in Runs, NEW o \in Runs, Holds(s, o)  PROVE Agrees(s, o)'
    BY <1>1 DEF Agreed
  <2>1. s # r  BY PhasesDiffer DEF Holds, Claims, Open
  <2> QED  BY <1>1, <1>2, <2>1 DEF Ordered, Agreed, Agrees
<1> QED  BY <1>6, <1>7, <1>8, <1>9, <1>10, <1>11, <1>12 DEF Ordered

-----------------------------------------------------------------------------
(* A run begins, with nobody open.                                           *)
Begins(r) ==
    /\ up /\ work[r] = Idle /\ IsRun(work'[r]) /\ Others(r) /\ UNCHANGED ops
    /\ Early(work'[r].kind, work'[r].at) /\ RunFits(r, work'[r])
    /\ work'[r].kind # "create" => work'[r].at = "check"
    /\ work'[r].kind = "create" => CanOperate(FALSE, NoPath, work'[r].to) /\ work'[r].to # NoPath
    /\ work'[r].seen = Recorded
    /\ \A s \in Runs : ~Open(s)

LEMMA BeginningSettles ==
    ASSUME Held, NEW r \in Runs, Begins(r)
    PROVE  /\ Settled /\ Recorded' = Recorded /\ r \notin Recorded
           /\ \A s \in Runs : Open(s)' => s = r
           /\ \A s, o \in Runs : Holds(s, o)' <=> Holds(s, o)
<1>1. Recorded' = Recorded /\ r \notin Recorded
  BY DEF Begins, Recorded, Held, NotYet
<1>2. \A s \in Runs : Open(s)' => s = r  BY DEF Begins, Others, Open
<1>3. ASSUME NEW o \in Runs, Claiming(o)'
      PROVE  /\ Claiming(o) /\ SameClaim(Claim(o), Claim(o)')
             /\ Broad(o)' => Broad(o)
  <2>1. o \in Recorded
    BY <1>1, <1>2, <1>3 DEF Claiming, Passed, Begins, On, Create
  <2> QED  BY <1>1, <1>3, <2>1 DEF Begins, Claiming, Claim, Broad, SameClaim
<1>4. Settled  BY <1>3 DEF Settled, Broad
<1>5. \A s, o \in Runs : Holds(s, o)' <=> Holds(s, o)
  BY PhasesDiffer, RunIsNeither DEF Begins, Others, Holds
<1> QED  BY <1>1, <1>2, <1>4, <1>5

LEMMA BeginningKeepsOrder ==
    ASSUME Held, Ordered, NEW r \in Runs, Begins(r)
    PROVE  Ordered'
<1>1. /\ Settled /\ Recorded' = Recorded /\ r \notin Recorded
      /\ \A s \in Runs : Open(s)' => s = r
      /\ \A s, o \in Runs : Holds(s, o)' <=> Holds(s, o)
  BY BeginningSettles
<1>2. ops' = ops /\ \A s \in Runs \ {r} : work'[s] = work[s]  BY DEF Begins, Others
<1>3. Outside'
  <2> SUFFICES ASSUME NEW s \in Runs, NEW o \in Runs, Broad(o)', Open(s)'
               PROVE  (/\ Create(s) => ~InArea(o, work[s].to)
                       /\ Passed(s) /\ ~work[s].recursively => ~InArea(o, work[s].copy.path))'
    BY DEF Outside, Passed
  <2>1. s = r  BY <1>1
  <2>2. ~Passed(r)'  BY DEF Begins, Passed, On, Create
  <2>3. o # r /\ Broad(o) /\ \A path : InArea(o, path)' <=> InArea(o, path)
    BY <1>1, <2>2, SettledPaths DEF Broad, Claiming
  <2>4. o \in Recorded /\ Claiming(o)  BY <2>3 DEF Broad, Claiming, Begins, Passed
  <2>5. PathsOf(o) = {ops[o].from, ops[o].to} \ {NoPath}
    BY <2>4 DEF Ordered, RunsFit, OpFits, PathsOf, Claim
  <2>6. Create(r)' => ~InArea(o, work'[r].to)
    BY <2>4, <2>5 DEF Begins, Create, CanOperate, AreaOverlap, InArea
  <2> QED  BY <2>1, <2>2, <2>3, <2>6
<1>4. OneOpen' /\ SeenShrinks'  BY <1>1 DEF OneOpen, SeenShrinks, Begins
<1>5. RunsFit'
  <2>1. up'  BY DEF Begins, Others
  <2> QED  BY <1>1, <1>2, <2>1 DEF Ordered, RunsFit, Begins
<1>6. OneHolds' /\ DeeperHeld'
  BY <1>1, <1>2, HoldersStay
<1>7. Agreed'
  <2> SUFFICES ASSUME NEW s \in Runs, NEW o \in Runs, Holds(s, o)  PROVE Agrees(s, o)'
    BY <1>1 DEF Agreed
  <2>1. s # r  BY RunIsNeither DEF Holds, Begins
  <2> QED  BY <1>1, <1>2, <2>1 DEF Ordered, Agreed, Agrees
<1>8. Apart'  BY <1>1, ApartStays DEF Ordered
<1> QED  BY <1>3, <1>4, <1>5, <1>6, <1>7, <1>8 DEF Ordered

(* What is asked for has a path, and so has a page that is moved or removed. *)
LEMMA BeginBegins ==
    ASSUME Held, NEW r \in Runs, NEW kind \in {"rename", "create", "delete", "erase"},
           NEW id, NEW to, NEW redirect, NEW recursively, NEW at,
           Begin(r, kind, id, to, redirect, recursively, at), ~history'.crowded,
           at = IF kind = "create" THEN "clear" ELSE "check",
           kind = "rename" => recursively = TRUE,
           kind \in {"delete", "erase"} => to = NoPath,
           kind # "create" => id # NoId /\ CopyFits(pages[id]),
           kind = "create" => CanOperate(FALSE, NoPath, to) /\ to # NoPath
    PROVE  Begins(r)
<1> DEFINE copy == IF id = NoId THEN NoPage ELSE pages[id]
           todo == IF kind = "erase" THEN {"page", "redirects"} ELSE {}
<1>1. /\ up /\ up' = up /\ UNCHANGED ops /\ work[r] = Idle
      /\ work' = [work EXCEPT ![r] =
          [at |-> at, kind |-> kind, op |-> r, id |-> id, to |-> to,
           copy |-> copy, parent |-> NoId,
           redirect |-> redirect, recursively |-> recursively, ids |-> {},
           todo |-> todo, sum |-> 0, seen |-> Recorded, resumed |-> FALSE, ticked |-> FALSE]]
  BY DEF Begin, Spend
<1>2. kind # "create" => CopyFits(copy)  OBVIOUS
<1> HIDE DEF copy, todo
<1>3. /\ HasFields(work'[r]) /\ work'[r].at = at /\ work'[r].kind = kind /\ work'[r].op = r
      /\ work'[r].to = to /\ work'[r].copy = copy /\ work'[r].recursively = recursively
      /\ work'[r].seen = Recorded /\ work'[r].resumed = FALSE
  BY <1>1, ZenonT(60) DEF Held, WorkShape, HasFields
<1>4. Early(kind, at)  BY DEF Early
<1>5. IsRun(work'[r])  BY <1>3, <1>4 DEF IsRun
<1>6. Others(r)  BY <1>1 DEF Held, WorkShape, Others
<1>7. RunFits(r, work'[r])
  <2>1. at \notin MainAts \cup {"recordDelete", "stream", "batch", "done", "cleanup", "replace",
                                "adopt", "erase", "trash", "signpost"}
    BY DEF MainAts, RenameMain
  <2> QED  BY <1>2, <1>3, <2>1 DEF RunFits
<1>8. \A s \in Runs : ~Open(s)
  <2> SUFFICES ASSUME NEW s \in Runs, Open(s)  PROVE FALSE
    OBVIOUS
  <2>1. s \in InFlight /\ work[s].op \notin Recorded
    BY DEF Open, Held, NotYet, InFlight, Early
  <2>2. history'.crowded  BY <2>1 DEF Begin, Unrecorded, Held, HasHistory
  <2> QED  BY <2>2
<1> QED  BY <1>1, <1>3, <1>4, <1>5, <1>6, <1>7, <1>8 DEF Begins

(* Whose paths are read when a request begins.                               *)
Placed(docs) ==
    \A i \in DOMAIN docs \ {Top} :
        docs[i].kind \in {"page", "empty"} => IsPath(docs[i].path) /\ docs[i].path # <<>>

LEMMA PathsAreFree ==
    ASSUME NEW path, IsPath(path)
    PROVE  path # NoPath
  BY PrefixReflexive DEF IsPath, Paths

LEMMA RequestBegins ==
    ASSUME Typed, Placed(pages), NEW r \in Runs, Request(r), ~history'.crowded
    PROVE  Begins(r)
<1> Held  BY DEF Typed
<1>1. ASSUME NEW i \in Ids, pages[i].kind \in {"page", "empty"}, i # Top, OnTree(i)
      PROVE  i # NoId /\ CopyFits(pages[i])
  <2>1. i # NoId  BY IdsAreCounted DEF Typed
  <2> QED  BY <1>1, <2>1 DEF Placed, CopyFits, OnTree, Ids
<1>2. ASSUME NEW i \in Ids, NEW to, NEW redirect, BeginRename(r, i, to, redirect)
      PROVE  Begins(r)
  BY <1>1, <1>2, BeginBegins DEF BeginRename
<1>3. ASSUME NEW path \in asked.creates, BeginCreate(r, path)
      PROVE  Begins(r)
  <2>1. path # NoPath  BY PathsAreFree DEF Typed, AskedTyped
  <2> QED  BY <1>3, <2>1, BeginBegins DEF BeginCreate
<1>4. ASSUME NEW i \in Ids, NEW recursively, BeginDelete(r, i, recursively)
      PROVE  Begins(r)
  BY <1>1, <1>4, BeginBegins DEF BeginDelete
<1>5. ASSUME NEW i \in Ids, NEW recursively, BeginErase(r, i, recursively)
      PROVE  Begins(r)
  BY <1>1, <1>5, BeginBegins DEF BeginErase
<1> QED  BY <1>2, <1>3, <1>4, <1>5 DEF Request

-----------------------------------------------------------------------------
(* Operations are resumed that nobody holds.                                 *)
Resumes(who) ==
    /\ UNCHANGED ops /\ up'
    /\ \A r \in Runs \ DOMAIN who : work'[r] = work[r]
    /\ \A r \in DOMAIN who :
          /\ r \in Runs /\ who[r] \in Resumable /\ ~IsRun(work[r]) /\ work'[r] = Resumed(who[r])
          /\ \A s \in Runs : ~Holds(s, who[r])
          /\ \A s \in DOMAIN who : who[s] = who[r] => s = r

LEMMA ResumeResumes ==
    ASSUME Held, NEW r \in Runs, NEW o, Resume(o, r), ~history'.crowded
    PROVE  Resumes([s \in {r} |-> o])
<1>1. /\ o \in Resumable /\ UNCHANGED <<ops, up>> /\ up
      /\ work' = [work EXCEPT ![r] = Resumed(o)] /\ work[r] \in {Idle, Over}
  BY DEF Resume
<1>2. work'[r] = Resumed(o) /\ \A s \in Runs \ {r} : work'[s] = work[s]
  BY <1>1 DEF Held, WorkShape
<1>3. ~IsRun(work[r])  BY <1>1, RunIsNeither
<1>4. ASSUME NEW s \in Runs, Holds(s, o)  PROVE FALSE
  <2>1. s \in InFlight /\ work[s].op \in {o}  BY <1>4 DEF Holds, Holding, InFlight
  <2>2. history'.crowded  BY <2>1 DEF Resume, Redone, Held, HasHistory
  <2> QED  BY <2>2
<1> QED  BY <1>1, <1>2, <1>3, <1>4 DEF Resumes

LEMMA BootResumes ==
    ASSUME Held, Ordered, Boot
    PROVE  \E S \in SUBSET Resumable : Resumes([s \in S |-> s])
<1> DEFINE due == {o \in Resumable : Found(ops[o].id)}
           resumed == {o \in due : \A p \in due :
                          ops[p].order <= ops[o].order => ~ops[p].ahead}
<1>1. /\ ~up /\ up' = TRUE /\ ops' = ops
      /\ work' = [r \in Runs |-> IF r \in resumed THEN Resumed(r) ELSE work[r]]
  BY DEF Boot
<1>2. resumed \subseteq Resumable  OBVIOUS
<1> HIDE DEF resumed
<1>3. Resumable \subseteq Runs  BY DEF Resumable, Recorded
<1>4. \A s \in Runs : ~IsRun(work[s])  BY <1>1 DEF Ordered, RunsFit
<1>5. Resumes([s \in resumed |-> s])
  BY <1>1, <1>2, <1>3, <1>4 DEF Resumes, Holds
<1> QED  BY <1>2, <1>5

LEMMA ResumingSettles ==
    ASSUME Held, Ordered, NEW who, Resumes(who)
    PROVE  /\ Settled /\ NoneOpens /\ Recorded' = Recorded
           /\ \A s, o \in Runs :
                 Holds(s, o)' <=> Holds(s, o) \/ (s \in DOMAIN who /\ o = who[s])
<1>1. Recorded' = Recorded  BY DEF Resumes, Recorded
<1>2. \A o \in Resumable : /\ o \in Runs /\ IsRun(Resumed(o)) /\ Resumed(o).op = o
                           /\ ~Early(Resumed(o).kind, Resumed(o).at)
                           /\ Holding(Resumed(o).kind, Resumed(o).at)
  BY ResumedIsRun DEF Resumed, Holding, Resumable, Recorded
<1>3. \A s \in Runs : Open(s)' => Open(s) /\ work'[s] = work[s]
  BY <1>2 DEF Resumes, Open
<1>4. NoneOpens  BY <1>3 DEF NoneOpens, On
<1>5. ASSUME NEW o \in Runs, Claiming(o)'
      PROVE  /\ Claiming(o) /\ SameClaim(Claim(o), Claim(o)')
             /\ Broad(o)' => Broad(o)
  <2>1. CASE o \in Recorded
    BY <1>1, <1>5, <2>1 DEF Claiming, Claim, Broad, SameClaim, Resumes
  <2>2. CASE o \notin Recorded
    <3>1. Passed(o)'  BY <1>1, <1>5, <2>2 DEF Claiming
    <3>2. Passed(o) /\ work'[o] = work[o]  BY <1>3, <3>1 DEF Passed, On, Create
    <3> QED  BY <1>1, <2>2, <3>2 DEF Claiming, Claim, Broad, SameClaim
  <2> QED  BY <2>1, <2>2
<1>6. Settled  BY <1>5 DEF Settled, Broad
<1>7. \A s, o \in Runs :
        Holds(s, o)' <=> Holds(s, o) \/ (s \in DOMAIN who /\ o = who[s])
  <2> TAKE s, o \in Runs
  <2>1. CASE s \in DOMAIN who  BY <1>2, <2>1 DEF Resumes, Holds
  <2>2. CASE s \notin DOMAIN who  BY <2>2 DEF Resumes, Holds
  <2> QED  BY <2>1, <2>2
<1> QED  BY <1>1, <1>4, <1>6, <1>7

LEMMA ResumingKeepsOrder ==
    ASSUME Held, Ordered, NEW who, Resumes(who)
    PROVE  Ordered'
<1>1. /\ Settled /\ NoneOpens /\ Recorded' = Recorded /\ ops' = ops
      /\ \A s, o \in Runs :
            Holds(s, o)' <=> Holds(s, o) \/ (s \in DOMAIN who /\ o = who[s])
  BY ResumingSettles DEF Resumes
<1>2. ASSUME NEW r \in DOMAIN who
      PROVE  /\ who[r] \in Recorded /\ ops[who[r]].kind = "rename"
             /\ ops[who[r]].stage = "Sub" /\ OpFits(ops[who[r]])
  BY DEF Resumes, Resumable, Ordered, RunsFit
<1>3. RunsFit'
  <2>1. ASSUME NEW r \in DOMAIN who  PROVE RunFits(r, work'[r])
    <3>1. work'[r] = Resumed(who[r])  BY DEF Resumes
    <3>2. CopyFits(ops[who[r]].copy)  BY <1>2 DEF OpFits
    <3> QED  BY <3>1, <3>2 DEF RunFits, Resumed, MainAts, RenameMain
  <2>2. \A r \in Runs : IsRun(work'[r]) => up' /\ RunFits(r, work'[r])
    BY <2>1 DEF Ordered, RunsFit, Resumes
  <2> QED  BY <1>1, <2>2 DEF Ordered, RunsFit
<1>4. OneHolds'
  <2> SUFFICES ASSUME NEW o \in Runs, NEW r \in Runs, NEW s \in Runs, Holds(r, o)', Holds(s, o)'
               PROVE  r = s
    BY DEF OneHolds
  <2> QED  BY <1>1 DEF Resumes, Ordered, OneHolds
<1>5. Agreed'
  <2> SUFFICES ASSUME NEW s \in Runs, NEW o \in Runs, Holds(s, o)'  PROVE Agrees(s, o)'
    BY DEF Agreed
  <2>1. CASE s \in DOMAIN who
    <3>1. o = who[s]
      <4>1. ~Holds(s, o)  BY <2>1 DEF Resumes, Holds
      <4> QED  BY <1>1, <4>1
    <3>2. work'[s] = Resumed(o)  BY <2>1, <3>1 DEF Resumes
    <3> QED  BY <1>1, <1>2, <2>1, <3>1, <3>2 DEF Agrees, Resumed, MainAts, RenameMain
  <2>2. CASE s \notin DOMAIN who
    BY <1>1, <2>2 DEF Resumes, Ordered, Agreed, Agrees
  <2> QED  BY <2>1, <2>2
<1>6. DeeperHeld'
  <2> SUFFICES ASSUME NEW o \in Recorded', Renames(o)', ops'[o].stage = "Sub", Deeper(o)'
               PROVE  \E s \in Runs : Holds(s, o)'
    BY DEF DeeperHeld
  <2>1. o \in Recorded /\ o \in Runs /\ Renames(o) /\ Deeper(o)
    BY <1>1 DEF Recorded, Renames, Deeper, Claim
  <2> QED  BY <1>1, <2>1 DEF Ordered, DeeperHeld
<1>7. OneOpen' /\ SeenShrinks' /\ Apart' /\ Outside'
  BY <1>1, OneOpenStays, SeenStays, ApartStays, OutsideStays DEF Ordered
<1> QED  BY <1>3, <1>4, <1>5, <1>6, <1>7 DEF Ordered

(* Nobody is left by a crash; a rename below its own place would have been.  *)
LEMMA CrashKeepsOrder ==
    ASSUME Held, Ordered, Crash, ~history'.damaged
    PROVE  Ordered' /\ Settled /\ Recorded' = Recorded /\ ops' = ops
           /\ \A r \in Runs : ~IsRun(work'[r])
<1>1. /\ \A r \in Runs : ~IsRun(work'[r])
      /\ ops' = ops /\ Recorded' = Recorded
  <2>1. ASSUME NEW r \in Runs  PROVE ~IsRun(work'[r])
    BY RunIsNeither DEF Crash, InFlight, IsRun, Early, Holding, Late
  <2> QED  BY <2>1 DEF Crash, Recorded
<1>2. \A s \in Runs : ~Open(s)' /\ \A o \in Runs : ~Holds(s, o)'
  BY <1>1 DEF Open, Holds
<1>3. ASSUME NEW o \in Runs, Claiming(o)'
      PROVE  /\ Claiming(o) /\ SameClaim(Claim(o), Claim(o)')
             /\ Broad(o)' => Broad(o)
  <2>1. o \in Recorded  BY <1>1, <1>2, <1>3 DEF Claiming, Passed
  <2> QED  BY <1>1, <1>3, <2>1 DEF Claiming, Claim, Broad, SameClaim
<1>4. Settled  BY <1>3 DEF Settled, Broad
<1>5. NoneOpens  BY <1>2 DEF NoneOpens
<1>6. DeeperHeld'
  <2> SUFFICES ASSUME NEW o \in Recorded', Renames(o)', ops'[o].stage = "Sub", Deeper(o)'
               PROVE  FALSE
    BY DEF DeeperHeld
  <2>1. o \in Recorded /\ o \in Runs /\ Renames(o) /\ Deeper(o) /\ ops[o].stage = "Sub"
    BY <1>1 DEF Recorded, Renames, Deeper, Claim
  <2>2. PICK r \in Runs : Holds(r, o)  BY <2>1 DEF Ordered, DeeperHeld
  <2>3. Agrees(r, o)  BY <2>1, <2>2 DEF Ordered, Agreed
  <2>4. /\ work[r].kind = "rename" /\ work[r].op = o /\ work[r].at \notin MainAts
        /\ IsStrictPrefix(work[r].copy.path, work[r].to) /\ r \in InFlight
    BY <2>1, <2>2, <2>3 DEF Agrees, Renames, Deeper, Claim, Holds, Holding, InFlight
  <2>5. Dirty(r)
    BY <2>1, <2>4 DEF Dirty, Rename, On, UnderTarget, MainAts, RenameMain
  <2> QED  BY <2>4, <2>5 DEF Crash, Held, HasHistory
<1>7. RunsFit'  BY <1>1 DEF Ordered, RunsFit
<1>8. OneHolds' /\ Agreed'  BY <1>2 DEF OneHolds, Agreed
<1>9. OneOpen' /\ SeenShrinks' /\ Apart' /\ Outside'
  BY <1>1, <1>4, <1>5, OneOpenStays, SeenStays, ApartStays, OutsideStays DEF Ordered
<1> QED  BY <1>1, <1>4, <1>6, <1>7, <1>8, <1>9 DEF Ordered

LEMMA InitOrdered == Init => Ordered
<1> SUFFICES ASSUME Init  PROVE Ordered
  OBVIOUS
<1>1. \A r \in Runs : ~IsRun(work[r])  BY RunIsNeither DEF Init
<1>2. Recorded = {}  BY DEF Init, Recorded
<1>3. \A o \in Runs : ~Broad(o) /\ ~Open(o) /\ \A r \in Runs : ~Holds(r, o)
  BY <1>1, <1>2 DEF Broad, Claiming, Passed, Open, Holds
<1> QED
  BY <1>1, <1>2, <1>3 DEF Ordered, RunsFit, OneOpen, OneHolds, Agreed, SeenShrinks, Apart,
     Outside, DeeperHeld

-----------------------------------------------------------------------------
(* The pages as they are written, and what a run has taken off the tree of   *)
(* the others: its house, of which it is the only one to touch the pages.    *)

LiveOf(docs) == {i \in DOMAIN docs : docs[i].kind \in {"page", "empty"}}
Rooted(docs, i) == docs[i].parent # NoId \/ i = Top

(* A family: the document with the id, which is found at the path now, and   *)
(* those below it, F, of which L are still at their paths below from; guests *)
(* are the empty pages that will take the document's place.                  *)
HouseOf(c, F) == F \cup {c.id} \cup c.guests
Named(docs, c, L, j) == IF j \in L THEN Moved(docs[j].path, c.from, c.now) ELSE docs[j].path

Family(docs, c, F, L) ==
    /\ c.id \in DOMAIN docs \ {Top}
    /\ F \subseteq DOMAIN docs \ {Top, c.id} /\ L \subseteq F
    /\ c.guests \subseteq DOMAIN docs \ (F \cup {c.id, Top})
    /\ \A j \in DOMAIN docs : docs[j].parent \in HouseOf(c, F) => j \in F
    /\ \A j \in F \cap LiveOf(docs) :
          /\ docs[j].parent \in F \cup {c.id}
          /\ IsStrictPrefix(IF j \in L THEN c.from ELSE c.now, docs[j].path)
          /\ docs[j].parent \in LiveOf(docs) =>
                Front(Named(docs, c, L, j)) = Named(docs, c, L, docs[j].parent)
    /\ c.id \in LiveOf(docs) => docs[c.id].path = c.now
    /\ \A g \in c.guests :
          docs[g].kind = "empty" /\ docs[g].parent = NoId /\ IsPrefix(c.from, docs[g].path)

(* The other pages: each that is on the tree is below the page of its parent *)
(* path.                                                                     *)
Coherent(docs, H) ==
    /\ \A j \in DOMAIN docs \ LiveOf(docs) : docs[j].parent = NoId
    /\ \A j \in LiveOf(docs) : IsPath(docs[j].path)
    /\ \A j \in LiveOf(docs) \ {Top} : docs[j].path # <<>> /\
          (docs[j].parent \notin H \cup {NoId} =>
             /\ docs[j].parent \in LiveOf(docs) /\ Rooted(docs, docs[j].parent)
             /\ Front(docs[j].path) = docs[docs[j].parent].path)

Pinned(docs, H, i, path) ==
    i \notin H /\ (i \in LiveOf(docs) => docs[i].path = path)
Anchored(docs, H, i, path) ==
    Pinned(docs, H, i, path) /\ (i \in LiveOf(docs) => Rooted(docs, i))

(* Outside of H no page comes to life, changes its path or leaves the tree.  *)
Steady(docs, new, H) ==
    \A j \in DOMAIN docs \ H : j \in LiveOf(new) =>
        j \in LiveOf(docs) /\ new[j].path = docs[j].path /\ (Rooted(docs, j) => Rooted(new, j))

(* The pages of a house are left alone, and nobody moves in.                 *)
Stays(docs, new, j) ==
    j \in DOMAIN new /\ new[j].kind = docs[j].kind /\ new[j].path = docs[j].path
        /\ new[j].parent = docs[j].parent

Dead(docs, new, j) == j \in DOMAIN new \ (LiveOf(docs) \cup LiveOf(new))

Untouched(docs, new, c, F) ==
    /\ \A j \in F \cup c.guests : Dead(docs, new, j) \/ Stays(docs, new, j)
    /\ \/ Dead(docs, new, c.id)
       \/ c.id \in DOMAIN new /\ new[c.id].kind = docs[c.id].kind
                            /\ new[c.id].path = docs[c.id].path
    /\ Rooted(docs, c.id) => Rooted(new, c.id)
    /\ \A j \in DOMAIN new : new[j].parent \in HouseOf(c, F) =>
          j \in DOMAIN docs /\ docs[j].parent \in HouseOf(c, F)

(* All documents are where they were.                                        *)
SamePlaces(docs, new) ==
    /\ DOMAIN new = DOMAIN docs
    /\ \A j \in DOMAIN docs : Stays(docs, new, j)

LEMMA AnchoredStays ==
    ASSUME NEW docs, NEW new, NEW H, NEW H2, Steady(docs, new, H),
           NEW i \in DOMAIN docs \cup {NoId}, NoId \notin DOMAIN new, NEW path,
           i \in H2 => i \in H
    PROVE  /\ Pinned(docs, H, i, path) => Pinned(new, H2, i, path)
           /\ Anchored(docs, H, i, path) => Anchored(new, H2, i, path)
  BY DEF Steady, Pinned, Anchored, LiveOf, Rooted

LEMMA FamilyStays ==
    ASSUME NEW docs, NEW new, NEW c, NEW F, NEW L, Family(docs, c, F, L),
           Untouched(docs, new, c, F), DOMAIN docs \subseteq DOMAIN new
    PROVE  Family(new, c, F, L)
<1>1. /\ F \subseteq DOMAIN new \ {Top, c.id} /\ L \subseteq F
      /\ c.guests \subseteq DOMAIN new \ (F \cup {c.id, Top})
      /\ c.id \in DOMAIN new \ {Top}
  BY DEF Family
<1>2. \A j \in DOMAIN new : new[j].parent \in HouseOf(c, F) => j \in F
  BY DEF Family, Untouched
<1>3. ASSUME NEW j \in F \cap LiveOf(new)
      PROVE  /\ new[j].parent \in F \cup {c.id}
             /\ IsStrictPrefix(IF j \in L THEN c.from ELSE c.now, new[j].path)
             /\ new[j].parent \in LiveOf(new) =>
                   Front(Named(new, c, L, j)) = Named(new, c, L, new[j].parent)
  <2> DEFINE p == docs[j].parent
  <2>1. /\ new[j].kind = docs[j].kind /\ new[j].path = docs[j].path /\ new[j].parent = p
        /\ j \in DOMAIN docs
    BY DEF Untouched, Stays, Family, Dead, LiveOf
  <2>2. j \in F \cap LiveOf(docs)  BY <2>1 DEF LiveOf
  <2>3. p \in F \cup {c.id} /\ IsStrictPrefix(IF j \in L THEN c.from ELSE c.now, docs[j].path)
        /\ (p \in LiveOf(docs) => Front(Named(docs, c, L, j)) = Named(docs, c, L, p))
        /\ p \in DOMAIN docs
    BY <2>2 DEF Family
  <2>4. p \in LiveOf(new) => p \in LiveOf(docs) /\ new[p].path = docs[p].path
    BY <2>3 DEF Untouched, Stays, Dead, LiveOf
  <2>5. Named(new, c, L, j) = Named(docs, c, L, j)
        /\ (p \in LiveOf(new) => Named(new, c, L, p) = Named(docs, c, L, p))
    BY <2>1, <2>4 DEF Named
  <2> HIDE DEF p
  <2> QED  BY <2>1, <2>3, <2>4, <2>5
<1>4. c.id \in LiveOf(new) => new[c.id].path = c.now
  BY DEF Family, Untouched, LiveOf, Dead
<1>5. \A g \in c.guests :
          new[g].kind = "empty" /\ new[g].parent = NoId /\ IsPrefix(c.from, new[g].path)
  BY DEF Family, Untouched, Stays, Dead, LiveOf
<1>6. \A j \in F \cap LiveOf(new) :
             /\ new[j].parent \in F \cup {c.id}
             /\ IsStrictPrefix(IF j \in L THEN c.from ELSE c.now, new[j].path)
             /\ new[j].parent \in LiveOf(new) =>
                   Front(Named(new, c, L, j)) = Named(new, c, L, new[j].parent)
  BY <1>3
<1> QED  BY <1>1, <1>2, <1>4, <1>5, <1>6 DEF Family

(* A page is below the page of its parent path.                              *)
Hangs(docs, j) ==
    /\ docs[j].parent \in LiveOf(docs) /\ Rooted(docs, docs[j].parent)
    /\ Front(docs[j].path) = docs[docs[j].parent].path

LEMMA CoherentStays ==
    ASSUME NEW docs, NEW new, NEW H, NEW H2, Coherent(docs, H), Steady(docs, new, H),
           DOMAIN docs \subseteq DOMAIN new,
           \A j \in DOMAIN new \ LiveOf(new) : new[j].parent = NoId,
           \A j \in LiveOf(new) : IsPath(new[j].path) /\ (j # Top => new[j].path # <<>>),
           \A j \in LiveOf(new) \ {Top} :
              \/ new[j].parent \in H2 \cup {NoId}
              \/ Hangs(new, j)
              \/ /\ j \in LiveOf(docs) /\ new[j].path = docs[j].path
                 /\ new[j].parent = docs[j].parent
                 /\ docs[j].parent \notin H \cup {NoId} /\ docs[j].parent \in LiveOf(new)
    PROVE  Coherent(new, H2)
<1> SUFFICES ASSUME NEW j \in LiveOf(new) \ {Top}, new[j].parent \notin H2 \cup {NoId},
                    ~Hangs(new, j)
             PROVE  Hangs(new, j)
  BY DEF Coherent, Hangs
<1> DEFINE p == docs[j].parent
<1>1. /\ j \in LiveOf(docs) \ {Top} /\ new[j].path = docs[j].path /\ new[j].parent = p
      /\ p \notin H \cup {NoId} /\ p \in LiveOf(new)
  OBVIOUS
<1>2. p \in LiveOf(docs) /\ Rooted(docs, p) /\ Front(docs[j].path) = docs[p].path
  BY <1>1 DEF Coherent
<1>3. p \in DOMAIN docs \ H  BY <1>1, <1>2 DEF LiveOf
<1>4. new[p].path = docs[p].path /\ Rooted(new, p)
  BY <1>1, <1>2, <1>3 DEF Steady
<1> QED  BY <1>1, <1>2, <1>4 DEF Hangs

-----------------------------------------------------------------------------
(* The families of the operations and of the runs that have passed the       *)
(* check, fam, and what of them has not moved yet, left.                     *)

LivePages == LiveOf(pages)

(* The target of a rename has its new path.                                  *)
Moving(o) ==
    /\ o \in Recorded /\ Renames(o)
    /\ ops[o].stage = "Sub" \/ Is(o, {"bump", "redirect", "stage"})
(* The target may be off the tree.                                           *)
Off(o) == Is(o, {"find", "insert", "link", "plant", "graft", "put"})
Guests(o) == UNION {work[r].ids : r \in {s \in Runs : Holds(s, o) /\ On(s, "graft")}}

Claimed(o) ==
    [from |-> From(o), now |-> IF Moving(o) THEN Claim(o).to ELSE From(o),
     id |-> Claim(o).id, guests |-> Guests(o)]
House(o, F) == HouseOf(Claimed(o), F)
Housed(fam) == UNION {House(o, fam[o]) : o \in {q \in Runs : Broad(q)}}

(* A family as its operation goes on: a rename loses none and its target     *)
(* comes back to the tree; a removal has them all until the batches begin.   *)
Housing(o, F, L) ==
    /\ ~Moving(o) => L = {}
    /\ Renames(o) =>
          /\ ~IsPrefix(Claim(o).to, From(o))
          /\ F \cup {Claim(o).id} \subseteq LivePages
          /\ ~Off(o) => Rooted(pages, Claim(o).id)
    /\ Renames(o) /\ Deeper(o) /\ Is(o, {"bump", "redirect", "stage", "stream"}) => L = F
    /\ ~Renames(o) /\ (o \notin Recorded \/ Is(o, {"stream"})) => F \subseteq LivePages
    /\ o \notin Recorded /\ work[o].kind = "erase" /\ work[o].at \in {"shrink", "shrunk"} =>
          Claim(o).id \in LivePages /\ Rooted(pages, Claim(o).id)

Housings(fam, left) ==
    \A o \in Runs : Broad(o) =>
        Family(pages, Claimed(o), fam[o], left[o]) /\ Housing(o, fam[o], left[o])

(* The former parent is none that others move or remove.                     *)
Formers(fam) ==
    \A o \in Runs : Claiming(o) =>
        Anchored(pages, Housed(fam), Claim(o).copy.parent, Front(From(o)))

(* What a run has read still holds.                                          *)
Clear(path) == \A o \in Runs : Broad(o) => ~InArea(o, path)
Free(path) == \A o \in Runs : Broad(o) => \A p \in PathsOf(o) : ~EitherOverlap(p, path)

Checking(r, fam) ==
    Open(r) /\ On(r, "check") /\ work[r].seen = Recorded /\ Clear(work[r].copy.path) =>
        /\ Anchored(pages, Housed(fam), work[r].copy.parent, Front(work[r].copy.path))
        /\ Anchored(pages, Housed(fam), work[r].id, work[r].copy.path)
        /\ Free(work[r].copy.path) /\ work[r].recursively => work[r].id \in LivePages

Placing(r, fam) ==
    IsRun(work[r]) /\ work[r].at \in {"put", "save"} =>
        /\ Anchored(pages, Housed(fam), work[r].parent, Front(work[r].to))
        /\ \A s \in Runs : Open(s) /\ On(s, "adopt") => work[s].parent # work[r].parent

Creating(r, fam) ==
    Open(r) /\ Create(r) /\ ~On(r, "recordCreate") /\ work[r].id # NoId =>
        Pinned(pages, Housed(fam), work[r].id, work[r].to)

Planting(r) ==
    IsRun(work[r]) /\ On(r, "graft") =>
        LET a == Earliest(work[r].ids)  from == work[r].copy.path
        IN  /\ UnderTarget(from, work[r].to)
            /\ work[r].ids = a .. a + (Len(work[r].to) - Len(from)) - 1
            /\ \A i \in work[r].ids :
                  pages[i].path = SubSeq(work[r].to, 1, Len(from) + (i - a))

(* The empty page that replaces one that others are below.                   *)
Adopting(r, fam) ==
    IsRun(work[r]) /\ On(r, "adopt") =>
        /\ work[r].id < work[r].parent
        /\ \A i \in {work[r].id, work[r].parent} :
              /\ i \in LivePages \ Housed(fam)
              /\ Rooted(pages, i) /\ pages[i].path = work[r].copy.path
        /\ pages[work[r].id].kind = "page" /\ Children(work[r].parent) = {}
        /\ \A o \in Runs : Claiming(o) => Claim(o).copy.parent # work[r].parent

ToDo(r) == {x[1] : x \in work[r].todo}

Batching(r, F, L) ==
    IsRun(work[r]) /\ On(r, "batch") =>
        /\ \A x, y \in work[r].todo : x[1] = y[1] => x = y
        /\ ToDo(r) \subseteq F
        /\ Rename(r) =>
              /\ \A x \in work[r].todo : pages[x[1]].path = x[2]
              /\ L \subseteq ToDo(r)
              /\ Deeper(work[r].op) => L = ToDo(r)
        /\ ~Rename(r) => F \cap LivePages \subseteq ToDo(r)

AfterBatches == {"unbump", "shrink", "shrunk", "grow", "grown", "prune", "pruned", "done"}

Batched(r, F, L) ==
    IsRun(work[r]) /\ Holding(work[r].kind, work[r].at) =>
        /\ Rename(r) /\ work[r].at \in AfterBatches => L = {}
        /\ Removes(r) /\ On(r, "done") => F \cap LivePages = {}

Treading(r) ==
    IsRun(work[r]) =>
        /\ Rename(r) /\ work[r].at \in {"insert", "link"} =>
              ~UnderTarget(work[r].copy.path, work[r].to)
        /\ Removes(r) /\ ~work[r].recursively => work[r].copy.kind = "page"
        /\ Removes(r) /\ On(r, "answered") => ~work[r].recursively

Stands(r, fam, left) ==
    /\ Checking(r, fam) /\ Placing(r, fam) /\ Creating(r, fam) /\ Planting(r)
    /\ Adopting(r, fam) /\ Treading(r)
    /\ Batching(r, fam[work[r].op], left[work[r].op])
    /\ Batched(r, fam[work[r].op], left[work[r].op])

Nested(fam, left) ==
    /\ Coherent(pages, Housed(fam)) /\ Housings(fam, left) /\ Formers(fam)
    /\ \A r \in Runs : IsRun(work[r]) => Stands(r, fam, left)

(* A page that was empty when the batch of a deletion was read is not one    *)
(* that a creation will fill, nor that it has filled.                        *)
Fills(r) == IsRun(work[r]) /\ Create(r) /\ Open(r) /\ ~On(r, "recordCreate") /\ work[r].id # NoId
KindsKept ==
    /\ \A r, s \in Runs : Fills(r) /\ IsRun(work[s]) => ~Delete(s)
    /\ \A r \in Runs : Fills(r) => pages[work[r].id].kind # "trash"
    /\ \A r \in Runs : IsRun(work[r]) /\ Delete(r) /\ On(r, "batch") =>
          \A x \in work[r].todo : x[3] = "page" \/ pages[x[1]].kind # "page"
Kinds == ~history.crowded /\ ~history.stale => KindsKept

-----------------------------------------------------------------------------
(* A run that holds an operation, and one that is open.                      *)

LEMMA HolderIsOne ==
    ASSUME Ordered, NEW r \in Runs, NEW o \in Runs, Holds(r, o)
    PROVE  \A ats : Is(o, ats) <=> work[r].at \in ats
  BY DEF Ordered, OneHolds, Is

LEMMA HolderClaims ==
    ASSUME Ordered, NEW r \in Runs, NEW o \in Runs, Holds(r, o)
    PROVE  /\ o \in Recorded /\ work[r].op = o /\ Claim(o) = ops[o] /\ IsRun(work[r])
           /\ Claim(o).kind = work[r].kind /\ Claim(o).copy = work[r].copy
           /\ Claim(o).id = work[r].id
           /\ Renames(o) <=> Rename(r)
           /\ Rename(r) => Claim(o).to = work[r].to
           /\ Rename(r) => (ops[o].stage = "Main" <=> work[r].at \in MainAts)
           /\ Broad(o) <=> ~Create(r)
           /\ From(o) = work[r].copy.path
  BY DEF Ordered, Agreed, Agrees, Holds, Claim, Renames, Rename, Broad, Claiming, Create, From

LEMMA OpenClaims ==
    ASSUME Held, NEW r \in Runs, Open(r)
    PROVE  /\ r \notin Recorded /\ work[r].op = r /\ Claim(r) = work[r] /\ IsRun(work[r])
           /\ Claiming(r) <=> Passed(r)
           /\ Broad(r) <=> Passed(r) /\ work[r].recursively
           /\ From(r) = work[r].copy.path /\ (Renames(r) <=> Rename(r))
           /\ \A s \in Runs : ~Holds(s, r) \/ ~Ordered
<1>1. r \notin Recorded /\ work[r].op = r /\ IsRun(work[r])  BY DEF Held, NotYet, Open
<1>2. \A s \in Runs : Holds(s, r) /\ Ordered => FALSE
  BY <1>1 DEF Ordered, Agreed, Agrees
<1> QED
  BY <1>1, <1>2 DEF Claim, Claiming, Broad, From, Renames, Rename

LEMMA ClaimTyped ==
    ASSUME Typed, NEW o \in Runs, Claiming(o)
    PROVE  /\ Claim(o).copy.parent \in Ids \cup {NoId} /\ Claim(o).id \in Ids \ {Top}
           /\ Claim(o).copy.path \in Paths
           /\ Renames(o) => IsPath(Claim(o).to) /\ Claim(o).to # <<>>
<1>1. CASE o \in Recorded
  <2>1. OpTyped(ops[o], Ids) /\ Claim(o) = ops[o]  BY <1>1 DEF Typed, Claim
  <2> QED  BY <2>1 DEF OpTyped, IsDocument, Renames, Paths
<1>2. CASE o \notin Recorded
  <2>1. RunTyped(work[o], Ids) /\ Claim(o) = work[o] /\ work[o].kind # "create"
    BY <1>2 DEF Typed, Claim, Claiming, Passed, Open, Create
  <2> QED  BY <2>1 DEF RunTyped, IsDocument, Renames, Paths
<1> QED  BY <1>1, <1>2

LEMMA IsCollectionHasNoId ==
    ASSUME NEW docs, IsCollection(docs)
    PROVE  NoId \notin DOMAIN docs /\ Top \in DOMAIN docs /\ DOMAIN docs \subseteq Nat
<1>1. IsFiniteSet(DOMAIN docs) /\ DOMAIN docs = 0 .. Cardinality(DOMAIN docs) - 1
      /\ Top \in DOMAIN docs
  BY DEF IsCollection
<1>2. Cardinality(DOMAIN docs) \in Nat  BY <1>1, FS_CardinalityType
<1> QED  BY <1>1, <1>2 DEF NoId

LEMMA HouseHasIds ==
    ASSUME NEW docs, NEW c, NEW F, NEW L, Family(docs, c, F, L)
    PROVE  HouseOf(c, F) \subseteq DOMAIN docs \ {Top}
  BY DEF Family, HouseOf

LEMMA OpenIsAlone ==
    ASSUME Held, Ordered, NEW o \in Runs, o \notin Recorded, Claiming(o)
    PROVE  Open(o) /\ Passed(o) /\ \A s \in Runs : Open(s) => s = o
  BY DEF Claiming, Passed, Ordered, OneOpen

-----------------------------------------------------------------------------
(* An operation that is not the one of the step.                             *)

Still(q) ==
    /\ (Claiming(q)' <=> Claiming(q)) /\ (Broad(q)' <=> Broad(q))
    /\ (q \in Recorded)' <=> q \in Recorded
    /\ Claiming(q) => SameClaim(Claim(q), Claim(q)')
    /\ q \in Recorded => ops'[q].stage = ops[q].stage
    /\ \A s \in Runs : (Holds(s, q)' <=> Holds(s, q)) /\ (Holds(s, q) => work'[s] = work[s])
    /\ q \notin Recorded /\ Claiming(q) => work'[q] = work[q]

LEMMA StillSame ==
    ASSUME NEW q \in Runs, Still(q), Claiming(q)
    PROVE  /\ \A ats : Is(q, ats)' <=> Is(q, ats)
           /\ (Moving(q)' <=> Moving(q)) /\ (Off(q)' <=> Off(q)) /\ Guests(q)' = Guests(q)
           /\ Claim(q)'.copy = Claim(q).copy /\ Claim(q)'.id = Claim(q).id
           /\ Claim(q)'.to = Claim(q).to /\ (Renames(q)' <=> Renames(q))
           /\ From(q)' = From(q) /\ (Deeper(q)' <=> Deeper(q))
           /\ PathsOf(q)' = PathsOf(q) /\ (\A path : InArea(q, path)' <=> InArea(q, path))
           /\ Claimed(q)' = Claimed(q) /\ (\A F : House(q, F)' = House(q, F))
<1>1. \A ats : Is(q, ats)' <=> Is(q, ats)  BY DEF Still, Is
<1>2. Claim(q)'.copy = Claim(q).copy /\ Claim(q)'.id = Claim(q).id
      /\ Claim(q)'.to = Claim(q).to /\ Claim(q)'.kind = Claim(q).kind
  BY DEF Still, SameClaim
<1>3. Renames(q)' <=> Renames(q)  BY <1>2 DEF Renames
<1>4. Moving(q)' <=> Moving(q)  BY <1>1, <1>3 DEF Still, Moving
<1>5. Off(q)' <=> Off(q)  BY <1>1 DEF Off
<1>6. Guests(q)' = Guests(q)
  <2>1. {s \in Runs : Holds(s, q) /\ On(s, "graft")}' = {s \in Runs : Holds(s, q) /\ On(s, "graft")}
    BY DEF Still, On
  <2>2. \A s \in {s \in Runs : Holds(s, q) /\ On(s, "graft")} : work'[s].ids = work[s].ids
    BY DEF Still
  <2> QED  BY <2>1, <2>2 DEF Guests
<1>7. From(q)' = From(q) /\ (Deeper(q)' <=> Deeper(q)) /\ PathsOf(q)' = PathsOf(q)
  BY <1>2 DEF From, Deeper, PathsOf
<1>8. \A path : InArea(q, path)' <=> InArea(q, path)  BY <1>7 DEF InArea
<1>9. Claimed(q)' = Claimed(q)  BY <1>2, <1>4, <1>6, <1>7 DEF Claimed
<1>10. \A F : House(q, F)' = House(q, F)  BY <1>9 DEF House
<1> QED  BY <1>1, <1>2, <1>3, <1>4, <1>5, <1>6, <1>7, <1>8, <1>9, <1>10

LEMMA FamilyKinds ==
    ASSUME NEW docs, NEW new, NEW c, NEW F, NEW L, Family(docs, c, F, L),
           Untouched(docs, new, c, F), DOMAIN docs \subseteq DOMAIN new
    PROVE  /\ \A j \in F \cup {c.id} : j \in LiveOf(new) <=> j \in LiveOf(docs)
           /\ Rooted(docs, c.id) => Rooted(new, c.id)
  BY DEF Family, Untouched, Stays, Dead, LiveOf

(* Its family is what it was, if nobody touched it.                          *)
LEMMA HousingStays ==
    ASSUME NEW q \in Runs, Still(q), Broad(q), NEW F, NEW L,
           Family(pages, Claimed(q), F, L), Housing(q, F, L),
           Untouched(pages, pages', Claimed(q), F), Ids \subseteq Ids'
    PROVE  Family(pages', Claimed(q)', F, L) /\ Housing(q, F, L)'
<1>1. Claiming(q)  BY DEF Broad
<1>2. Claimed(q)' = Claimed(q)  BY <1>1, StillSame
<1>3. Family(pages', Claimed(q)', F, L)  BY <1>2, FamilyStays DEF Ids
<1>4. /\ \A j \in F \cup {Claimed(q).id} : j \in LiveOf(pages') <=> j \in LiveOf(pages)
      /\ Rooted(pages, Claimed(q).id) => Rooted(pages', Claimed(q).id)
  BY FamilyKinds DEF Ids
<1>5. /\ F \subseteq LivePages => F \subseteq LivePages'
      /\ Claimed(q).id \in LivePages => Claimed(q).id \in LivePages'
  BY <1>4 DEF LivePages
<1>14. Claimed(q).id = Claim(q).id  BY DEF Claimed
<1>6. /\ \A ats : Is(q, ats)' <=> Is(q, ats)
      /\ (Moving(q)' <=> Moving(q)) /\ (Off(q)' <=> Off(q))
      /\ Claim(q)'.id = Claim(q).id /\ Claim(q)'.to = Claim(q).to
      /\ (Renames(q)' <=> Renames(q)) /\ From(q)' = From(q) /\ (Deeper(q)' <=> Deeper(q))
  BY <1>1, StillSame
<1>7. (q \in Recorded)' <=> q \in Recorded  BY DEF Still
<1>8. q \notin Recorded => work'[q] = work[q]  BY <1>1 DEF Still
<1>9. (~Moving(q) => L = {})'  BY <1>6 DEF Housing
<1>10. (Renames(q) =>
          /\ ~IsPrefix(Claim(q).to, From(q))
          /\ F \cup {Claim(q).id} \subseteq LivePages
          /\ ~Off(q) => Rooted(pages, Claim(q).id))'
  BY <1>4, <1>5, <1>6, <1>14 DEF Housing
<1>11. (Renames(q) /\ Deeper(q) /\ Is(q, {"bump", "redirect", "stage", "stream"}) => L = F)'
  BY <1>6 DEF Housing
<1>12. (~Renames(q) /\ (q \notin Recorded \/ Is(q, {"stream"})) => F \subseteq LivePages)'
  BY <1>5, <1>6, <1>7 DEF Housing
<1>13. (q \notin Recorded /\ work[q].kind = "erase" /\ work[q].at \in {"shrink", "shrunk"} =>
          Claim(q).id \in LivePages /\ Rooted(pages, Claim(q).id))'
  BY <1>4, <1>5, <1>6, <1>7, <1>8, <1>14 DEF Housing
<1> QED  BY <1>3, <1>9, <1>10, <1>11, <1>12, <1>13 DEF Housing

LEMMA AnchorStays ==
    ASSUME NEW H, NEW H2, Steady(pages, pages', H), NoId \notin Ids',
           NEW i \in Ids \cup {NoId}, i \in H2 => i \in H, NEW path
    PROVE  /\ Pinned(pages, H, i, path) => Pinned(pages', H2, i, path)
           /\ Anchored(pages, H, i, path) => Anchored(pages', H2, i, path)
  BY AnchoredStays DEF Ids

LEMMA StandStays ==
    ASSUME Typed, Ordered, NEW fam, NEW left, NEW fam2, NEW left2, NEW s \in Runs,
           IsRun(work[s]), work'[s] = work[s], Stands(s, fam, left),
           Housings(fam, left), Ids \subseteq Ids', NoId \notin Ids',
           Steady(pages, pages', Housed(fam)),
           \A i \in Ids \cup {NoId} : i \in Housed(fam2)' => i \in Housed(fam),
           \A q \in Runs : Holds(s, q) =>
              /\ Still(q) /\ fam2[q] = fam[q] /\ left2[q] = left[q]
              /\ Broad(q) => Untouched(pages, pages', Claimed(q), fam[q]),
           Open(s) => Checking(s, fam2)' /\ Adopting(s, fam2)' /\ Creating(s, fam2)',
           \A t \in Runs : Open(t)' /\ On(t, "adopt")' =>
              \/ Open(t) /\ On(t, "adopt") /\ work'[t].parent = work[t].parent
              \/ work'[t].parent \notin Ids \cup {NoId}
    PROVE  Stands(s, fam2, left2)'
<1>1. Open(s)' <=> Open(s)  BY DEF Open
<1>2. Checking(s, fam2)' /\ Creating(s, fam2)'
  BY <1>1 DEF Checking, Creating
<1>3. Adopting(s, fam2)'
  <2>1. IsRun(work[s]) /\ work[s].at = "adopt" => Open(s)
    BY DEF IsRun, Open, Early, Holding, Late
  <2> QED  BY <2>1 DEF Adopting, On
<1>4. Placing(s, fam2)'
  <2> SUFFICES ASSUME work[s].at \in {"put", "save"}
               PROVE  /\ Anchored(pages', Housed(fam2)', work[s].parent, Front(work[s].to))
                      /\ \A t \in Runs : Open(t)' /\ On(t, "adopt")' => work'[t].parent # work[s].parent
    BY DEF Placing
  <2>1. /\ Anchored(pages, Housed(fam), work[s].parent, Front(work[s].to))
        /\ \A t \in Runs : Open(t) /\ On(t, "adopt") => work[t].parent # work[s].parent
    BY DEF Stands, Placing
  <2>2. work[s].parent \in Ids \cup {NoId}  BY DEF Typed, RunTyped
  <2>3. Anchored(pages', Housed(fam2)', work[s].parent, Front(work[s].to))
    BY <2>1, <2>2, AnchorStays
  <2> QED  BY <2>1, <2>2, <2>3
<1>5. Treading(s)'  BY DEF Stands, Treading, Rename, Removes, Delete, Erase, On
<1>6. CASE ~Holding(work[s].kind, work[s].at)
  <2>1. work[s].at \notin {"graft", "batch"}
    BY <1>6 DEF IsRun, Early, Holding, Late
  <2>2. Planting(s)'  BY <2>1 DEF Planting, On
  <2>3. Batching(s, fam2[work[s].op], left2[work[s].op])'  BY <2>1 DEF Batching, On
  <2>4. Batched(s, fam2[work[s].op], left2[work[s].op])'  BY <1>6 DEF Batched
  <2> QED  BY <1>2, <1>3, <1>4, <1>5, <2>2, <2>3, <2>4 DEF Stands
<1>7. CASE Holding(work[s].kind, work[s].at)
  <2>0. PICK q \in Runs : q = work[s].op  BY DEF IsRun
  <2>1. /\ Holds(s, q)
        /\ Still(q) /\ fam2[q] = fam[q] /\ left2[q] = left[q]
        /\ Broad(q) => Untouched(pages, pages', Claimed(q), fam[q])
    BY <1>7, <2>0 DEF Holds
  <2>2. /\ Broad(q) <=> ~Create(s)
        /\ Rename(s) => Broad(q) /\ Claiming(q)
    BY <2>1, HolderClaims DEF Broad, Rename, Create
  <2>3. Broad(q) =>
          /\ \A i \in fam[q] \cup Guests(q) :
                /\ i \in LivePages' <=> i \in LivePages
                /\ i \in LivePages => pages'[i].path = pages[i].path
          /\ \A i \in Guests(q) : i \in LivePages
          /\ Renames(q) => fam[q] \subseteq LivePages
          /\ Deeper(q)' <=> Deeper(q)
    <3> SUFFICES ASSUME Broad(q)
                 PROVE  /\ \A i \in fam[q] \cup Guests(q) :
                           /\ i \in LivePages' <=> i \in LivePages
                           /\ i \in LivePages => pages'[i].path = pages[i].path
                        /\ \A i \in Guests(q) : i \in LivePages
                        /\ Renames(q) => fam[q] \subseteq LivePages
                        /\ Deeper(q)' <=> Deeper(q)
      OBVIOUS
    <3>1. Claimed(q).guests = Guests(q)  BY DEF Claimed
    <3>2. \A i \in fam[q] \cup Claimed(q).guests :
             Dead(pages, pages', i) \/ Stays(pages, pages', i)
      BY <2>1 DEF Untouched
    <3>3. Claiming(q)  BY DEF Broad
    <3>4. Family(pages, Claimed(q), fam[q], left[q]) /\ Housing(q, fam[q], left[q])
      BY DEF Housings
    <3>5. fam[q] \cup Guests(q) \subseteq Ids /\ \A i \in Guests(q) : i \in LivePages
      BY <3>1, <3>4 DEF Family, Ids, LivePages, LiveOf
    <3>6. Renames(q) => fam[q] \subseteq LivePages  BY <3>4 DEF Housing
    <3>7. Deeper(q)' <=> Deeper(q)  BY <2>1, <3>3, StillSame
    <3> QED  BY <3>1, <3>2, <3>5, <3>6, <3>7 DEF Stays, Ids, LivePages, LiveOf, Dead
  <2>4. Planting(s)'
    <3> SUFFICES ASSUME work[s].at = "graft"
                 PROVE  Planting(s)'
      BY DEF Planting, On
    <3>1. work[s].kind = "rename"  BY DEF Typed, StageTyped
    <3>2. work[s].ids \subseteq Guests(q)  BY <2>1 DEF Guests, On
    <3>3. \A i \in work[s].ids : pages'[i].path = pages[i].path
      BY <2>2, <2>3, <3>1, <3>2 DEF Rename
    <3>4. Planting(s)  BY DEF Stands
    <3> QED  BY <3>3, <3>4 DEF Planting, On
  <2>5. Batching(s, fam2[q], left2[q])'
    <3> SUFFICES ASSUME work[s].at = "batch"
                 PROVE  Batching(s, fam2[q], left2[q])'
      BY DEF Batching, On
    <3>1. Batching(s, fam[q], left[q])  BY <2>0 DEF Stands
    <3>2. Broad(q)  BY <2>2, <1>7 DEF Holding, Create
    <3>3. fam[q] \subseteq Ids
      BY <3>2, <2>1 DEF Housings, Family, Ids
    <3>4. Rename(s) => \A x \in work[s].todo : pages'[x[1]].path = pages[x[1]].path
      <4>1. ToDo(s) \subseteq fam[q] /\ (Rename(s) => Renames(q))
        BY <3>1, <2>1, HolderClaims DEF Batching, On
      <4> QED  BY <4>1, <3>2, <2>3 DEF ToDo
    <3>5. fam[q] \cap LivePages' \subseteq fam[q] \cap LivePages
      BY <3>2, <2>3, <3>3 DEF LivePages, LiveOf, Ids
    <3>6. ToDo(s)' = ToDo(s)  BY DEF ToDo
    <3>7. work[s].op = q /\ work'[s].op = q /\ (Deeper(q)' <=> Deeper(q))  BY <2>0, <3>2, <2>3
    <3>8. \A x, y \in work[s].todo : x[1] = y[1] => x = y  BY <3>1 DEF Batching, On
    <3>9. ToDo(s) \subseteq fam[q]  BY <3>1 DEF Batching, On
    <3>10. Rename(s) =>
              /\ \A x \in work[s].todo : pages'[x[1]].path = x[2]
              /\ left[q] \subseteq ToDo(s)
              /\ Deeper(q)' => left[q] = ToDo(s)
      BY <3>1, <3>4, <3>7 DEF Batching, On
    <3>11. ~Rename(s) => fam[q] \cap LivePages' \subseteq ToDo(s)
      BY <3>1, <3>5 DEF Batching, On
    <3> QED  BY <2>1, <3>6, <3>7, <3>8, <3>9, <3>10, <3>11 DEF Batching, On, Rename
  <2>6. Batched(s, fam2[q], left2[q])'
    <3>1. Batched(s, fam[q], left[q])  BY <2>0 DEF Stands
    <3>2. CASE Create(s)  BY <3>2 DEF Batched, Rename, Removes, Create, Delete, Erase
    <3>3. CASE ~Create(s)
      <4>1. fam[q] \subseteq Ids  BY <3>3, <2>1, <2>2 DEF Housings, Family, Ids
      <4>2. fam[q] \cap LivePages' \subseteq fam[q] \cap LivePages
        BY <3>3, <4>1, <2>2, <2>3 DEF LivePages, LiveOf, Ids
      <4> QED  BY <2>1, <3>1, <4>2 DEF Batched, On, Rename, Removes, Delete, Erase
    <3> QED  BY <3>2, <3>3
  <2>7. work'[s].op = q  BY <2>0
  <2> QED  BY <1>2, <1>3, <1>4, <1>5, <2>4, <2>5, <2>6, <2>7 DEF Stands
<1> QED  BY <1>6, <1>7

(* What the step does not take from a run that is open.                      *)
Spared(s, fam) ==
    /\ Recorded' \subseteq Recorded
    /\ /\ Free(work[s].copy.path) /\ work[s].id \in LivePages \ Housed(fam)
       /\ pages[work[s].id].path = work[s].copy.path /\ On(s, "check")
       => work[s].id \in LivePages'
    /\ On(s, "adopt") =>
          /\ work[s].id \in LivePages' /\ work[s].parent \in LivePages'
          /\ pages'[work[s].id].kind = "page" /\ Children(work[s].parent)' = {}

LEMMA OpenSpared ==
    ASSUME Typed, Ordered, NEW fam, NEW left, NEW fam2, NEW s \in Runs, Open(s),
           work'[s] = work[s], Stands(s, fam, left), Ids \subseteq Ids', NoId \notin Ids',
           Steady(pages, pages', Housed(fam)),
           \A i \in Ids \cup {NoId} : i \in Housed(fam2)' => i \in Housed(fam),
           \A q \in Runs : Claiming(q)' => Claiming(q) /\ SameClaim(Claim(q), Claim(q)'),
           \A q \in Recorded \cap Recorded' : Claiming(q) => Claiming(q)',
           Spared(s, fam)
    PROVE  Checking(s, fam2)' /\ Adopting(s, fam2)' /\ Creating(s, fam2)'
<1>1. work[s].id \in Ids \cup {NoId} /\ work[s].parent \in Ids \cup {NoId}
      /\ work[s].copy.parent \in Ids \cup {NoId}
  BY DEF Typed, RunTyped, IsDocument, Open
<1>2. Checking(s, fam2)'
  <2> SUFFICES ASSUME On(s, "check"), work[s].seen = Recorded', Clear(work[s].copy.path)'
               PROVE  LET from == work[s].copy.path IN
                      /\ Anchored(pages', Housed(fam2)', work[s].copy.parent, Front(from))
                      /\ Anchored(pages', Housed(fam2)', work[s].id, from)
                      /\ Free(from)' /\ work[s].recursively => work[s].id \in LivePages'
    BY DEF Checking, On
  <2>1. Recorded' = Recorded  BY DEF Spared, Ordered, SeenShrinks
  <2>2. ASSUME NEW q \in Runs, Broad(q)
        PROVE  Broad(q)' /\ PathsOf(q)' = PathsOf(q)
    <3>1. Claiming(q)  BY <2>2 DEF Broad
    <3>2. q \in Recorded
      <4> SUFFICES ASSUME q \notin Recorded  PROVE FALSE
        OBVIOUS
      <4>1. Passed(q) /\ s = q  BY <3>1, OpenIsAlone DEF Typed
      <4> QED  BY <4>1 DEF Passed
    <3>3. Claiming(q)' /\ SameClaim(Claim(q), Claim(q)')  BY <2>1, <3>1, <3>2
    <3> QED  BY <2>1, <3>2, <3>3 DEF Broad, SameClaim, PathsOf
  <2>3. Clear(work[s].copy.path)
    <3> SUFFICES ASSUME NEW q \in Runs, Broad(q)
                 PROVE  ~InArea(q, work[s].copy.path)
      BY DEF Clear
    <3>1. Broad(q)' /\ PathsOf(q)' = PathsOf(q)  BY <2>2
    <3>2. ~InArea(q, work[s].copy.path)'  BY <3>1 DEF Clear
    <3> QED  BY <3>1, <3>2 DEF InArea
  <2>4. /\ Anchored(pages, Housed(fam), work[s].copy.parent, Front(work[s].copy.path))
        /\ Anchored(pages, Housed(fam), work[s].id, work[s].copy.path)
        /\ Free(work[s].copy.path) /\ work[s].recursively => work[s].id \in LivePages
    BY <2>1, <2>3 DEF Stands, Checking
  <2>5. Free(work[s].copy.path)' => Free(work[s].copy.path)
    <3> SUFFICES ASSUME Free(work[s].copy.path)', NEW q \in Runs, Broad(q), NEW p \in PathsOf(q)
                 PROVE  ~EitherOverlap(p, work[s].copy.path)
      BY DEF Free
    <3>1. Broad(q)' /\ p \in PathsOf(q)'  BY <2>2
    <3> QED  BY <3>1 DEF Free
  <2>6. work[s].id \notin Housed(fam)
        /\ (work[s].id \in LivePages => pages[work[s].id].path = work[s].copy.path)
    BY <2>4 DEF Anchored, Pinned, LivePages
  <2>7. /\ Anchored(pages', Housed(fam2)', work[s].copy.parent, Front(work[s].copy.path))
        /\ Anchored(pages', Housed(fam2)', work[s].id, work[s].copy.path)
    BY <1>1, <2>4, AnchorStays
  <2> QED  BY <2>4, <2>5, <2>6, <2>7 DEF Spared
<1>3. Creating(s, fam2)'
  <2> SUFFICES ASSUME Create(s), ~On(s, "recordCreate"), work[s].id # NoId
               PROVE  Pinned(pages', Housed(fam2)', work[s].id, work[s].to)
    BY DEF Creating, Create, On
  <2>1. Pinned(pages, Housed(fam), work[s].id, work[s].to)  BY DEF Stands, Creating
  <2> QED  BY <1>1, <2>1, AnchorStays
<1>4. Adopting(s, fam2)'
  <2> SUFFICES ASSUME On(s, "adopt")
               PROVE  Adopting(s, fam2)'
    BY DEF Adopting, On
  <2>0. PICK d, n : d = work[s].id /\ n = work[s].parent  OBVIOUS
  <2>1. /\ d < n
        /\ \A i \in {d, n} : /\ i \in LivePages \ Housed(fam)
                              /\ Rooted(pages, i) /\ pages[i].path = work[s].copy.path
        /\ \A o \in Runs : Claiming(o) => Claim(o).copy.parent # n
    BY <2>0 DEF Stands, Adopting, Open
  <2>2. /\ d \in LivePages' /\ n \in LivePages'
        /\ pages'[d].kind = "page" /\ Children(n)' = {}
    BY <2>0 DEF Spared
  <2>3. \A i \in {d, n} : /\ i \in LivePages' \ Housed(fam2)'
                          /\ Rooted(pages', i) /\ pages'[i].path = work[s].copy.path
    BY <1>1, <2>0, <2>1, <2>2 DEF Steady, LivePages, LiveOf, Ids
  <2>4. \A o \in Runs : Claiming(o)' => Claim(o)'.copy.parent # n
    BY <2>1 DEF SameClaim
  <2>5. work'[s].id = d /\ work'[s].parent = n /\ work'[s].copy = work[s].copy  BY <2>0
  <2> QED  BY <2>1, <2>2, <2>3, <2>4, <2>5 DEF Adopting
<1> QED  BY <1>2, <1>3, <1>4

(* The runs in R act, for the operations in O.                               *)
Fits(o, fam2, left2) ==
    Broad(o)' => /\ Family(pages', Claimed(o)', fam2[o], left2[o])
                 /\ Housing(o, fam2[o], left2[o])'

LEMMA ActNests ==
    ASSUME Typed, Typed', Ordered, NEW fam, NEW left, NEW fam2, NEW left2, Nested(fam, left),
           NEW R \in SUBSET Runs, NEW O \in SUBSET Runs, Ids \subseteq Ids',
           \A q \in Runs \ O : Still(q) /\ fam2[q] = fam[q] /\ left2[q] = left[q],
           \A s \in Runs \ R : work'[s] = work[s],
           \A s \in Runs \ R, o \in O : ~Holds(s, o),
           \A o \in O : Claiming(o)' => Claiming(o) /\ SameClaim(Claim(o), Claim(o)'),
           \A o \in O : Broad(o)' => House(o, fam2[o])' \cap Ids \subseteq Housed(fam),
           \A o \in O : Fits(o, fam2, left2),
           Steady(pages, pages', Housed(fam)),
           \A q \in Runs \ O : Broad(q) => Untouched(pages, pages', Claimed(q), fam[q]),
           Coherent(pages', Housed(fam2)'),
           \A r \in R : IsRun(work'[r]) => Stands(r, fam2, left2)',
           \A o \in O \cap Recorded \cap Recorded' : Claiming(o) => Claiming(o)',
           \A s \in Runs \ R : Open(s) => Spared(s, fam),
           \A t \in R : Open(t)' /\ On(t, "adopt")' =>
              \/ Open(t) /\ On(t, "adopt") /\ work'[t].parent = work[t].parent
              \/ work'[t].parent \notin Ids \cup {NoId}
    PROVE  Nested(fam2, left2)'
<1>1. Housings(fam2, left2)'
  <2> SUFFICES ASSUME NEW q \in Runs, Broad(q)'
               PROVE  (Family(pages, Claimed(q), fam2[q], left2[q]) /\ Housing(q, fam2[q], left2[q]))'
    BY DEF Housings
  <2>1. CASE q \in O  BY <2>1 DEF Fits
  <2>2. CASE q \notin O
    <3>1. Still(q) /\ fam2[q] = fam[q] /\ left2[q] = left[q] /\ Broad(q)
      BY <2>2 DEF Still
    <3>2. Family(pages, Claimed(q), fam[q], left[q]) /\ Housing(q, fam[q], left[q])
      BY <3>1 DEF Nested, Housings
    <3> QED  BY <2>2, <3>1, <3>2, HousingStays
  <2> QED  BY <2>1, <2>2
<1>2. NoId \notin Ids' /\ \A i \in Ids \cup {NoId} : i \in Housed(fam2)' => i \in Housed(fam)
  <2>1. NoId \notin Ids'  BY IsCollectionHasNoId DEF Typed, Ids
  <2> SUFFICES ASSUME NEW i \in Ids \cup {NoId}, i \in Housed(fam2)'
               PROVE  i \in Housed(fam)
    BY <2>1
  <2>2. PICK q \in Runs : Broad(q)' /\ i \in House(q, fam2[q])'  BY DEF Housed
  <2>3. Family(pages', Claimed(q)', fam2[q], left2[q])  BY <1>1, <2>2 DEF Housings
  <2>4. i \in Ids'  BY <2>2, <2>3, HouseHasIds DEF House, Ids
  <2>5. CASE q \in O  BY <2>1, <2>2, <2>4, <2>5
  <2>6. CASE q \notin O
    <3>1. Still(q) /\ fam2[q] = fam[q] /\ Broad(q) /\ Claiming(q)
      BY <2>2, <2>6 DEF Still, Broad
    <3>2. House(q, fam2[q])' = House(q, fam[q])  BY <3>1, StillSame
    <3> QED  BY <2>2, <3>1, <3>2 DEF Housed
  <2> QED  BY <2>5, <2>6
<1>3. Formers(fam2)'
  <2> SUFFICES ASSUME NEW q \in Runs, Claiming(q)'
               PROVE  Anchored(pages', Housed(fam2)', Claim(q)'.copy.parent, Front(From(q)'))
    BY DEF Formers
  <2>1. Claiming(q) /\ Claim(q)'.copy = Claim(q).copy
    BY DEF Still, SameClaim
  <2>2. Claim(q).copy.parent \in Ids \cup {NoId}
    BY <2>1, ClaimTyped
  <2>3. Anchored(pages, Housed(fam), Claim(q).copy.parent, Front(From(q)))
    BY <2>1 DEF Nested, Formers
  <2>4. From(q)' = From(q)  BY <2>1 DEF From
  <2> QED  BY <1>2, <2>1, <2>2, <2>3, <2>4, AnchorStays
<1>4. ASSUME NEW s \in Runs, IsRun(work'[s])
      PROVE  Stands(s, fam2, left2)'
  <2>1. CASE s \in R  BY <1>4, <2>1
  <2>2. CASE s \notin R
    <3>1. work'[s] = work[s] /\ IsRun(work[s])  BY <1>4, <2>2
    <3>2. Stands(s, fam, left) /\ Housings(fam, left)  BY <3>1 DEF Nested
    <3>3. \A q \in Runs : Holds(s, q) =>
              /\ Still(q) /\ fam2[q] = fam[q] /\ left2[q] = left[q]
              /\ Broad(q) => Untouched(pages, pages', Claimed(q), fam[q])
      <4> TAKE q \in Runs
      <4>1. CASE q \in O  BY <2>2, <4>1
      <4>2. CASE q \notin O  BY <4>2
      <4> QED  BY <4>1, <4>2
    <3>4. \A t \in Runs : Open(t)' /\ On(t, "adopt")' =>
              \/ Open(t) /\ On(t, "adopt") /\ work'[t].parent = work[t].parent
              \/ work'[t].parent \notin Ids \cup {NoId}
      <4> TAKE t \in Runs
      <4>1. CASE t \in R  BY <4>1
      <4>2. CASE t \notin R  BY <4>2 DEF Open, On
      <4> QED  BY <4>1, <4>2
    <3>5. Open(s) => Checking(s, fam2)' /\ Adopting(s, fam2)' /\ Creating(s, fam2)'
      <4>1. \A q \in Runs : Claiming(q)' => Claiming(q) /\ SameClaim(Claim(q), Claim(q)')
        BY DEF Still
      <4>2. \A q \in Recorded \cap Recorded' : Claiming(q) => Claiming(q)'
        BY DEF Still, Recorded
      <4>3. Open(s) => Spared(s, fam)  BY <2>2
      <4> QED  BY <1>2, <3>1, <3>2, <4>1, <4>2, <4>3, OpenSpared
    <3> QED  BY <1>2, <3>1, <3>2, <3>3, <3>4, <3>5, StandStays
  <2> QED  BY <2>1, <2>2
<1> QED  BY <1>1, <1>3, <1>4 DEF Nested

-----------------------------------------------------------------------------
(* The operations that a step leaves alone.                                  *)

LEMMA StillOnes ==
    ASSUME NEW q \in Runs, (q \in Recorded)' <=> q \in Recorded,
           q \in Recorded => Alike(ops[q], ops'[q]),
           work'[q] = work[q] \/ (~Open(q) /\ ~Open(q)'),
           \A s \in Runs : (Holds(s, q)' <=> Holds(s, q)) /\ (Holds(s, q) => work'[s] = work[s])
    PROVE  Still(q)
<1>1. CASE q \in Recorded
  <2>1. (q \in Recorded)' /\ Claim(q) = ops[q] /\ Claim(q)' = ops'[q] /\ Alike(ops[q], ops'[q])
    BY <1>1 DEF Claim
  <2>2. Claiming(q)' <=> Claiming(q)  BY <1>1, <2>1 DEF Claiming, Alike
  <2> QED  BY <1>1, <2>1, <2>2 DEF Still, Broad, SameClaim, Alike
<1>2. CASE q \notin Recorded
  <2>1. (q \notin Recorded)' /\ Claim(q) = work[q] /\ Claim(q)' = work'[q]
    BY <1>2 DEF Claim
  <2>2. Claiming(q)' <=> Claiming(q)  BY <1>2, <2>1 DEF Claiming, Passed, Open, On, Create
  <2>3. Claiming(q) => work'[q] = work[q]  BY <1>2 DEF Claiming, Passed
  <2> QED  BY <1>2, <2>1, <2>2, <2>3 DEF Still, Broad, SameClaim
<1> QED  BY <1>1, <1>2

LEMMA GoingIsStill ==
    ASSUME Held, NEW r \in Runs, GoesOn(r), NEW q \in Runs, q # work[r].op
    PROVE  Still(q)
<1>1. Recorded' = Recorded /\ \A s, o \in Runs : Holds(s, o)' <=> Holds(s, o)
  BY GoingOnSettles
<1>2. q \in Recorded => Alike(ops[q], ops'[q])  BY DEF GoesOn, OpsStay
<1>3. \A s \in Runs : Holds(s, q) => work'[s] = work[s]  BY DEF Holds, GoesOn, Others
<1>4. work'[q] = work[q] \/ (~Open(q) /\ ~Open(q)')
  <2>1. CASE q # r  BY <2>1 DEF GoesOn, Others
  <2>2. CASE q = r
    <3>1. ~Early(work[r].kind, work[r].at)  BY <2>2 DEF Held, NotYet, GoesOn
    <3> QED  BY <2>2, <3>1 DEF GoesOn, Open
  <2> QED  BY <2>1, <2>2
<1> QED  BY <1>1, <1>2, <1>3, <1>4, StillOnes

LEMMA LeavingIsStill ==
    ASSUME Held, NEW r \in Runs, Leaves(r), NEW q \in Runs,
           q # work[r].op \/ ~(Early(work[r].kind, work[r].at) \/ Holding(work[r].kind, work[r].at))
    PROVE  Still(q)
<1>1. /\ \A s, o \in Runs : Holds(s, o)' => Holds(s, o) /\ s # r
      /\ \A s, o \in Runs : Holds(s, o) /\ s # r => Holds(s, o)'
  BY LeavingSettles
<1>2. ~Holds(r, q)  BY DEF Holds
<1>3. ops'[q] = ops[q]  BY DEF Leaves, Held
<1>4. \A s \in Runs : (Holds(s, q)' <=> Holds(s, q)) /\ (Holds(s, q) => work'[s] = work[s])
  BY <1>1, <1>2 DEF Leaves, Others
<1>5. work'[q] = work[q] \/ (~Open(q) /\ ~Open(q)')
  <2>1. CASE q # r  BY <2>1 DEF Leaves, Others
  <2>2. CASE q = r
    <3>1. ~Early(work[r].kind, work[r].at)  BY <2>2 DEF Held, NotYet, Leaves
    <3>2. ~Open(r)'  BY RunIsNeither, PhasesDiffer DEF Leaves, Open
    <3> QED  BY <2>2, <3>1, <3>2 DEF Open
  <2> QED  BY <2>1, <2>2
<1> QED  BY <1>3, <1>4, <1>5, StillOnes DEF Recorded, Alike

LEMMA NotingIsStill ==
    ASSUME Held, NEW r \in Runs, Notes(r), NEW q \in Runs, q # r
    PROVE  Still(q)
<1>1. \A s \in Runs : Holds(s, q)' <=> Holds(s, q)  BY NotingSettles
<1>2. work[r].op = r  BY DEF Held, NotYet, Notes
<1>3. \A s \in Runs : Holds(s, q) => work'[s] = work[s]  BY <1>2 DEF Holds, Notes, Others
<1> QED  BY <1>1, <1>3, StillOnes DEF Notes, Others, Recorded, Alike

LEMMA ClaimingIsStill ==
    ASSUME Held, Ordered, NEW r \in Runs, Claims(r), NEW q \in Runs, q # r
    PROVE  Still(q)
<1>1. \A s \in Runs : Holds(s, q)' <=> Holds(s, q)  BY ClaimingSettles
<1>2. work[r].op = r  BY DEF Held, NotYet, Claims, Open
<1>3. \A s \in Runs : Holds(s, q) => work'[s] = work[s]  BY <1>2 DEF Holds, Claims, Others
<1> QED  BY <1>1, <1>3, StillOnes DEF Claims, Others, Recorded, Alike

LEMMA BeginningIsStill ==
    ASSUME Held, NEW r \in Runs, Begins(r), NEW q \in Runs
    PROVE  Still(q)
<1>1. \A s \in Runs : Holds(s, q)' <=> Holds(s, q)  BY BeginningSettles
<1>2. \A s \in Runs : Holds(s, q) => work'[s] = work[s]
  BY RunIsNeither DEF Holds, Begins, Others
<1>3. CASE q # r  BY <1>1, <1>2, <1>3, StillOnes DEF Begins, Others, Recorded, Alike
<1>4. CASE q = r
  <2>1. r \notin Recorded /\ r \notin Recorded'  BY DEF Held, NotYet, Begins, Recorded
  <2>2. ~Open(r)  BY RunIsNeither DEF Begins, Open
  <2>3. ~Claiming(r) /\ ~Claiming(r)'
    BY <2>1, <2>2 DEF Claiming, Passed, Begins, On, Create
  <2>4. Still(r)
    BY <1>1, <1>2, <1>4, <2>1, <2>3 DEF Still, Broad
  <2> QED  BY <1>4, <2>4
<1> QED  BY <1>3, <1>4

-----------------------------------------------------------------------------
(* The operation of the step, when its claim stays.                          *)

Keeps(q) ==
    /\ (Claiming(q)' <=> Claiming(q)) /\ (Broad(q)' <=> Broad(q))
    /\ (q \in Recorded)' <=> q \in Recorded
    /\ Claiming(q) => SameClaim(Claim(q), Claim(q)')

LEMMA GoingKeepsClaim ==
    ASSUME Held, NEW r \in Runs, GoesOn(r), ~Late(work'[r].kind, work'[r].at),
           NEW q \in Runs, q = work[r].op
    PROVE  /\ Keeps(q) /\ \A s \in Runs : Holds(s, q)' <=> Holds(s, q)
           /\ q \in Recorded => ops'[q].stage = ops[q].stage
<1>1. Recorded' = Recorded /\ (\A s, o \in Runs : Holds(s, o)' <=> Holds(s, o)) /\ Settled
  BY GoingOnSettles
<1>2. CASE q \in Recorded
  <2>1. (q \in Recorded)' /\ Claim(q) = ops[q] /\ Claim(q)' = ops'[q] /\ Alike(ops[q], ops'[q])
    BY <1>1, <1>2 DEF Claim, GoesOn, OpsStay
  <2>2. Claiming(q)' <=> Claiming(q)  BY <1>2, <2>1 DEF Claiming, Alike
  <2> QED  BY <1>1, <1>2, <2>1, <2>2 DEF Keeps, Broad, SameClaim, Alike
<1>3. CASE q \notin Recorded
  <2>1. (q \notin Recorded)' /\ Claim(q) = work[q] /\ Claim(q)' = work'[q]
    BY <1>1, <1>3 DEF Claim
  <2>2. Open(r)' <=> Open(r)
    BY PhasesDiffer DEF GoesOn, Open, IsRun
  <2>3. q # r => ~Open(r) /\ work'[q] = work[q]  BY DEF Held, NotYet, Open, GoesOn, Others
  <2>4. Claiming(q)' <=> Claiming(q)
    <3>1. CASE q = r  BY <1>3, <2>1, <2>2, <3>1 DEF Claiming, Passed, On, Create, GoesOn
    <3>2. CASE q # r  BY <1>3, <2>1, <2>3, <3>2 DEF Claiming, Passed, Open, On, Create
    <3> QED  BY <3>1, <3>2
  <2>5. Claiming(q)' => SameClaim(Claim(q), Claim(q)')  BY <1>1 DEF Settled
  <2>6. work'[q].recursively = work[q].recursively
    <3>1. CASE q = r  BY <3>1 DEF GoesOn
    <3>2. CASE q # r  BY <3>2, <2>3
    <3> QED  BY <3>1, <3>2
  <2> QED  BY <1>1, <1>3, <2>1, <2>4, <2>5, <2>6 DEF Keeps, Broad
<1> QED  BY <1>2, <1>3

LEMMA KeptSame ==
    ASSUME NEW q \in Runs, Keeps(q), Claiming(q)
    PROVE  /\ Claim(q)'.copy = Claim(q).copy /\ Claim(q)'.id = Claim(q).id
           /\ Claim(q)'.to = Claim(q).to /\ (Renames(q)' <=> Renames(q))
           /\ From(q)' = From(q) /\ (Deeper(q)' <=> Deeper(q))
           /\ PathsOf(q)' = PathsOf(q) /\ (\A path : InArea(q, path)' <=> InArea(q, path))
<1>1. /\ Claim(q)'.copy = Claim(q).copy /\ Claim(q)'.id = Claim(q).id
      /\ Claim(q)'.to = Claim(q).to /\ Claim(q)'.kind = Claim(q).kind
  BY DEF Keeps, SameClaim
<1>2. From(q)' = From(q) /\ (Deeper(q)' <=> Deeper(q)) /\ PathsOf(q)' = PathsOf(q)
      /\ (Renames(q)' <=> Renames(q))
  BY <1>1 DEF From, Deeper, PathsOf, Renames
<1> QED  BY <1>1, <1>2 DEF InArea

(* The places of a run that its family depends on.                           *)
AtsMatch(kind, from, to) ==
    /\ {"graft", "recount", "store"} \cap {from, to} = {} /\ to # "adopt"
    /\ to = "stream" => from = "stream"
    /\ kind = "rename" =>
          /\ from \in {"bump", "redirect", "stage"} <=> to \in {"bump", "redirect", "stage"}
          /\ from \in {"find", "insert", "link", "plant", "graft", "put"}
                <=> to \in {"find", "insert", "link", "plant", "graft", "put"}
    /\ kind = "erase" /\ to \in {"shrink", "shrunk"} => from \in {"shrink", "shrunk"}

(* What the family depends on of where its run is.                           *)
Matches(o) ==
    /\ Moving(o)' <=> Moving(o)
    /\ ~Renames(o) /\ Is(o, {"stream"})' => Is(o, {"stream"})
    /\ Renames(o) => /\ Deeper(o) /\ Is(o, {"bump", "redirect", "stage", "stream"})'
                           => Is(o, {"bump", "redirect", "stage", "stream"})
                     /\ Off(o) => Off(o)'
    /\ Guests(o) = {} /\ Guests(o)' = {}
    /\ o \notin Recorded /\ work'[o].kind = "erase" /\ work'[o].at \in {"shrink", "shrunk"} =>
          work[o].kind = "erase" /\ work[o].at \in {"shrink", "shrunk"}

LEMMA PlacesMatch ==
    ASSUME Held, Ordered, Ordered', NEW r \in Runs, IsRun(work[r]), NEW o \in Runs, o = work[r].op,
           Keeps(o), \A s \in Runs : Holds(s, o)' <=> Holds(s, o),
           o \in Recorded => ops'[o].stage = ops[o].stage,
           Claiming(o), \A s \in Runs \ {r} : work'[s] = work[s],
           work'[r].kind = work[r].kind, AtsMatch(work[r].kind, work[r].at, work'[r].at)
    PROVE  Matches(o)
<1>1. CASE Holds(r, o)
  <2>1. Holds(r, o)'  BY <1>1
  <2>2. /\ \A ats : Is(o, ats) <=> work[r].at \in ats
        /\ \A ats : Is(o, ats)' <=> work'[r].at \in ats
    BY <1>1, <2>1, HolderIsOne DEF Ordered, OneHolds, Is
  <2>3. Renames(o) <=> work[r].kind = "rename"  BY <1>1, HolderClaims DEF Rename
  <2>4. \A s \in Runs : Holds(s, o) \/ Holds(s, o)' => s = r
    BY <1>1, <2>1 DEF Ordered, OneHolds
  <2>5. Guests(o) = {} /\ Guests(o)' = {}
    <3>1. {s \in Runs : Holds(s, o) /\ On(s, "graft")} = {}  BY <2>4 DEF AtsMatch, On
    <3>2. {s \in Runs : Holds(s, o) /\ On(s, "graft")}' = {}  BY <2>4 DEF AtsMatch, On
    <3> QED  BY <3>1, <3>2 DEF Guests
  <2>6. o \in Recorded  BY <1>1, HolderClaims
  <2>7. Off(o)' <=> work'[r].at \in {"find", "insert", "link", "plant", "graft", "put"}
    BY <2>2 DEF Off
  <2>8. Off(o) <=> work[r].at \in {"find", "insert", "link", "plant", "graft", "put"}
    BY <2>2 DEF Off
  <2>9. Moving(o)' <=> Moving(o)
    <3>1. (o \in Recorded)' /\ (Renames(o)' <=> Renames(o))  BY <2>6, KeptSame DEF Keeps
    <3>2. Renames(o) => (Is(o, {"bump", "redirect", "stage"})' <=> Is(o, {"bump", "redirect", "stage"}))
      BY <2>2, <2>3 DEF AtsMatch
    <3> QED  BY <2>6, <3>1, <3>2 DEF Moving
  <2> QED  BY <2>2, <2>3, <2>5, <2>6, <2>7, <2>8, <2>9 DEF AtsMatch, Matches
<1>2. CASE ~Holds(r, o)
  <2>1. o \notin Recorded /\ o = r
    <3>1. ~Holding(work[r].kind, work[r].at)  BY <1>2 DEF Holds
    <3>2. ~Late(work[r].kind, work[r].at)  BY DEF Late, AtsMatch
    <3> QED  BY <3>1, <3>2 DEF IsRun, Held, NotYet
  <2>2. \A s \in Runs : ~Holds(s, o) /\ ~Holds(s, o)'
    BY <2>1 DEF Ordered, Agreed, Agrees
  <2>3. \A ats : ~Is(o, ats) /\ ~Is(o, ats)'  BY <2>2 DEF Is
  <2>4. Guests(o) = {} /\ Guests(o)' = {}
    <3>1. {s \in Runs : Holds(s, o) /\ On(s, "graft")} = {}  BY <2>2
    <3>2. {s \in Runs : Holds(s, o) /\ On(s, "graft")}' = {}  BY <2>2
    <3> QED  BY <3>1, <3>2 DEF Guests
  <2>5. ~Moving(o) /\ ~Moving(o)'  BY <2>1 DEF Moving, Keeps
  <2> QED  BY <2>1, <2>3, <2>4, <2>5 DEF AtsMatch, Off, Matches
<1> QED  BY <1>1, <1>2

-----------------------------------------------------------------------------
(* Where the pages of a house are.                                           *)

LEMMA ClaimFits ==
    ASSUME Typed, Ordered, NEW o \in Runs, Claiming(o)
    PROVE  /\ CopyFits(Claim(o).copy) /\ (~Renames(o) => Claim(o).to = NoPath)
           /\ From(o) \in PathsOf(o) /\ From(o) # <<>> /\ IsPath(From(o)) /\ From(o) \in Paths
           /\ Renames(o) => Claim(o).to \in PathsOf(o)
           /\ PathsOf(o) \subseteq Paths
           /\ Renames(o) => PathsOf(o) = {From(o), Claim(o).to} /\ Claim(o).to \in Paths
           /\ ~Renames(o) => PathsOf(o) = {From(o)}
<1>1. CopyFits(Claim(o).copy) /\ (~Renames(o) => Claim(o).to = NoPath)
  <2>1. CASE o \in Recorded
    BY <2>1 DEF Ordered, RunsFit, OpFits, Claim, Claiming, Renames
  <2>2. CASE o \notin Recorded
    <3>1. IsRun(work[o]) /\ work[o].kind # "create" /\ Claim(o) = work[o]
          /\ Early(work[o].kind, work[o].at)
      BY <2>2 DEF Claiming, Passed, Open, Create, Claim
    <3>2. RunFits(o, work[o])  BY <3>1 DEF Ordered, RunsFit
    <3> QED  BY <3>1, <3>2 DEF RunFits, Renames, Early
  <2> QED  BY <2>1, <2>2
<1>2. Renames(o) => IsPath(Claim(o).to)  BY ClaimTyped
<1>3. From(o) # <<>> /\ IsPath(From(o)) /\ From(o) # NoPath
  BY <1>1, PathsAreFree DEF CopyFits, From
<1>4. Renames(o) => Claim(o).to # NoPath  BY <1>2, PathsAreFree
<1> QED  BY <1>1, <1>2, <1>3, <1>4 DEF PathsOf, From, IsPath, Paths

LEMMA HouseInArea ==
    ASSUME Typed, Ordered, NEW o \in Runs, Broad(o), NEW F, NEW L,
           Family(pages, Claimed(o), F, L), NEW i \in House(o, F) \cap LivePages
    PROVE  InArea(o, pages[i].path) /\ pages[i].path \in Paths
<1>1. Claiming(o)  BY DEF Broad
<1>2. Claimed(o).from \in PathsOf(o) /\ Claimed(o).now \in PathsOf(o)
  BY <1>1, ClaimFits DEF Claimed, Moving
<1>3. i \in Ids /\ pages[i].path \in Paths
  BY DEF Typed, IsCollection, IsDocument, LivePages, LiveOf, Ids, Paths
<1>4. CASE i \in F
  <2>1. IsStrictPrefix(IF i \in L THEN Claimed(o).from ELSE Claimed(o).now, pages[i].path)
    BY <1>4 DEF Family, LivePages
  <2> QED  BY <1>2, <1>3, <2>1 DEF InArea, IsStrictPrefix
<1>5. CASE i = Claimed(o).id
  <2>1. pages[i].path = Claimed(o).now  BY <1>5 DEF Family, LivePages
  <2>2. IsPrefix(pages[i].path, pages[i].path)  BY <1>3, PrefixReflexive
  <2> QED  BY <1>2, <1>3, <2>1, <2>2 DEF InArea
<1>6. CASE i \in Claimed(o).guests
  <2>1. IsPrefix(Claimed(o).from, pages[i].path)  BY <1>6 DEF Family
  <2> QED  BY <1>2, <1>3, <2>1 DEF InArea
<1> QED  BY <1>4, <1>5, <1>6 DEF House, HouseOf

LEMMA AreasApart ==
    ASSUME Typed, Ordered, NEW o \in Runs, NEW q \in Runs, o # q, Broad(o), Broad(q),
           NEW path \in Paths, InArea(o, path)
    PROVE  ~InArea(q, path)
<1> SUFFICES ASSUME InArea(q, path)  PROVE FALSE
  OBVIOUS
<1>1. PICK p \in PathsOf(o) : IsPrefix(p, path)  BY DEF InArea
<1>2. PICK s \in PathsOf(q) : IsPrefix(s, path)  BY DEF InArea
<1>3. p \in Paths /\ s \in Paths  BY ClaimFits DEF Broad
<1>4. IsPrefix(p, s) \/ IsPrefix(s, p)  BY <1>1, <1>2, <1>3, PrefixesCompare
<1>5. InArea(o, s) \/ InArea(q, p)  BY <1>4 DEF InArea
<1> QED  BY <1>5 DEF Ordered, Apart

LEMMA LiveInOneHouse ==
    ASSUME Typed, Ordered, NEW fam, NEW left, Housings(fam, left),
           NEW o \in Runs, NEW q \in Runs, o # q, Broad(o), Broad(q),
           NEW i \in House(o, fam[o]) \cap LivePages
    PROVE  i \notin House(q, fam[q])
<1>1. InArea(o, pages[i].path) /\ pages[i].path \in Paths
  BY HouseInArea DEF Housings
<1>2. i \in House(q, fam[q]) => InArea(q, pages[i].path)
  BY HouseInArea DEF Housings
<1> QED  BY <1>1, <1>2, AreasApart

LEMMA HousedInArea ==
    ASSUME Typed, Ordered, NEW fam, NEW left, Housings(fam, left),
           NEW i \in Housed(fam) \cap LivePages
    PROVE  \E o \in Runs : Broad(o) /\ i \in House(o, fam[o]) /\ InArea(o, pages[i].path)
  BY HouseInArea DEF Housings, Housed

LEMMA HousedAreIds ==
    ASSUME NEW fam, NEW left, Housings(fam, left)
    PROVE  Housed(fam) \subseteq Ids \ {Top}
  BY HouseHasIds DEF Housings, Housed, House, Ids

-----------------------------------------------------------------------------
(* A run that goes on.                                                       *)

LEMMA OneActs ==
    ASSUME Typed, Typed', Ordered, NEW fam, NEW left, NEW fam2, NEW left2, Nested(fam, left),
           NEW r \in Runs, NEW o \in Runs, Ids \subseteq Ids',
           \A q \in Runs \ {o} : Still(q) /\ fam2[q] = fam[q] /\ left2[q] = left[q],
           \A s \in Runs \ {r} : work'[s] = work[s] /\ ~Holds(s, o),
           Claiming(o)' => Claiming(o) /\ SameClaim(Claim(o), Claim(o)'),
           o \in Recorded \cap Recorded' => (Claiming(o) => Claiming(o)'),
           Broad(o)' => House(o, fam2[o])' \cap Ids \subseteq Housed(fam),
           Fits(o, fam2, left2),
           Steady(pages, pages', Housed(fam)),
           \A q \in Runs \ {o} : Broad(q) => Untouched(pages, pages', Claimed(q), fam[q]),
           Coherent(pages', Housed(fam2)'),
           IsRun(work'[r]) => Stands(r, fam2, left2)',
           \A s \in Runs \ {r} : Open(s) => Spared(s, fam),
           Open(r)' /\ On(r, "adopt")' => work'[r].parent \notin Ids \cup {NoId}
    PROVE  Nested(fam2, left2)'
<1> DEFINE R == {r}  O == {o}
<1>1. R \in SUBSET Runs /\ O \in SUBSET Runs /\ (\A s : s \in R <=> s = r) /\ (\A q : q \in O <=> q = o)
  OBVIOUS
<1> HIDE DEF R, O
<1>2. /\ \A q \in Runs \ O : Still(q) /\ fam2[q] = fam[q] /\ left2[q] = left[q]
      /\ \A s \in Runs \ R : work'[s] = work[s]
      /\ \A s \in Runs \ R, q \in O : ~Holds(s, q)
      /\ \A s \in Runs \ R : Open(s) => Spared(s, fam)
      /\ \A q \in Runs \ O : Broad(q) => Untouched(pages, pages', Claimed(q), fam[q])
  BY <1>1
<1>3. /\ \A q \in O : Claiming(q)' => Claiming(q) /\ SameClaim(Claim(q), Claim(q)')
      /\ \A q \in O : Broad(q)' => House(q, fam2[q])' \cap Ids \subseteq Housed(fam)
      /\ \A q \in O : Fits(q, fam2, left2)
      /\ \A q \in O \cap Recorded \cap Recorded' : Claiming(q) => Claiming(q)'
  BY <1>1
<1>4. /\ \A s \in R : IsRun(work'[s]) => Stands(s, fam2, left2)'
      /\ \A t \in R : Open(t)' /\ On(t, "adopt")' =>
             \/ Open(t) /\ On(t, "adopt") /\ work'[t].parent = work[t].parent
             \/ work'[t].parent \notin Ids \cup {NoId}
  BY <1>1
<1> QED  BY <1>1, <1>2, <1>3, <1>4, ActNests

LEMMA OnlyHolder ==
    ASSUME Typed, Ordered, NEW r \in Runs, IsRun(work[r]), ~Late(work[r].kind, work[r].at),
           NEW o \in Runs, o = work[r].op
    PROVE  \A s \in Runs \ {r} : ~Holds(s, o)
<1> SUFFICES ASSUME NEW s \in Runs \ {r}, Holds(s, o)  PROVE FALSE
  OBVIOUS
<1>1. ~Holds(r, o)  BY DEF Ordered, OneHolds
<1>2. ~Holding(work[r].kind, work[r].at)  BY <1>1 DEF Holds
<1>3. o \notin Recorded  BY <1>2 DEF IsRun, Typed, Held, NotYet
<1> QED  BY <1>3, HolderClaims

LEMMA GoingNests ==
    ASSUME Typed, Typed', Ordered, NEW fam, NEW left, NEW fam2, NEW left2, Nested(fam, left),
           NEW r \in Runs, GoesOn(r), ~Late(work'[r].kind, work'[r].at),
           NEW o \in Runs, o = work[r].op, Ids \subseteq Ids',
           \A q \in Runs \ {o} : fam2[q] = fam[q] /\ left2[q] = left[q],
           Broad(o)' => House(o, fam2[o])' \cap Ids \subseteq Housed(fam),
           Fits(o, fam2, left2),
           Steady(pages, pages', Housed(fam)),
           \A q \in Runs \ {o} : Broad(q) => Untouched(pages, pages', Claimed(q), fam[q]),
           Coherent(pages', Housed(fam2)'),
           Stands(r, fam2, left2)',
           \A s \in Runs \ {r} : Open(s) => Spared(s, fam),
           Open(r)' /\ On(r, "adopt")' => work'[r].parent \notin Ids \cup {NoId}
    PROVE  Nested(fam2, left2)'
<1>1. \A q \in Runs \ {o} : Still(q)  BY GoingIsStill DEF Typed
<1>2. Keeps(o)  BY GoingKeepsClaim DEF Typed
<1>3. \A s \in Runs \ {r} : work'[s] = work[s]  BY DEF GoesOn, Others
<1>4. \A s \in Runs \ {r} : ~Holds(s, o)
  <2>1. Late(work[r].kind, work[r].at) => FALSE
    BY PhasesDiffer DEF GoesOn, IsRun
  <2> QED  BY <2>1, OnlyHolder DEF GoesOn
<1>5. Claiming(o)' => Claiming(o) /\ SameClaim(Claim(o), Claim(o)')  BY <1>2 DEF Keeps
<1>6. o \in Recorded \cap Recorded' => (Claiming(o) => Claiming(o)')  BY <1>2 DEF Keeps
<1> QED  BY <1>1, <1>3, <1>4, <1>5, <1>6, OneActs

-----------------------------------------------------------------------------
(* A step that leaves all pages where they are.                              *)

LEMMA SameIsQuiet ==
    ASSUME NEW docs, NEW new, SamePlaces(docs, new)
    PROVE  /\ LiveOf(new) = LiveOf(docs)
           /\ \A H : Steady(docs, new, H)
           /\ \A H : Coherent(docs, H) => Coherent(new, H)
           /\ \A c, F, L : Family(docs, c, F, L) => Untouched(docs, new, c, F)
           /\ \A i : Rooted(docs, i) /\ i \in DOMAIN docs => Rooted(new, i)
<1>1. LiveOf(new) = LiveOf(docs)  BY DEF SamePlaces, Stays, LiveOf
<1>2. ASSUME NEW H  PROVE Steady(docs, new, H)
  BY <1>1 DEF Steady, SamePlaces, Stays, Rooted
<1>3. ASSUME NEW H, Coherent(docs, H)  PROVE Coherent(new, H)
  <2>1. \A j \in DOMAIN docs : new[j].parent = docs[j].parent /\ new[j].path = docs[j].path
    BY DEF SamePlaces, Stays
  <2>2. DOMAIN new = DOMAIN docs /\ LiveOf(docs) \subseteq DOMAIN docs  BY DEF SamePlaces, LiveOf
  <2>3. \A j \in DOMAIN docs : Rooted(docs, j) => Rooted(new, j)  BY <2>1 DEF Rooted
  <2> QED  BY <1>1, <1>3, <2>1, <2>2, <2>3 DEF Coherent
<1>4. ASSUME NEW c, NEW F, NEW L, Family(docs, c, F, L)  PROVE Untouched(docs, new, c, F)
  BY <1>4 DEF Family, Untouched, SamePlaces, Stays, Rooted
<1>5. \A i : Rooted(docs, i) /\ i \in DOMAIN docs => Rooted(new, i)
  BY DEF SamePlaces, Stays, Rooted
<1> QED  BY <1>1, <1>2, <1>3, <1>4, <1>5

LEMMA SameIsSpared ==
    ASSUME NEW fam, NEW left, Nested(fam, left), SamePlaces(pages, pages'),
           Recorded' \subseteq Recorded, NEW s \in Runs, Open(s), work'[s] = work[s]
    PROVE  Spared(s, fam)
<1>1. LivePages' = LivePages /\ Ids' = Ids /\ \A i \in Ids : Stays(pages, pages', i)
  BY SameIsQuiet DEF LivePages, SamePlaces, Ids
<1>2. CASE On(s, "adopt")
  <2>0. PICK d, n : d = work[s].id /\ n = work[s].parent  OBVIOUS
  <2>1. Stands(s, fam, left)  BY DEF Nested, Open
  <2>2. d \in LivePages /\ n \in LivePages /\ pages[d].kind = "page" /\ Children(n) = {}
    BY <1>2, <2>0, <2>1 DEF Stands, Adopting, Open
  <2>3. pages'[d].kind = "page"  BY <1>1, <2>2 DEF Stays, LivePages, LiveOf, Ids
  <2>4. Children(n)' = {}  BY <1>1, <2>2 DEF Stays, Children
  <2> QED  BY <1>1, <1>2, <2>0, <2>2, <2>3, <2>4 DEF Spared, On
<1> QED  BY <1>1, <1>2 DEF Spared

LEMMA QuietFits ==
    ASSUME NEW fam, NEW left, Housings(fam, left), SamePlaces(pages, pages'),
           NEW o \in Runs, Keeps(o), Broad(o)' => Matches(o)
    PROVE  Fits(o, fam, left) /\ (Broad(o)' => House(o, fam[o])' = House(o, fam[o]))
<1> SUFFICES ASSUME Broad(o)'
             PROVE  /\ Family(pages', Claimed(o)', fam[o], left[o])
                    /\ Housing(o, fam[o], left[o])'
                    /\ House(o, fam[o])' = House(o, fam[o])
  BY DEF Fits
<1>1. Broad(o) /\ Claiming(o)  BY DEF Keeps, Broad
<1>2. /\ Claim(o)'.id = Claim(o).id /\ Claim(o)'.to = Claim(o).to
      /\ (Renames(o)' <=> Renames(o)) /\ From(o)' = From(o) /\ (Deeper(o)' <=> Deeper(o))
  BY <1>1, KeptSame
<1>3. Matches(o)  OBVIOUS
<1>4. (o \in Recorded)' <=> o \in Recorded  BY DEF Keeps
<1>5. Moving(o)' <=> Moving(o)  BY <1>3 DEF Matches
<1>6. Claimed(o)' = Claimed(o)  BY <1>2, <1>3, <1>5 DEF Claimed, Matches
<1>7. House(o, fam[o])' = House(o, fam[o])  BY <1>6 DEF House
<1>8. Family(pages, Claimed(o), fam[o], left[o]) /\ Housing(o, fam[o], left[o])
  BY <1>1 DEF Housings
<1>9. Family(pages', Claimed(o)', fam[o], left[o])
  BY <1>6, <1>8, SameIsQuiet, FamilyStays DEF SamePlaces
<1>10. LivePages' = LivePages /\ (Claim(o).id \in LivePages /\ Rooted(pages, Claim(o).id) =>
                                    Rooted(pages', Claim(o).id))
  BY SameIsQuiet DEF LivePages, LiveOf
<1>11. (~Moving(o) => left[o] = {})'  BY <1>5, <1>8 DEF Housing
<1>12. (Renames(o) =>
          /\ ~IsPrefix(Claim(o).to, From(o))
          /\ fam[o] \cup {Claim(o).id} \subseteq LivePages
          /\ ~Off(o) => Rooted(pages, Claim(o).id))'
  BY <1>2, <1>3, <1>8, <1>10 DEF Housing, Matches
<1>13. (Renames(o) /\ Deeper(o) /\ Is(o, {"bump", "redirect", "stage", "stream"})
          => left[o] = fam[o])'
  BY <1>2, <1>3, <1>8 DEF Housing, Matches
<1>14. (~Renames(o) /\ (o \notin Recorded \/ Is(o, {"stream"})) => fam[o] \subseteq LivePages)'
  BY <1>2, <1>3, <1>4, <1>8, <1>10 DEF Housing, Matches
<1>15. (o \notin Recorded /\ work[o].kind = "erase" /\ work[o].at \in {"shrink", "shrunk"} =>
          Claim(o).id \in LivePages /\ Rooted(pages, Claim(o).id))'
  BY <1>2, <1>3, <1>4, <1>8, <1>10 DEF Housing, Matches
<1> QED  BY <1>7, <1>9, <1>11, <1>12, <1>13, <1>14, <1>15 DEF Housing

LEMMA QuietHoused ==
    ASSUME NEW fam, NEW r \in Runs, NEW o \in Runs,
           \A q \in Runs \ {o} : Still(q), Broad(o)' <=> Broad(o),
           Broad(o)' => House(o, fam[o])' = House(o, fam[o])
    PROVE  Housed(fam)' = Housed(fam)
<1>1. ASSUME NEW q \in Runs
      PROVE  /\ Broad(q)' <=> Broad(q)
             /\ Broad(q)' => House(q, fam[q])' = House(q, fam[q])
  <2>1. CASE q = o  BY <2>1
  <2>2. CASE q # o
    <3>1. Still(q)  BY <2>2
    <3>2. Broad(q) => House(q, fam[q])' = House(q, fam[q])
      BY <3>1, StillSame DEF Broad
    <3> QED  BY <3>1, <3>2 DEF Still
  <2> QED  BY <2>1, <2>2
<1>2. {q \in Runs : Broad(q)}' = {q \in Runs : Broad(q)}  BY <1>1
<1>3. \A q \in {q \in Runs : Broad(q)} : House(q, fam[q])' = House(q, fam[q])
  BY <1>1
<1> QED  BY <1>2, <1>3 DEF Housed

LEMMA QuietNests ==
    ASSUME Typed, Typed', Ordered, Ordered', NEW fam, NEW left, Nested(fam, left),
           NEW r \in Runs, GoesOn(r), SamePlaces(pages, pages'),
           AtsMatch(work[r].kind, work[r].at, work'[r].at),
           Housed(fam)' = Housed(fam) => Stands(r, fam, left)'
    PROVE  Nested(fam, left)'
<1>0. PICK o \in Runs : o = work[r].op  BY DEF GoesOn, IsRun
<1>1. ~Late(work'[r].kind, work'[r].at) /\ ~On(r, "adopt")'
  BY DEF AtsMatch, Late, On
<1>2. /\ Keeps(o) /\ \A s \in Runs : Holds(s, o)' <=> Holds(s, o)
      /\ o \in Recorded => ops'[o].stage = ops[o].stage
      /\ \A q \in Runs \ {o} : Still(q)
  BY <1>0, <1>1, GoingIsStill, GoingKeepsClaim DEF Typed
<1>3. Fits(o, fam, left) /\ (Broad(o)' => House(o, fam[o])' = House(o, fam[o]))
  <2>1. Claiming(o) => Matches(o)
    BY <1>0, <1>2, PlacesMatch DEF Typed, GoesOn, Others
  <2> QED  BY <1>2, <2>1, QuietFits DEF Nested, Keeps, Broad
<1>4. Broad(o)' <=> Broad(o)  BY <1>2 DEF Keeps
<1>5. Housed(fam)' = Housed(fam)  BY <1>2, <1>3, <1>4, QuietHoused
<1>6. Broad(o)' => House(o, fam[o])' \cap Ids \subseteq Housed(fam)
  BY <1>3, <1>4 DEF Housed
<1>7. Steady(pages, pages', Housed(fam)) /\ Coherent(pages', Housed(fam)')
  BY <1>5, SameIsQuiet DEF Nested
<1>8. \A q \in Runs \ {o} : Broad(q) => Untouched(pages, pages', Claimed(q), fam[q])
  BY SameIsQuiet DEF Nested, Housings
<1>9. Recorded' \subseteq Recorded  BY DEF GoesOn, OpsStay
<1>10. \A s \in Runs \ {r} : Open(s) => Spared(s, fam)
  BY <1>9, SameIsSpared DEF GoesOn, Others
<1>11. Ids \subseteq Ids'  BY DEF SamePlaces, Ids
<1> QED  BY <1>0, <1>1, <1>3, <1>5, <1>6, <1>7, <1>8, <1>10, <1>11, GoingNests

-----------------------------------------------------------------------------
(* A run that leaves, and what becomes of its house.                         *)

LEMMA CoherentReleases ==
    ASSUME NEW docs, NEW H, NEW H2, Coherent(docs, H), NEW c, NEW F, Family(docs, c, F, {}),
           c.guests = {}, H \subseteq H2 \cup HouseOf(c, F),
           \/ F \cup {c.id} \subseteq LiveOf(docs) /\ Rooted(docs, c.id)
           \/ F \cap LiveOf(docs) = {},
           NoId \notin DOMAIN docs
    PROVE  Coherent(docs, H2)
<1> SUFFICES ASSUME NEW j \in LiveOf(docs) \ {Top}, docs[j].parent \notin H2 \cup {NoId}
             PROVE  Hangs(docs, j)
  BY DEF Coherent, Hangs
<1> DEFINE p == docs[j].parent
<1>1. CASE p \notin HouseOf(c, F)
  BY <1>1 DEF Coherent, Hangs
<1>2. CASE p \in HouseOf(c, F)
  <2>1. j \in F \cap LiveOf(docs) /\ p \in F \cup {c.id}
    BY <1>2 DEF Family, LiveOf, HouseOf
  <2>2. F \cup {c.id} \subseteq LiveOf(docs) /\ Rooted(docs, c.id) /\ p \in LiveOf(docs)
    BY <2>1
  <2>3. Front(docs[j].path) = docs[p].path
    BY <2>1, <2>2 DEF Family, Named
  <2>4. Rooted(docs, p)
    <3>1. CASE p = c.id  BY <2>2, <3>1
    <3>2. CASE p \in F
      <4>1. docs[p].parent \in F \cup {c.id}  BY <2>2, <3>2 DEF Family
      <4>2. docs[p].parent # NoId  BY <4>1 DEF Family
      <4> QED  BY <4>2 DEF Rooted
    <3> QED  BY <2>1, <3>1, <3>2
  <2> QED  BY <2>2, <2>3, <2>4 DEF Hangs
<1> QED  BY <1>1, <1>2

LEMMA LateStands ==
    ASSUME NEW fam, NEW left, NEW r \in Runs,
           ~IsRun(work'[r]) \/ Late(work'[r].kind, work'[r].at)
    PROVE  IsRun(work'[r]) => Stands(r, fam, left)'
<1> SUFFICES ASSUME IsRun(work'[r]), Late(work'[r].kind, work'[r].at)
             PROVE  Stands(r, fam, left)'
  OBVIOUS
<1>1. work'[r].kind = "rename" /\ work'[r].at \in {"recount", "store"}  BY DEF Late
<1>2. ~Open(r)' /\ ~Holding(work'[r].kind, work'[r].at)
  BY PhasesDiffer DEF Open
<1>3. (Checking(r, fam) /\ Placing(r, fam) /\ Creating(r, fam) /\ Planting(r) /\ Adopting(r, fam))'
  BY <1>1, <1>2 DEF Checking, Placing, Creating, Planting, Adopting, On
<1>4. Treading(r)'  BY <1>1 DEF Treading, Rename, Removes, Delete, Erase, On
<1>5. \A F, L : (Batching(r, F, L) /\ Batched(r, F, L))'
  BY <1>1, <1>2 DEF Batching, Batched, On
<1> QED  BY <1>3, <1>4, <1>5 DEF Stands

(* The houses that are left are houses still.                                *)
LEMMA LessHoused ==
    ASSUME NEW fam, NEW o \in Runs, \A q \in Runs \ {o} : Still(q), ~Broad(o)'
    PROVE  /\ Housed(fam)' \subseteq Housed(fam)
           /\ Housed(fam) \subseteq Housed(fam)' \cup House(o, fam[o])
           /\ ~Broad(o) => Housed(fam)' = Housed(fam)
<1>1. \A q \in Runs \ {o} : (Broad(q)' <=> Broad(q)) /\ (Broad(q) => House(q, fam[q])' = House(q, fam[q]))
  <2> SUFFICES ASSUME NEW q \in Runs \ {o}
               PROVE  (Broad(q)' <=> Broad(q)) /\ (Broad(q) => House(q, fam[q])' = House(q, fam[q]))
    OBVIOUS
  <2>1. Still(q)  OBVIOUS
  <2> QED  BY <2>1, StillSame DEF Still, Broad
<1>2. ASSUME NEW i \in Housed(fam)'  PROVE i \in Housed(fam)
  <2>1. PICK q \in Runs : Broad(q)' /\ i \in House(q, fam[q])'  BY <1>2 DEF Housed
  <2>2. q # o  BY <2>1
  <2> QED  BY <1>1, <2>1, <2>2 DEF Housed
<1>3. ASSUME NEW i \in Housed(fam)
      PROVE  i \in Housed(fam)' \/ (Broad(o) /\ i \in House(o, fam[o]))
  <2>1. PICK q \in Runs : Broad(q) /\ i \in House(q, fam[q])  BY <1>3 DEF Housed
  <2>2. CASE q = o  BY <2>1, <2>2
  <2>3. CASE q # o
    <3>1. Broad(q)' /\ i \in House(q, fam[q])'  BY <1>1, <2>1, <2>3
    <3> QED  BY <3>1 DEF Housed
  <2> QED  BY <2>2, <2>3
<1> QED  BY <1>2, <1>3

LEMMA LeavingNests ==
    ASSUME Typed, Typed', Ordered, Ordered', NEW fam, NEW left, Nested(fam, left),
           NEW r \in Runs, Leaves(r), SamePlaces(pages, pages'),
           ~Late(work[r].kind, work[r].at), NEW o \in Runs, o = work[r].op, ~Claiming(o)',
           Broad(o) =>
              /\ left[o] = {} /\ Guests(o) = {}
              /\ \/ fam[o] \cup {Claim(o).id} \subseteq LivePages /\ Rooted(pages, Claim(o).id)
                 \/ fam[o] \cap LivePages = {}
    PROVE  Nested(fam, left)'
<1>1. \A q \in Runs \ {o} : Still(q)  BY LeavingIsStill DEF Typed
<1>2. \A s \in Runs \ {r} : work'[s] = work[s] /\ ~Holds(s, o)
  BY OnlyHolder DEF Leaves, Others
<1>3. ~Broad(o)'  BY DEF Broad
<1>4. /\ Housed(fam)' \subseteq Housed(fam)
      /\ Housed(fam) \subseteq Housed(fam)' \cup House(o, fam[o])
      /\ ~Broad(o) => Housed(fam)' = Housed(fam)
  BY <1>1, <1>3, LessHoused
<1>5. Coherent(pages, Housed(fam)')
  <2>1. CASE ~Broad(o)  BY <1>4, <2>1 DEF Nested
  <2>2. CASE Broad(o)
    <3>1. Family(pages, Claimed(o), fam[o], {})  BY <2>2 DEF Nested, Housings
    <3>2. Claimed(o).id = Claim(o).id /\ Claimed(o).guests = {}  BY <2>2 DEF Claimed
    <3>3. NoId \notin DOMAIN pages  BY IsCollectionHasNoId DEF Typed
    <3>4. HouseOf(Claimed(o), fam[o]) = House(o, fam[o])  BY DEF House
    <3> QED  BY <1>4, <2>2, <3>1, <3>2, <3>3, <3>4, CoherentReleases DEF Nested, LivePages
  <2> QED  BY <2>1, <2>2
<1>6. Steady(pages, pages', Housed(fam)) /\ Coherent(pages', Housed(fam)')
  BY <1>5, SameIsQuiet
<1>7. \A q \in Runs \ {o} : Broad(q) => Untouched(pages, pages', Claimed(q), fam[q])
  BY SameIsQuiet DEF Nested, Housings
<1>8. Recorded' \subseteq Recorded  BY LeavingSettles DEF Typed
<1>9. \A s \in Runs \ {r} : Open(s) => Spared(s, fam)
  BY <1>2, <1>8, SameIsSpared
<1>10. ~IsRun(work'[r]) \/ Late(work'[r].kind, work'[r].at)
  BY RunIsNeither DEF Leaves
<1>11. IsRun(work'[r]) => Stands(r, fam, left)'  BY <1>10, LateStands
<1>12. ~Open(r)'  BY <1>10, PhasesDiffer DEF Open
<1>13. Fits(o, fam, left)  BY <1>3 DEF Fits
<1>14. o \in Recorded \cap Recorded' => (Claiming(o) => Claiming(o)')
  <2>1. o \in Recorded \cap Recorded' => ops'[o] = ops[o]
    BY LeavingSettles DEF Typed
  <2> QED  BY <2>1 DEF Claiming
<1>15. Ids \subseteq Ids'  BY DEF SamePlaces, Ids
<1> QED  BY <1>1, <1>2, <1>3, <1>6, <1>7, <1>9, <1>11, <1>12, <1>13, <1>14, <1>15, OneActs

LEMMA NoHolders ==
    ASSUME NEW o \in Runs, \A s \in Runs : ~Holds(s, o)
    PROVE  /\ \A ats : ~Is(o, ats)
           /\ Guests(o) = {} /\ ~Off(o)
<1>1. {s \in Runs : Holds(s, o) /\ On(s, "graft")} = {}  OBVIOUS
<1> QED  BY <1>1 DEF Is, Guests, Off

LEMMA NoHoldersLeft ==
    ASSUME NEW o \in Runs, \A s \in Runs : ~Holds(s, o)'
    PROVE  /\ \A ats : ~Is(o, ats)'
           /\ Guests(o)' = {} /\ ~Off(o)'
<1>1. {s \in Runs : Holds(s, o) /\ On(s, "graft")}' = {}  OBVIOUS
<1> QED  BY <1>1 DEF Is, Guests, Off

LEMMA NoGuests ==
    ASSUME Ordered, NEW r \in Runs, NEW o \in Runs, Holds(r, o), ~On(r, "graft")
    PROVE  Guests(o) = {}
<1>1. {s \in Runs : Holds(s, o) /\ On(s, "graft")} = {}  BY DEF Ordered, OneHolds
<1> QED  BY <1>1 DEF Guests

LEMMA LateNests ==
    ASSUME Typed, Typed', Ordered, NEW fam, NEW left, Nested(fam, left),
           NEW r \in Runs, Leaves(r), SamePlaces(pages, pages'),
           Late(work[r].kind, work[r].at)
    PROVE  Nested(fam, left)'
<1>1. \A q \in Runs : Still(q)
  <2>1. ~(Early(work[r].kind, work[r].at) \/ Holding(work[r].kind, work[r].at))
    BY PhasesDiffer
  <2> QED  BY <2>1, LeavingIsStill DEF Typed
<1>2. \A s \in Runs \ {r} : work'[s] = work[s]  BY DEF Leaves, Others
<1>3. Housed(fam)' = Housed(fam)
  <2>1. Broad(r)' => House(r, fam[r])' = House(r, fam[r])
    BY <1>1, StillSame DEF Still, Broad
  <2>2. Broad(r)' <=> Broad(r)  BY <1>1 DEF Still
  <2> QED  BY <1>1, <2>1, <2>2, QuietHoused
<1>4. Steady(pages, pages', Housed(fam)) /\ Coherent(pages', Housed(fam)')
  BY <1>3, SameIsQuiet DEF Nested
<1>5. \A q \in Runs : Broad(q) => Untouched(pages, pages', Claimed(q), fam[q])
  BY SameIsQuiet DEF Nested, Housings
<1>6. Recorded' \subseteq Recorded  BY LeavingSettles DEF Typed
<1>7. \A s \in Runs \ {r} : Open(s) => Spared(s, fam)
  BY <1>2, <1>6, SameIsSpared
<1>8. ~IsRun(work'[r]) \/ Late(work'[r].kind, work'[r].at)
  BY RunIsNeither DEF Leaves
<1>9. IsRun(work'[r]) => Stands(r, fam, left)'  BY <1>8, LateStands
<1>10. ~Open(r)'  BY <1>8, PhasesDiffer DEF Open
<1>11. Ids \subseteq Ids'  BY DEF SamePlaces, Ids
<1> DEFINE o == r
<1>12. Claiming(r)' => Claiming(r) /\ SameClaim(Claim(r), Claim(r)')  BY <1>1 DEF Still
<1> DEFINE R == {r}
<1>13. R \in SUBSET Runs /\ (\A s : s \in R <=> s = r) /\ {} \in SUBSET Runs
  OBVIOUS
<1> HIDE DEF R
<1>14. /\ \A s \in Runs \ R : work'[s] = work[s]
       /\ \A s \in Runs \ R : Open(s) => Spared(s, fam)
       /\ \A s \in R : IsRun(work'[s]) => Stands(s, fam, left)'
       /\ \A t \in R : ~(Open(t)' /\ On(t, "adopt")')
  BY <1>2, <1>7, <1>9, <1>10, <1>13
<1>15. /\ \A q \in Runs \ {} : Still(q) /\ fam[q] = fam[q] /\ left[q] = left[q]
       /\ \A q \in Runs \ {} : Broad(q) => Untouched(pages, pages', Claimed(q), fam[q])
  BY <1>1, <1>5
<1> QED  BY <1>4, <1>11, <1>13, <1>14, <1>15, ActNests

(* The operation of a rename that is interrupted, after its main part.       *)
LEMMA StayingNests ==
    ASSUME Typed, Typed', Ordered, Ordered', NEW fam, NEW left, Nested(fam, left),
           NEW r \in Runs, Leaves(r), ops' = ops, SamePlaces(pages, pages'),
           Holding(work[r].kind, work[r].at), ~Removes(r), work[r].at \notin MainAts,
           NEW o \in Runs, o = work[r].op, ~Deeper(o)
    PROVE  Nested(fam, left)'
<1>1. \A q \in Runs \ {o} : Still(q)  BY LeavingIsStill DEF Typed
<1>2. ~Late(work[r].kind, work[r].at) /\ Holds(r, o)
  BY PhasesDiffer DEF Leaves, Holds
<1>3. \A s \in Runs \ {r} : work'[s] = work[s] /\ ~Holds(s, o)
  BY <1>2, OnlyHolder DEF Leaves, Others
<1>4. o \in Recorded /\ Recorded' = Recorded  BY <1>2, HolderClaims DEF Recorded
<1>5. (Claiming(o)' <=> Claiming(o)) /\ Claim(o)' = Claim(o) /\ (Broad(o)' <=> Broad(o))
  BY <1>4 DEF Claiming, Claim, Broad
<1>6. Keeps(o)  BY <1>4, <1>5 DEF Keeps, SameClaim
<1>7. ASSUME Broad(o)
      PROVE  Matches(o)
  <2>1. Renames(o) /\ Rename(r)
    <3>1. ~Create(r)  BY <1>2, <1>7, HolderClaims
    <3>2. Rename(r)
      BY <3>1 DEF Leaves, IsRun, Holding, Create, Rename, Removes, Delete, Erase
    <3> QED  BY <1>2, <3>2, HolderClaims
  <2>2. ops[o].stage = "Sub"
    <3>1. ops[o].stage # "Main"  BY <1>2, <2>1, HolderClaims
    <3>2. OpTyped(ops[o], Ids)  BY <1>4 DEF Typed
    <3>3. ops[o].kind = "rename"  BY <1>4, <2>1 DEF Renames, Claim
    <3> QED  BY <3>1, <3>2, <3>3 DEF OpTyped
  <2>3. Renames(o)' <=> Renames(o)  BY <1>5 DEF Renames
  <2>4. Moving(o) /\ Moving(o)'  BY <1>4, <2>1, <2>2, <2>3 DEF Moving
  <2>5. \A s \in Runs : ~Holds(s, o)'  BY <1>3, LeavingSettles DEF Typed
  <2>6. \A ats : Is(o, ats) => work[r].at \in ats  BY <1>2, HolderIsOne
  <2>7. ~Off(o)  BY <2>6 DEF Off, MainAts, RenameMain
  <2>8. Guests(o) = {}  BY <1>2, NoGuests DEF On, MainAts, RenameMain
  <2> QED  BY <1>4, <2>1, <2>4, <2>5, <2>7, <2>8, NoHoldersLeft DEF Matches
<1>8. Fits(o, fam, left) /\ (Broad(o)' => House(o, fam[o])' = House(o, fam[o]))
  BY <1>5, <1>6, <1>7, QuietFits DEF Nested
<1>9. Housed(fam)' = Housed(fam)  BY <1>1, <1>5, <1>8, QuietHoused
<1>10. Broad(o)' => House(o, fam[o])' \cap Ids \subseteq Housed(fam)
  BY <1>5, <1>8 DEF Housed
<1>11. Steady(pages, pages', Housed(fam)) /\ Coherent(pages', Housed(fam)')
  BY <1>9, SameIsQuiet DEF Nested
<1>12. \A q \in Runs \ {o} : Broad(q) => Untouched(pages, pages', Claimed(q), fam[q])
  BY SameIsQuiet DEF Nested, Housings
<1>13. \A s \in Runs \ {r} : Open(s) => Spared(s, fam)
  BY <1>3, <1>4, SameIsSpared
<1>14. ~IsRun(work'[r]) \/ Late(work'[r].kind, work'[r].at)
  BY RunIsNeither DEF Leaves
<1>15. IsRun(work'[r]) => Stands(r, fam, left)'  BY <1>14, LateStands
<1>16. ~Open(r)'  BY <1>14, PhasesDiffer DEF Open
<1>17. Ids \subseteq Ids'  BY DEF SamePlaces, Ids
<1>18. Claiming(o)' => Claiming(o) /\ SameClaim(Claim(o), Claim(o)')
  BY <1>5 DEF SameClaim
<1> QED
  BY <1>1, <1>3, <1>5, <1>8, <1>10, <1>11, <1>12, <1>13, <1>15, <1>16, <1>17, <1>18, OneActs

-----------------------------------------------------------------------------
(* The places of which nothing is asked but what is kept.                    *)
Watched == {"check", "put", "save", "graft", "adopt", "batch", "insert", "link", "answered",
            "done"}
Unwatched(w, at) ==
    \/ at \notin Watched
    \/ at = "done" /\ w.kind \in {"create", "rename"}
    \/ at = "answered" /\ ~w.recursively

LEMMA GoneStands ==
    ASSUME Typed, NEW fam, NEW fam2, NEW left2, NEW r \in Runs, IsRun(work[r]), GoesOn(r),
           Creating(r, fam), Treading(r), NoId \notin Ids', Steady(pages, pages', Housed(fam)),
           \A i \in Ids \cup {NoId} : i \in Housed(fam2)' => i \in Housed(fam),
           Early(work[r].kind, work[r].at) => work'[r].id = work[r].id /\ work'[r].copy = work[r].copy,
           work[r].kind = "create" => work[r].at # "recordCreate",
           work[r].kind = "rename" /\ work'[r].at \in AfterBatches => left2[work[r].op] = {},
           work'[r].at \in {"put", "save"} => Placing(r, fam2)',
           work'[r].at = "graft" => Planting(r)',
           work'[r].at = "adopt" => Adopting(r, fam2)',
           work'[r].at = "batch" => Batching(r, fam2[work[r].op], left2[work[r].op])',
           work'[r].at \in {"insert", "link"} => Treading(r)',
           work[r].kind \in {"delete", "erase"} =>
              /\ work'[r].at = "done" => fam2[work[r].op] \cap LivePages' = {}
              /\ work'[r].at = "answered" => ~work[r].recursively
    PROVE  Stands(r, fam2, left2)'
<1>1. /\ work'[r].kind = work[r].kind /\ work'[r].op = work[r].op /\ work'[r].to = work[r].to
      /\ work'[r].recursively = work[r].recursively /\ work'[r].at # "check"
      /\ work'[r].id = work[r].id \/ ~Early(work[r].kind, work[r].at)
      /\ work'[r].copy = work[r].copy \/ (work[r].kind = "create" /\ ~Early(work[r].kind, work[r].at))
      /\ Open(r)' => Open(r) /\ work'[r].id = work[r].id
  BY DEF GoesOn, Open
<1>2. (Checking(r, fam2) /\ Placing(r, fam2) /\ Planting(r) /\ Adopting(r, fam2))'
  BY <1>1 DEF Checking, Placing, Planting, Adopting, On
<1>3. Creating(r, fam2)'
  <2> SUFFICES ASSUME Open(r)', Create(r)', work'[r].id # NoId
               PROVE  Pinned(pages', Housed(fam2)', work'[r].id, work'[r].to)
    BY DEF Creating
  <2>1. Pinned(pages, Housed(fam), work[r].id, work[r].to)
    BY <1>1 DEF Creating, Create, On
  <2>2. work[r].id \in Ids \cup {NoId}  BY DEF Typed, RunTyped
  <2> QED  BY <1>1, <2>1, <2>2, AnchorStays
<1>4. Treading(r)'
  <2>1. CASE work'[r].at \in {"insert", "link"}  BY <2>1
  <2>2. CASE work'[r].at \notin {"insert", "link"}
    BY <1>1, <2>2 DEF Treading, Rename, Removes, Delete, Erase, On
  <2> QED  BY <2>1, <2>2
<1>5. Batching(r, fam2[work[r].op], left2[work[r].op])'  BY DEF Batching, On
<1>6. Batched(r, fam2[work[r].op], left2[work[r].op])'
  BY <1>1 DEF Batched, Rename, Removes, Delete, Erase, On
<1> QED  BY <1>1, <1>2, <1>3, <1>4, <1>5, <1>6 DEF Stands

LEMMA PlainStands ==
    ASSUME Typed, NEW fam, NEW fam2, NEW left2, NEW r \in Runs, IsRun(work[r]), GoesOn(r),
           Creating(r, fam), Treading(r), NoId \notin Ids', Steady(pages, pages', Housed(fam)),
           \A i \in Ids \cup {NoId} : i \in Housed(fam2)' => i \in Housed(fam),
           Unwatched(work[r], work'[r].at),
           Early(work[r].kind, work[r].at) => work'[r].id = work[r].id /\ work'[r].copy = work[r].copy,
           work[r].kind = "create" => work[r].at # "recordCreate",
           work[r].kind = "rename" /\ work'[r].at \in AfterBatches => left2[work[r].op] = {}
    PROVE  Stands(r, fam2, left2)'
<1>1. /\ work'[r].at \notin {"put", "save", "graft", "adopt", "batch", "insert", "link"}
      /\ work[r].kind \in {"delete", "erase"} => work'[r].at # "done"
      /\ work'[r].at = "answered" => ~work[r].recursively
  BY DEF Unwatched, Watched
<1> QED  BY <1>1, GoneStands

LEMMA RunStands ==
    ASSUME NEW fam, NEW left, Nested(fam, left), NEW r \in Runs, IsRun(work[r])
    PROVE  /\ Checking(r, fam) /\ Placing(r, fam) /\ Creating(r, fam) /\ Planting(r)
           /\ Adopting(r, fam) /\ Treading(r)
           /\ Batching(r, fam[work[r].op], left[work[r].op])
           /\ Batched(r, fam[work[r].op], left[work[r].op])
  BY DEF Nested, Stands

LEMMA QuietGoing ==
    ASSUME Typed, Typed', Ordered, Ordered', NEW fam, NEW left, Nested(fam, left),
           NEW r \in Runs, GoesOn(r), SamePlaces(pages, pages'),
           AtsMatch(work[r].kind, work[r].at, work'[r].at), Unwatched(work[r], work'[r].at),
           Early(work[r].kind, work[r].at) => work'[r].id = work[r].id /\ work'[r].copy = work[r].copy,
           work[r].kind = "create" => work[r].at # "recordCreate",
           work[r].kind = "rename" /\ work'[r].at \in AfterBatches => work[r].at \in AfterBatches
    PROVE  Nested(fam, left)'
<1>1. IsRun(work[r])  BY DEF GoesOn
<1>2. Creating(r, fam) /\ Treading(r) /\ Batched(r, fam[work[r].op], left[work[r].op])
  BY <1>1, RunStands
<1>3. NoId \notin Ids'  BY IsCollectionHasNoId DEF Typed, Ids
<1>4. Steady(pages, pages', Housed(fam))  BY SameIsQuiet
<1>5. work[r].kind = "rename" /\ work'[r].at \in AfterBatches => left[work[r].op] = {}
  <2>1. work[r].kind = "rename" /\ work[r].at \in AfterBatches => Holding(work[r].kind, work[r].at)
    BY DEF Holding, AfterBatches
  <2> QED  BY <1>1, <1>2, <2>1 DEF Batched, Rename
<1>6. ASSUME Housed(fam)' = Housed(fam)
      PROVE  Stands(r, fam, left)'
  BY <1>1, <1>2, <1>3, <1>4, <1>5, <1>6, PlainStands
<1> QED  BY <1>6, QuietNests

-----------------------------------------------------------------------------
(* An error.                                                                 *)

LEMMA EarlyLeavingNests ==
    ASSUME Typed, Typed', Ordered, Ordered', NEW fam, NEW left, Nested(fam, left),
           NEW r \in Runs, Leaves(r), ops' = ops, SamePlaces(pages, pages'),
           Early(work[r].kind, work[r].at),
           \/ work[r].at = "check" \/ work[r].kind = "create" \/ ~work[r].recursively
           \/ work[r].kind = "rename"
           \/ work[r].kind = "erase" /\ work[r].at \in {"shrink", "shrunk"}
    PROVE  Nested(fam, left)'
<1>1. r \notin Recorded /\ work[r].op = r /\ IsRun(work[r]) /\ Open(r)
  BY DEF Leaves, Typed, Held, NotYet, Open
<1>2. ~Late(work[r].kind, work[r].at)  BY PhasesDiffer
<1>3. ~Claiming(r)'
  <2>1. ~Open(r)'  BY RunIsNeither, PhasesDiffer DEF Leaves, Open
  <2> QED  BY <1>1, <2>1 DEF Claiming, Passed, Recorded
<1>4. ASSUME Broad(r)
      PROVE  /\ left[r] = {} /\ Guests(r) = {}
             /\ fam[r] \cup {Claim(r).id} \subseteq LivePages /\ Rooted(pages, Claim(r).id)
  <2>1. Passed(r) /\ work[r].recursively /\ Claim(r) = work[r]
    BY <1>1, <1>4 DEF Broad, Claiming, Claim
  <2>2. work[r].at # "check" /\ work[r].kind # "create"  BY <2>1 DEF Passed, On, Create
  <2>3. Housing(r, fam[r], left[r])  BY <1>4 DEF Nested, Housings
  <2>4. \A s \in Runs : ~Holds(s, r)  BY <1>1, HolderClaims
  <2>5. ~Moving(r)  BY <1>1 DEF Moving
  <2>6. left[r] = {}  BY <2>3, <2>5 DEF Housing
  <2>7. Guests(r) = {} /\ ~Off(r)  BY <2>4, NoHolders
  <2>8. CASE work[r].kind = "rename"
    BY <2>1, <2>3, <2>6, <2>7, <2>8 DEF Housing, Renames
  <2>9. CASE work[r].kind = "erase" /\ work[r].at \in {"shrink", "shrunk"}
    BY <1>1, <2>1, <2>3, <2>6, <2>7, <2>9 DEF Housing, Renames
  <2> QED  BY <2>1, <2>2, <2>8, <2>9
<1> QED  BY <1>1, <1>2, <1>3, <1>4, LeavingNests

LEMMA ThrowNests ==
    ASSUME Typed, Typed', Ordered, Ordered', NEW fam, NEW left, Nested(fam, left),
           NEW r \in Runs, IsRun(work[r]), work[r].at \notin {"batch", "cleanup"},
           Throw(r), up' = up, ~history'.damaged
    PROVE  Nested(fam, left)'
<1>0. PICK o \in Runs : o = work[r].op  BY DEF IsRun
<1>1. SamePlaces(pages, pages') /\ ops' = ops  BY DEF Throw, SamePlaces, Stays
<1>2. GoesOn(r) \/ Leaves(r)  BY ThrowingKeepsOrder DEF Typed
<1>3. ~Dirty(r)
  BY DEF Throw, Typed, Held, HasHistory
<1>4. CASE Cleaned(r)
  <2>1. work'[r].at = "cleanup"
    <3>1. Go(r, "cleanup")  BY <1>4 DEF Throw
    <3>2. work'[r] = [work[r] EXCEPT !.at = "cleanup"]
      BY <3>1 DEF Go, Typed, Held, WorkShape
    <3> QED  BY <3>2 DEF IsRun, HasFields
  <2>2. GoesOn(r)
    <3>1. ~(work'[r] = Over)  BY <2>1 DEF Over
    <3>2. ~Late(work'[r].kind, work'[r].at)  BY <2>1 DEF Late
    <3> QED  BY <1>2, <3>1, <3>2 DEF Leaves
  <2>3. Rename(r) => work[r].at = "takeOff"
    BY <1>3, <1>4 DEF Cleaned, Dirty, Rename, Removes, Delete, Erase
  <2>4. Removes(r) => Holding(work[r].kind, work[r].at)
    <3>1. ~Late(work[r].kind, work[r].at) \/ Rename(r)  BY DEF Late, Rename
    <3> QED  BY <1>4, <3>1
         DEF Cleaned, IsRun, Typed, Held, NotYet, Removes, Delete, Erase, Rename
  <2>5. Rename(r) \/ Removes(r)  BY <1>4 DEF Cleaned
  <2>6. AtsMatch(work[r].kind, work[r].at, work'[r].at)
    <3>1. CASE Rename(r)
      <4>1. work[r].kind = "rename" /\ work[r].at = "takeOff"  BY <2>3, <3>1 DEF Rename
      <4> QED  BY <2>1, <4>1 DEF AtsMatch
    <3>2. CASE Removes(r)
      <4>1. work[r].kind \in {"delete", "erase"} /\ work[r].at \in {"stream", "batch", "done", "cleanup"}
        BY <2>4, <3>2 DEF Holding, Removes, Delete, Erase
      <4> QED  BY <2>1, <4>1 DEF AtsMatch
    <3> QED  BY <2>5, <3>1, <3>2
  <2>7. ~Early(work[r].kind, work[r].at) /\ work[r].kind # "create"
    BY <2>3, <2>4, <2>5, PhasesDiffer DEF Rename, Early, Removes, Delete, Erase
  <2> QED
    BY <1>1, <2>1, <2>2, <2>6, <2>7, QuietGoing DEF Unwatched, Watched, AfterBatches
<1>5. CASE ~Cleaned(r)
  <2>1. work'[r] = Over
    <3>1. End(r)  BY <1>5 DEF Throw
    <3> QED  BY <3>1 DEF End, Typed, Held, WorkShape
  <2>2. Leaves(r)  BY <1>2, <2>1, RunIsNeither DEF GoesOn
  <2>3. CASE Late(work[r].kind, work[r].at)  BY <1>1, <2>2, <2>3, LateNests
  <2>4. CASE Holding(work[r].kind, work[r].at)
    <3>1. Holds(r, o)  BY <1>0, <2>4 DEF Holds
    <3>2. o \in Recorded  BY <3>1, HolderClaims
    <3>3. ~Removes(r)  BY <1>0, <1>5, <3>2 DEF Cleaned
    <3>4. work[r].at \notin MainAts
      BY <1>5, <2>4, <3>3 DEF Cleaned, MainAts, RenameMain, Holding, Removes, Delete, Erase, Rename
    <3>5. CASE Create(r)
      <4>1. ~Claiming(o) /\ ops'[o] = ops[o]
        BY <1>1, <3>1, <3>2, <3>5, HolderClaims DEF Claiming, Claim, Create
      <4>2. ~Claiming(o)'  BY <1>1, <3>2, <4>1 DEF Claiming, Recorded
      <4>3. ~Late(work[r].kind, work[r].at)  BY <2>4, PhasesDiffer
      <4> QED  BY <1>0, <1>1, <2>2, <4>1, <4>2, <4>3, LeavingNests DEF Broad
    <3>6. CASE Rename(r)
      <4>1. ~UnderTarget(work[r].copy.path, work[r].to)
        BY <1>0, <1>3, <3>2, <3>4, <3>6 DEF Dirty, On, MainAts, RenameMain
      <4>2. ~Deeper(o)  BY <3>1, <3>6, <4>1, HolderClaims DEF Deeper, UnderTarget
      <4> QED  BY <1>0, <1>1, <2>2, <2>4, <3>3, <3>4, <4>2, StayingNests
    <3> QED  BY <2>4, <3>3, <3>5, <3>6 DEF Holding, Create, Rename, Removes, Delete, Erase
  <2>5. CASE Early(work[r].kind, work[r].at)
    <3>1. r \notin Recorded /\ work[r].op = r  BY <2>5 DEF Typed, Held, NotYet
    <3>2. Treading(r)  BY RunStands
    <3>3. RunFits(r, work[r])  BY DEF Ordered, RunsFit
    <3>4. \/ work[r].at = "check" \/ work[r].kind = "create" \/ ~work[r].recursively
          \/ work[r].kind = "rename"
          \/ work[r].kind = "erase" /\ work[r].at \in {"shrink", "shrunk"}
      <4> SUFFICES ASSUME work[r].kind \in {"delete", "erase"}, work[r].at # "check",
                          work[r].recursively
                   PROVE  work[r].kind = "erase" /\ work[r].at \in {"shrink", "shrunk"}
        BY <2>5 DEF Early
      <4>1. work[r].at \notin {"replace", "adopt", "answered"}
        BY <3>2, <3>3 DEF Treading, RunFits, Removes, Delete, Erase, On
      <4> QED  BY <1>3, <2>5, <3>1, <4>1 DEF Dirty, Early, Erase
    <3> QED  BY <1>1, <2>2, <2>5, <3>4, EarlyLeavingNests
  <2> QED  BY <2>3, <2>4, <2>5 DEF IsRun
<1> QED  BY <1>4, <1>5

-----------------------------------------------------------------------------
(* The quiet steps.                                                          *)

LEMMA KeptPlaces == pages' = pages => SamePlaces(pages, pages')
  BY DEF SamePlaces, Stays

LEMMA CountedPlaces ==
    ASSUME IsCollection(pages), NEW S, NEW n, pages' = Increased(S, n)
    PROVE  SamePlaces(pages, pages')
<1>1. DOMAIN pages' = DOMAIN pages  BY DEF Increased, Ids
<1>2. ASSUME NEW i \in DOMAIN pages  PROVE Stays(pages, pages', i)
  <2>1. IsDocument(pages[i], Ids)  BY DEF IsCollection, Ids
  <2>2. pages'[i] = pages[i] \/ (Found(i) /\ pages'[i] = [pages[i] EXCEPT !.count = @ + n])
    BY DEF Increased, Ids
  <2> QED  BY <1>1, <2>1, <2>2 DEF Stays, IsDocument
<1> QED  BY <1>1, <1>2 DEF SamePlaces

LEMMA GoAt ==
    ASSUME Held, NEW r \in Runs, IsRun(work[r]), NEW at, Go(r, at)
    PROVE  work'[r].at = at
<1>1. work'[r] = [work[r] EXCEPT !.at = at]  BY DEF Go, Held, WorkShape
<1> QED  BY <1>1 DEF IsRun, HasFields

LEMMA GoingTo ==
    ASSUME Typed, Typed', Ordered, Ordered', NEW fam, NEW left, Nested(fam, left),
           NEW r \in Runs, GoesOn(r), SamePlaces(pages, pages'), NEW at, Go(r, at),
           AtsMatch(work[r].kind, work[r].at, at), Unwatched(work[r], at),
           work[r].kind = "create" => work[r].at # "recordCreate",
           work[r].kind = "rename" /\ at \in AfterBatches => work[r].at \in AfterBatches
    PROVE  Nested(fam, left)'
<1>1. work'[r] = [work[r] EXCEPT !.at = at]  BY DEF Go, Typed, Held, WorkShape
<1>2. work'[r].at = at /\ work'[r].id = work[r].id /\ work'[r].copy = work[r].copy
  BY <1>1 DEF GoesOn, IsRun, HasFields
<1> QED  BY <1>2, QuietGoing

LEMMA BumpNests ==
    ASSUME Typed, Typed', Ordered, Ordered', NEW fam, NEW left, Nested(fam, left),
           NEW r \in Runs, Bump(r)
    PROVE  Nested(fam, left)'
<1>1. IsRun(work[r]) /\ work[r].at = "bump"  BY RunsAreRuns DEF Typed, Held, Bump, On
<1>2. PICK at \in {"redirect", "stage"} : Go(r, at)  BY DEF Bump
<1>3. SamePlaces(pages, pages')  BY CountedPlaces DEF Typed, Bump
<1>4. AtsMatch(work[r].kind, work[r].at, at) /\ work[r].kind = "rename"
  BY <1>1 DEF AtsMatch, IsRun, Early, Holding, Late
<1> QED  BY <1>1, <1>2, <1>3, <1>4, BumpGoes, GoingTo DEF Typed, Unwatched, Watched, AfterBatches

LEMMA CreateRedirectNests ==
    ASSUME Typed, Typed', Ordered, Ordered', NEW fam, NEW left, Nested(fam, left),
           NEW r \in Runs, CreateRedirect(r), ~history'.damaged
    PROVE  Nested(fam, left)'
<1>1. IsRun(work[r]) /\ work[r].at = "redirect"
  BY RunsAreRuns DEF Typed, Held, CreateRedirect, On
<1>2. CASE Throw(r)  BY <1>1, <1>2, ThrowNests DEF CreateRedirect, Unchanged
<1>3. CASE ~Throw(r)
  <2>1. Go(r, "stage") /\ pages' = pages  BY <1>3 DEF CreateRedirect
  <2>2. AtsMatch(work[r].kind, work[r].at, "stage") /\ work[r].kind = "rename"
    BY <1>1 DEF AtsMatch, IsRun, Early, Holding, Late
  <2> QED  BY <1>1, <1>3, <2>1, <2>2, CreateRedirectGoes, KeptPlaces, GoingTo
           DEF Typed, Unwatched, Watched, AfterBatches
<1> QED  BY <1>2, <1>3

LEMMA UnbumpNests ==
    ASSUME Typed, Typed', Ordered, Ordered', NEW fam, NEW left, Nested(fam, left),
           NEW r \in Runs, Unbump(r)
    PROVE  Nested(fam, left)'
<1>1. IsRun(work[r]) /\ work[r].at = "unbump"  BY RunsAreRuns DEF Typed, Held, Unbump, On
<1>2. Go(r, "shrink")  BY DEF Unbump
<1>3. SamePlaces(pages, pages')  BY CountedPlaces DEF Typed, Unbump
<1>4. AtsMatch(work[r].kind, work[r].at, "shrink") /\ work[r].kind = "rename"
  BY <1>1 DEF AtsMatch, IsRun, Early, Holding, Late
<1> QED  BY <1>1, <1>2, <1>3, <1>4, UnbumpGoes, GoingTo DEF Typed, Unwatched, Watched, AfterBatches

LEMMA SignpostNests ==
    ASSUME Typed, Typed', Ordered, Ordered', NEW fam, NEW left, Nested(fam, left),
           NEW r \in Runs, Signpost(r)
    PROVE  Nested(fam, left)'
<1>1. IsRun(work[r]) /\ work[r].at = "signpost"
  BY RunsAreRuns DEF Typed, Held, Signpost, On
<1>2. Go(r, "shrink") /\ pages' = pages  BY DEF Signpost
<1>3. work[r].kind = "delete"
  BY <1>1 DEF Ordered, RunsFit, RunFits, IsRun, Early, Holding, Late
<1>4. AtsMatch(work[r].kind, work[r].at, "shrink")
  BY <1>1, <1>3 DEF AtsMatch
<1> QED  BY <1>1, <1>2, <1>3, <1>4, SignpostGoes, KeptPlaces, GoingTo
         DEF Typed, Unwatched, Watched, AfterBatches

LEMMA ErasedNests ==
    ASSUME Typed, Typed', Ordered, Ordered', NEW fam, NEW left, Nested(fam, left),
           NEW r \in Runs, Erased(r)
    PROVE  Nested(fam, left)'
<1>1. IsRun(work[r]) /\ work[r].at = "erase"  BY RunsAreRuns DEF Typed, Held, Erased, On
<1>2. Go(r, "prune") /\ pages' = pages  BY DEF Erased
<1>3. AtsMatch(work[r].kind, work[r].at, "prune") /\ work[r].kind \in {"delete", "erase"}
  BY <1>1 DEF AtsMatch, IsRun, Early, Holding, Late
<1> QED  BY <1>1, <1>2, <1>3, ErasedGoes, KeptPlaces, GoingTo DEF Typed, Unwatched, Watched, AfterBatches

LEMMA ClearRedirectNests ==
    ASSUME Typed, Typed', Ordered, Ordered', NEW fam, NEW left, Nested(fam, left),
           NEW r \in Runs, ClearRedirect(r)
    PROVE  Nested(fam, left)'
<1>1. IsRun(work[r]) /\ work[r].at = "clear"
  BY RunsAreRuns DEF Typed, Held, ClearRedirect, On
<1>2. Go(r, "prepare") /\ pages' = pages  BY DEF ClearRedirect
<1>3. AtsMatch(work[r].kind, work[r].at, "prepare") /\ work[r].kind = "create"
  BY <1>1 DEF AtsMatch, IsRun, Early, Holding, Late
<1> QED  BY <1>1, <1>2, <1>3, ClearRedirectGoes, KeptPlaces, GoingTo
         DEF Typed, Unwatched, Watched, AfterBatches

LEMMA EraseRedirectsNests ==
    ASSUME Typed, Typed', Ordered, Ordered', NEW fam, NEW left, Nested(fam, left),
           NEW r \in Runs, EraseRedirects(r)
    PROVE  Nested(fam, left)'
<1>1. IsRun(work[r]) /\ work[r].at = "erase"
  BY RunsAreRuns DEF Typed, Held, EraseRedirects, On
<1>2. work'[r] = [work[r] EXCEPT !.todo = @ \ {"redirects"}] /\ pages' = pages
  BY DEF EraseRedirects, Typed, Held, WorkShape
<1>3. work'[r].at = "erase"  BY <1>1, <1>2 DEF IsRun, HasFields
<1>4. AtsMatch(work[r].kind, work[r].at, work'[r].at) /\ work[r].kind \in {"delete", "erase"}
  BY <1>1, <1>3 DEF AtsMatch, IsRun, Early, Holding, Late
<1>5. GoesOn(r)  BY EraseRedirectsGoes DEF Typed
<1> QED  BY <1>1, <1>2, <1>3, <1>4, <1>5, KeptPlaces, QuietGoing
         DEF GoesOn, Unwatched, Watched, AfterBatches

(* Counts. *)
LEMMA ClimbNests ==
    ASSUME Typed, Typed', Ordered, Ordered', NEW fam, NEW left, Nested(fam, left),
           NEW r \in Runs, NEW from, NEW to, NEW i, NEW S, Climb(r, from, to, i, S),
           IsRun(work[r]), ~history'.damaged, Throw(r) \/ GoesOn(r),
           from \notin {"batch", "cleanup", "recordCreate"}, Unwatched(work[r], to),
           AtsMatch(work[r].kind, from, to),
           work[r].kind = "rename" /\ to \in AfterBatches => from \in AfterBatches
    PROVE  Nested(fam, left)'
<1>1. work[r].at = from  BY DEF Climb, On
<1>2. CASE Throw(r)  BY <1>1, <1>2, ThrowNests DEF Climb, Unchanged
<1>3. CASE ~Throw(r)
  <2>1. pages' = pages /\ work'[r] = [work[r] EXCEPT !.at = to, !.ids = S]
    BY <1>3 DEF Climb, Typed, Held, WorkShape
  <2>2. work'[r].at = to /\ work'[r].id = work[r].id /\ work'[r].copy = work[r].copy
    BY <2>1 DEF IsRun, HasFields
  <2> QED  BY <1>1, <1>3, <2>1, <2>2, KeptPlaces, QuietGoing
<1> QED  BY <1>2, <1>3

LEMMA ShrinkNests ==
    ASSUME Typed, Typed', Ordered, Ordered', NEW fam, NEW left, Nested(fam, left),
           NEW r \in Runs, Shrink(r), ~history'.damaged
    PROVE  Nested(fam, left)'
<1>1. IsRun(work[r]) /\ work[r].at = "shrink"
  BY RunsAreRuns DEF Typed, Held, Shrink, Climb, On
<1>2. AtsMatch(work[r].kind, "shrink", "shrunk")  BY DEF AtsMatch
<1> QED  BY <1>1, <1>2, ShrinkGoes, ClimbNests DEF Typed, Shrink, Unwatched, Watched, AfterBatches

LEMMA GrowNests ==
    ASSUME Typed, Typed', Ordered, Ordered', NEW fam, NEW left, Nested(fam, left),
           NEW r \in Runs, Grow(r), ~history'.damaged
    PROVE  Nested(fam, left)'
<1>1. IsRun(work[r]) /\ work[r].at = "grow"
  BY RunsAreRuns DEF Typed, Held, Grow, Climb, On
<1>2. AtsMatch(work[r].kind, "grow", "grown")  BY DEF AtsMatch
<1> QED  BY <1>1, <1>2, GrowGoes, ClimbNests DEF Typed, Grow, Unwatched, Watched, AfterBatches

LEMMA CountMoves ==
    ASSUME Typed, NEW r \in Runs, IsRun(work[r]), NEW from, NEW to, NEW S, NEW n,
           Count(r, from, to, S, n)
    PROVE  /\ SamePlaces(pages, pages') /\ work[r].at = from /\ work'[r].at = to
           /\ work'[r].id = work[r].id /\ work'[r].copy = work[r].copy
<1>1. work'[r] = [work[r] EXCEPT !.at = to, !.ids = {}]
  BY DEF Count, Typed, Held, WorkShape
<1>2. work'[r].at = to /\ work'[r].id = work[r].id /\ work'[r].copy = work[r].copy
  BY <1>1 DEF IsRun, HasFields
<1>3. SamePlaces(pages, pages')  BY CountedPlaces DEF Typed, Count
<1> QED  BY <1>2, <1>3 DEF Count, On

LEMMA ShrunkNests ==
    ASSUME Typed, Typed', Ordered, Ordered', NEW fam, NEW left, Nested(fam, left),
           NEW r \in Runs, Shrunk(r)
    PROVE  Nested(fam, left)'
<1>1. IsRun(work[r]) /\ work[r].at = "shrunk"
  BY RunsAreRuns DEF Typed, Held, Shrunk, Count, On
<1>2. Rename(r) \/ Delete(r) \/ Erase(r)
  BY <1>1 DEF IsRun, Early, Holding, Late, Rename, Delete, Erase
<1>3. PICK to : /\ to = CASE Rename(r) -> "grow" [] Delete(r) -> "prune" [] Erase(r) -> "erase"
                /\ Count(r, "shrunk", to, Losers(r), -Gains(r))
  BY DEF Shrunk
<1>4. AtsMatch(work[r].kind, "shrunk", to) /\ Unwatched(work[r], to) /\ (Rename(r) => to = "grow")
  BY <1>2, <1>3 DEF AtsMatch, Unwatched, Watched, Rename, Delete, Erase
<1>5. /\ SamePlaces(pages, pages') /\ work'[r].at = to
      /\ work'[r].id = work[r].id /\ work'[r].copy = work[r].copy
  BY <1>1, <1>3, CountMoves
<1> QED  BY <1>1, <1>4, <1>5, ShrunkGoes, QuietGoing DEF Typed, Rename, AfterBatches

LEMMA GrownNests ==
    ASSUME Typed, Typed', Ordered, Ordered', NEW fam, NEW left, Nested(fam, left),
           NEW r \in Runs, Grown(r)
    PROVE  Nested(fam, left)'
<1>1. IsRun(work[r]) /\ work[r].at = "grown"
  BY RunsAreRuns DEF Typed, Held, Grown, Count, On
<1>2. Rename(r) \/ Create(r)
  BY <1>1 DEF IsRun, Early, Holding, Late, Rename, Create
<1>3. PICK to : /\ to = IF Rename(r) THEN "prune" ELSE "done"
                /\ Count(r, "grown", to, Gainers(r), Gains(r))
  BY DEF Grown
<1>4. AtsMatch(work[r].kind, "grown", to) /\ Unwatched(work[r], to)
  BY <1>2, <1>3 DEF AtsMatch, Unwatched, Watched, Rename, Create
<1>5. /\ SamePlaces(pages, pages') /\ work'[r].at = to
      /\ work'[r].id = work[r].id /\ work'[r].copy = work[r].copy
  BY <1>1, <1>3, CountMoves
<1> QED  BY <1>1, <1>4, <1>5, GrownGoes, QuietGoing DEF Typed, Rename, AfterBatches

LEMMA PruneNests ==
    ASSUME Typed, Typed', Ordered, Ordered', NEW fam, NEW left, Nested(fam, left),
           NEW r \in Runs, Prune(r)
    PROVE  Nested(fam, left)'
<1>1. IsRun(work[r]) /\ work[r].at = "prune"  BY RunsAreRuns DEF Typed, Held, Prune, On
<1>2. work'[r] = [work[r] EXCEPT !.at = "pruned", !.ids = LeafEmpties(work[r].copy.parent)]
      /\ pages' = pages
  BY DEF Prune, Typed, Held, WorkShape
<1>3. work'[r].at = "pruned" /\ work'[r].id = work[r].id /\ work'[r].copy = work[r].copy
  BY <1>1, <1>2 DEF IsRun, HasFields
<1>4. AtsMatch(work[r].kind, "prune", "pruned")  BY DEF AtsMatch
<1>5. work[r].kind # "create"  BY <1>1 DEF IsRun, Early, Holding, Late
<1> QED  BY <1>1, <1>2, <1>3, <1>4, <1>5, PruneGoes, KeptPlaces, QuietGoing
         DEF Typed, Unwatched, Watched, AfterBatches

LEMMA QuietGone ==
    ASSUME Typed, Typed', Ordered, Ordered', NEW fam, NEW left, Nested(fam, left),
           NEW r \in Runs, GoesOn(r), SamePlaces(pages, pages'),
           AtsMatch(work[r].kind, work[r].at, work'[r].at),
           Early(work[r].kind, work[r].at) => work'[r].id = work[r].id /\ work'[r].copy = work[r].copy,
           work[r].kind = "create" => work[r].at # "recordCreate",
           work[r].kind = "rename" /\ work'[r].at \in AfterBatches => left[work[r].op] = {},
           work'[r].at \in {"put", "save"} /\ Housed(fam)' = Housed(fam) => Placing(r, fam)',
           work'[r].at = "batch" => Batching(r, fam[work[r].op], left[work[r].op])',
           work'[r].at \in {"insert", "link"} => Treading(r)',
           work[r].kind \in {"delete", "erase"} =>
              /\ work'[r].at = "done" => fam[work[r].op] \cap LivePages' = {}
              /\ work'[r].at = "answered" => ~work[r].recursively
    PROVE  Nested(fam, left)'
<1>1. IsRun(work[r])  BY DEF GoesOn
<1>2. Creating(r, fam) /\ Treading(r)  BY <1>1, RunStands
<1>3. NoId \notin Ids'  BY IsCollectionHasNoId DEF Typed, Ids
<1>4. Steady(pages, pages', Housed(fam))  BY SameIsQuiet
<1>5. work'[r].at \notin {"graft", "adopt"}  BY DEF AtsMatch
<1>6. ASSUME Housed(fam)' = Housed(fam)
      PROVE  Stands(r, fam, left)'
  BY <1>1, <1>2, <1>3, <1>4, <1>5, <1>6, GoneStands
<1> QED  BY <1>6, QuietNests

-----------------------------------------------------------------------------
(* What is above the path that a run puts a page at is in no house.          *)
LEMMA AboveIsOut ==
    ASSUME Typed, Ordered, NEW r \in Runs, IsRun(work[r]),
           \/ Create(r) /\ Open(r)
           \/ /\ Rename(r) /\ Holding(work[r].kind, work[r].at)
              /\ ~UnderTarget(work[r].copy.path, work[r].to)
           \/ Rename(r) /\ Passed(r) /\ ~UnderTarget(work[r].copy.path, work[r].to),
           NEW p \in Ancestors(work[r].to), NEW o \in Runs, Broad(o)
    PROVE  ~InArea(o, p)
<1> SUFFICES ASSUME NEW q \in PathsOf(o), IsPrefix(q, p)  PROVE FALSE
  BY DEF InArea
<1>1. IsPath(work[r].to) /\ work[r].to \in Paths
  BY DEF Typed, RunTyped, Rename, Create, IsPath, Paths
<1>2. p \in Paths /\ IsStrictPrefix(p, work[r].to)  BY <1>1, AncestorsArePrefixes
<1>3. q \in Paths  BY ClaimFits DEF Broad
<1>4. IsPrefix(q, work[r].to)  BY <1>1, <1>2, <1>3, PrefixTransitive DEF IsStrictPrefix
<1>5. CASE Create(r) /\ Open(r)
  BY <1>4, <1>5 DEF Ordered, Outside, InArea
<1>6. CASE Rename(r) /\ (Holding(work[r].kind, work[r].at) \/ Passed(r))
           /\ ~UnderTarget(work[r].copy.path, work[r].to)
  <2>1. PICK s \in Runs : s = work[r].op  BY DEF IsRun
  <2>2. /\ Broad(s) /\ Renames(s) /\ Claim(s).to = work[r].to /\ From(s) = work[r].copy.path
    <3>1. CASE Holding(work[r].kind, work[r].at)
      <4>1. Holds(r, s)  BY <2>1, <3>1 DEF Holds
      <4> QED  BY <4>1, <1>6, HolderClaims DEF Rename, Create
    <3>2. CASE Passed(r)
      <4>1. work[r].recursively  BY <1>6 DEF Ordered, RunsFit, RunFits, Rename
      <4> QED  BY <2>1, <3>2, <4>1, <1>6, OpenClaims DEF Passed, Typed
    <3> QED  BY <1>6, <3>1, <3>2
  <2>3. PathsOf(s) = {work[r].copy.path, work[r].to} /\ work[r].to \in PathsOf(s)
    BY <2>2, ClaimFits DEF Broad
  <2>4. CASE s # o
    BY <1>4, <2>2, <2>3, <2>4 DEF Ordered, Apart, InArea
  <2>5. CASE s = o
    <3>1. q # work[r].to
      BY <1>1, <1>2, PrefixLonger DEF IsStrictPrefix
    <3>2. q = work[r].copy.path  BY <2>3, <2>5, <3>1
    <3> QED  BY <1>4, <1>6, <3>1, <3>2 DEF UnderTarget, IsStrictPrefix
  <2> QED  BY <2>4, <2>5
<1> QED  BY <1>5, <1>6

LEMMA AboveIsFree ==
    ASSUME Typed, Ordered, NEW fam, NEW left, Housings(fam, left), NEW r \in Runs, IsRun(work[r]),
           \/ Create(r) /\ Open(r)
           \/ /\ Rename(r) /\ Holding(work[r].kind, work[r].at)
              /\ ~UnderTarget(work[r].copy.path, work[r].to),
           NEW p \in Ancestors(work[r].to), NEW i \in LivePages, pages[i].path = p
    PROVE  i \notin Housed(fam)
<1>1. ASSUME i \in Housed(fam)
      PROVE  \E o \in Runs : Broad(o) /\ InArea(o, p)
  BY <1>1, HousedInArea
<1> QED  BY <1>1, AboveIsOut

LEMMA DirnameIsAncestor ==
    ASSUME NEW to \in Paths, to # <<>>
    PROVE  Dirname(to) \in Ancestors(to) /\ Dirname(to) = Front(to)
  BY FrontIsPath, AncestorsArePrefixes DEF Dirname

(* The earliest page on the tree at a path is none that an empty page        *)
(* replaces it with.                                                         *)
LEMMA EarliestIsNoReplacement ==
    ASSUME NEW fam, NEW left, Nested(fam, left), IsCollection(pages),
           NEW S \in SUBSET LivePages, NEW p,
           \A i \in LivePages : Rooted(pages, i) /\ pages[i].path = p => i \in S,
           \A i \in S : pages[i].path = p,
           NEW s \in Runs, Open(s), On(s, "adopt"), S # {}
    PROVE  work[s].parent # Earliest(S)
<1> SUFFICES ASSUME work[s].parent = Earliest(S)  PROVE FALSE
  OBVIOUS
<1>0. PICK d, n : d = work[s].id /\ n = work[s].parent  OBVIOUS
<1>1. Stands(s, fam, left)  BY DEF Nested, Open
<1>2. /\ d < n
      /\ \A i \in {d, n} : i \in LivePages /\ Rooted(pages, i) /\ pages[i].path = work[s].copy.path
  BY <1>0, <1>1 DEF Stands, Adopting, Open
<1>3. S \subseteq Ids  BY DEF LivePages, LiveOf, Ids
<1>4. Ids \subseteq Nat  BY IsCollectionHasNoId DEF Ids
<1>5. Earliest(S) \in S /\ \A i \in S : Earliest(S) <= i
  BY <1>3, <1>4, EarliestIsOne
<1>6. pages[n].path = p  BY <1>0, <1>5
<1>7. d \in S  BY <1>2, <1>6
<1>8. n <= d  BY <1>0, <1>5, <1>7
<1>9. d \in Nat /\ n \in Nat  BY <1>3, <1>4, <1>5, <1>7, <1>0
<1> QED  BY <1>2, <1>8, <1>9

LEMMA FindNests ==
    ASSUME Typed, Typed', Ordered, Ordered', NEW fam, NEW left, Nested(fam, left),
           NEW r \in Runs, Find(r), ~history'.damaged
    PROVE  Nested(fam, left)'
<1>1. IsRun(work[r]) /\ work[r].at = "find" /\ (Rename(r) \/ Create(r))
      /\ (Rename(r) => Holding(work[r].kind, work[r].at)) /\ (Create(r) => Open(r))
  <2>1. IsRun(work[r]) /\ work[r].at = "find"  BY RunsAreRuns DEF Typed, Held, Find, On
  <2> QED  BY <2>1 DEF IsRun, Early, Holding, Late, Rename, Create, Open
<1> DEFINE parents == {i \in At(Dirname(work[r].to)) : OnTree(i)}
<1>2. CASE Throw(r)  BY <1>1, <1>2, ThrowNests DEF Find, Unchanged
<1>3. CASE ~Throw(r)
  <2>1. GoesOn(r) /\ pages' = pages /\ SamePlaces(pages, pages')
    BY <1>3, FindGoes, KeptPlaces DEF Typed, Find
  <2>2. \/ Rename(r) /\ Go(r, "plant")
        \/ /\ ~(Rename(r) /\ UnderTarget(work[r].copy.path, work[r].to))
           /\ \/ parents # {} /\ work' = [work EXCEPT ![r] = [@ EXCEPT
                       !.at = IF Rename(r) THEN "put" ELSE "save", !.parent = Earliest(parents)]]
              \/ work' = [work EXCEPT ![r] = [@ EXCEPT !.at = "insert", !.todo = Missing(work[r].to)]]
    BY <1>3 DEF Find
  <2>3. CASE Rename(r) /\ Go(r, "plant")
    <3>1. AtsMatch(work[r].kind, work[r].at, "plant")  BY <1>1, <2>3 DEF AtsMatch, Rename
    <3> QED  BY <1>1, <2>1, <2>3, <3>1, GoingTo DEF Unwatched, Watched, AfterBatches, Rename
  <2>4. CASE /\ ~(Rename(r) /\ UnderTarget(work[r].copy.path, work[r].to))
             /\ parents # {} /\ work' = [work EXCEPT ![r] = [@ EXCEPT
                       !.at = IF Rename(r) THEN "put" ELSE "save", !.parent = Earliest(parents)]]
    <3>1. work'[r] = [work[r] EXCEPT
             !.at = IF Rename(r) THEN "put" ELSE "save", !.parent = Earliest(parents)]
      BY <2>4 DEF Typed, Held, WorkShape
    <3>2. /\ work'[r].at = IF Rename(r) THEN "put" ELSE "save"
          /\ work'[r].parent = Earliest(parents) /\ work'[r].id = work[r].id
          /\ work'[r].copy = work[r].copy /\ work'[r].to = work[r].to
      BY <1>1, <3>1 DEF IsRun, HasFields
    <3>3. AtsMatch(work[r].kind, work[r].at, work'[r].at)
      BY <1>1, <3>2 DEF AtsMatch, Rename, Create
    <3>4. work[r].to \in Paths /\ work[r].to # <<>>
      BY <1>1 DEF Typed, RunTyped, IsPath, Paths, Rename, Create
    <3>5. Dirname(work[r].to) \in Ancestors(work[r].to) /\ Dirname(work[r].to) = Front(work[r].to)
      BY <3>4, DirnameIsAncestor
    <3>6. /\ parents \in SUBSET LivePages /\ IsCollection(pages)
          /\ \A i \in LivePages : Rooted(pages, i) /\ pages[i].path = Dirname(work[r].to) => i \in parents
          /\ \A i \in parents : pages[i].path = Dirname(work[r].to) /\ Rooted(pages, i)
      BY DEF At, OnTree, LivePages, LiveOf, Ids, Rooted, Typed
    <3>7. \A s \in Runs : Open(s) /\ On(s, "adopt") => work[s].parent # Earliest(parents)
      <4> HIDE DEF parents
      <4> QED  BY <2>4, <3>6, EarliestIsNoReplacement
    <3>8. Earliest(parents) \in parents
      <4>1. LivePages \subseteq Nat  BY <3>6, IsCollectionHasNoId DEF LivePages, LiveOf
      <4> HIDE DEF parents
      <4> QED  BY <2>4, <3>6, <4>1, EarliestIsOne
    <3>9. Anchored(pages, Housed(fam), Earliest(parents), Front(work[r].to))
      <4>1. Housings(fam, left)  BY DEF Nested
      <4> HIDE DEF parents
      <4>2. Earliest(parents) \notin Housed(fam)
        BY <1>1, <2>4, <3>5, <3>6, <3>8, <4>1, AboveIsFree
      <4> QED  BY <3>5, <3>6, <3>8, <4>2 DEF Anchored, Pinned, LivePages
    <3> HIDE DEF parents
    <3>10. ASSUME Housed(fam)' = Housed(fam)
           PROVE  Placing(r, fam)'
      <4>1. Anchored(pages', Housed(fam)', Earliest(parents), Front(work[r].to))
        BY <2>1, <3>9, <3>10
      <4>2. \A s \in Runs : Open(s)' /\ On(s, "adopt")' => work'[s].parent # Earliest(parents)
        <5> SUFFICES ASSUME NEW s \in Runs, Open(s)', On(s, "adopt")'
                     PROVE  work'[s].parent # Earliest(parents)
          OBVIOUS
        <5>1. s # r  BY <3>2 DEF On
        <5>2. work'[s] = work[s]  BY <2>1, <5>1 DEF GoesOn, Others
        <5> QED  BY <3>7, <5>2 DEF Open, On
      <4> QED  BY <3>2, <4>1, <4>2 DEF Placing
    <3> QED
      BY <1>1, <2>1, <3>2, <3>3, <3>10, QuietGone DEF AfterBatches
  <2>5. CASE /\ ~(Rename(r) /\ UnderTarget(work[r].copy.path, work[r].to))
             /\ work' = [work EXCEPT ![r] = [@ EXCEPT !.at = "insert", !.todo = Missing(work[r].to)]]
    <3>1. work'[r] = [work[r] EXCEPT !.at = "insert", !.todo = Missing(work[r].to)]
      BY <2>5 DEF Typed, Held, WorkShape
    <3>2. /\ work'[r].at = "insert" /\ work'[r].id = work[r].id /\ work'[r].kind = work[r].kind
          /\ work'[r].copy = work[r].copy /\ work'[r].to = work[r].to
      BY <1>1, <3>1 DEF IsRun, HasFields
    <3>3. AtsMatch(work[r].kind, work[r].at, work'[r].at)
      BY <1>1, <3>2 DEF AtsMatch, Rename, Create
    <3>4. Treading(r)'
      BY <1>1, <2>5, <3>2 DEF Treading, Rename, Removes, Delete, Erase, On, Create
    <3> QED
      BY <1>1, <2>1, <3>2, <3>3, <3>4, QuietGone DEF AfterBatches
  <2> QED  BY <2>2, <2>3, <2>4, <2>5, SMTT(60)
<1> QED  BY <1>2, <1>3

LEMMA PrepareNests ==
    ASSUME Typed, Typed', Ordered, Ordered', NEW fam, NEW left, Nested(fam, left),
           NEW r \in Runs, Prepare(r)
    PROVE  Nested(fam, left)'
<1>1. IsRun(work[r]) /\ work[r].at = "prepare" /\ Create(r) /\ Open(r)
  <2>1. IsRun(work[r]) /\ work[r].at = "prepare"  BY RunsAreRuns, ZenonT(60) DEF Typed, Held, Prepare, On
  <2> QED  BY <2>1 DEF IsRun, Early, Holding, Late, Create, Open
<1> DEFINE empties == {i \in At(work[r].to) : pages[i].kind = "empty"}
<1>2. GoesOn(r) /\ SamePlaces(pages, pages')  BY PrepareGoes, KeptPlaces, ZenonT(60) DEF Typed, Prepare
<1>3. work'[r].at = "find" /\ work'[r].to = work[r].to /\ work'[r].kind = work[r].kind
  <2>1. \/ work'[r] = [work[r] EXCEPT !.at = "find"]
        \/ work'[r] = [work[r] EXCEPT !.at = "find", !.id = Earliest(empties),
                            !.copy = pages[Earliest(empties)], !.sum = Recounted(Earliest(empties))]
    BY DEF Prepare, Typed, Held, WorkShape
  <2> QED  BY <1>1, <2>1 DEF IsRun, HasFields
<1>4. AtsMatch(work[r].kind, work[r].at, work'[r].at)
  BY <1>1, <1>3 DEF AtsMatch, Create
<1>5. CASE empties = {}
  <2>1. work'[r] = [work[r] EXCEPT !.at = "find"]
    BY <1>5 DEF Prepare, Typed, Held, WorkShape
  <2>2. work'[r].id = work[r].id /\ work'[r].copy = work[r].copy
    BY <1>1, <2>1 DEF IsRun, HasFields
  <2> QED  BY <1>1, <1>2, <1>3, <1>4, <2>2, QuietGoing DEF Unwatched, Watched, AfterBatches, Create
<1>6. CASE empties # {}
  <2>1. work'[r] = [work[r] EXCEPT !.at = "find", !.id = Earliest(empties),
                            !.copy = pages[Earliest(empties)], !.sum = Recounted(Earliest(empties))]
    BY <1>6 DEF Prepare, Typed, Held, WorkShape
  <2>2. work'[r].id = Earliest(empties)  BY <1>1, <2>1 DEF IsRun, HasFields
  <2>3. empties \in SUBSET LivePages /\ \A i \in empties : pages[i].path = work[r].to
    BY DEF At, LivePages, LiveOf, Ids
  <2>4. LivePages \subseteq Nat  BY IsCollectionHasNoId DEF LivePages, LiveOf, Typed
  <2> HIDE DEF empties
  <2>5. Earliest(empties) \in empties  BY <1>6, <2>3, <2>4, EarliestIsOne
  <2>6. Earliest(empties) \notin Housed(fam)
    <3> SUFFICES ASSUME Earliest(empties) \in Housed(fam)  PROVE FALSE
      OBVIOUS
    <3>1. PICK o \in Runs : Broad(o) /\ InArea(o, work[r].to)
      BY <2>3, <2>5, HousedInArea DEF Nested
    <3> QED  BY <1>1, <3>1 DEF Ordered, Outside
  <2>7. ASSUME Housed(fam)' = Housed(fam)
        PROVE  Stands(r, fam, left)'
    <3>1. Pinned(pages', Housed(fam)', Earliest(empties), work[r].to)
      BY <2>3, <2>5, <2>6, <2>7 DEF Pinned, LivePages, Prepare
    <3>2. Creating(r, fam)'  BY <1>3, <2>2, <3>1 DEF Creating
    <3>3. (Checking(r, fam) /\ Placing(r, fam) /\ Planting(r) /\ Adopting(r, fam) /\ Treading(r))'
      BY <1>1, <1>3 DEF Checking, Placing, Planting, Adopting, On, Treading, Rename, Create,
           Removes, Delete, Erase
    <3>4. \A F, L : (Batching(r, F, L) /\ Batched(r, F, L))'
      BY <1>1, <1>3 DEF Batching, Batched, On, Rename, Create, Removes, Delete, Erase
    <3> QED  BY <3>2, <3>3, <3>4 DEF Stands
  <2> QED  BY <1>2, <1>4, <2>7, QuietNests, SMTT(60)
<1> QED  BY <1>5, <1>6

LEMMA BatchesEndNests ==
    ASSUME Typed, Typed', Ordered, Ordered', NEW fam, NEW left, Nested(fam, left),
           NEW r \in Runs, BatchesEnd(r)
    PROVE  Nested(fam, left)'
<1>1. IsRun(work[r]) /\ work[r].at = "batch"  BY RunsAreRuns DEF Typed, Held, BatchesEnd, On
<1>2. PICK to : to = (IF Rename(r) THEN "unbump" ELSE "done") /\ Go(r, to)
  BY DEF BatchesEnd
<1>3. work'[r] = [work[r] EXCEPT !.at = to]  BY <1>2 DEF Go, Typed, Held, WorkShape
<1>4. work'[r].at = to /\ work'[r].id = work[r].id /\ work'[r].copy = work[r].copy
  BY <1>1, <1>3 DEF IsRun, HasFields
<1>5. GoesOn(r) /\ pages' = pages /\ SamePlaces(pages, pages')
  BY BatchesEndGoes, KeptPlaces DEF Typed, BatchesEnd
<1>6. work[r].kind \in {"rename", "delete", "erase"}
  BY <1>1 DEF IsRun, Early, Holding, Late
<1>7. AtsMatch(work[r].kind, work[r].at, work'[r].at)
  BY <1>1, <1>2, <1>4, <1>6 DEF AtsMatch, Rename
<1>8. PICK o \in Runs : o = work[r].op  BY <1>1 DEF IsRun
<1>9. Batching(r, fam[o], left[o]) /\ ToDo(r) = {}
  BY <1>1, <1>8, RunStands DEF BatchesEnd, ToDo
<1>10. Rename(r) => left[o] = {}  BY <1>1, <1>9 DEF Batching, On
<1>11. ~Rename(r) => fam[o] \cap LivePages = {}  BY <1>1, <1>9 DEF Batching, On
<1>12. LivePages' = LivePages  BY <1>5 DEF LivePages
<1> QED
  BY <1>1, <1>2, <1>4, <1>5, <1>6, <1>7, <1>8, <1>10, <1>11, <1>12, QuietGone
  DEF Rename, AfterBatches

LEMMA ExtendExpiryDateNests ==
    ASSUME Typed, Typed', Ordered, Ordered', NEW fam, NEW left, Nested(fam, left),
           NEW r \in Runs, ExtendExpiryDate(r)
    PROVE  Nested(fam, left)'
<1>1. IsRun(work[r]) /\ work[r].at = "batch" /\ Rename(r)
  BY RunsAreRuns DEF Typed, Held, ExtendExpiryDate, On
<1>3. work'[r] = [work[r] EXCEPT !.ticked = TRUE]
  BY DEF ExtendExpiryDate, Typed, Held, WorkShape
<1>4. /\ work'[r].at = "batch" /\ work'[r].id = work[r].id /\ work'[r].copy = work[r].copy
      /\ work'[r].todo = work[r].todo /\ work'[r].op = work[r].op /\ work'[r].kind = work[r].kind
  BY <1>1, <1>3 DEF IsRun, HasFields
<1>5. GoesOn(r) /\ pages' = pages /\ SamePlaces(pages, pages')
  BY ExtendExpiryDateGoes, KeptPlaces DEF Typed, ExtendExpiryDate
<1>6. AtsMatch(work[r].kind, work[r].at, work'[r].at)
  BY <1>1, <1>4 DEF AtsMatch, Rename
<1>7. PICK o \in Runs : o = work[r].op  BY <1>1 DEF IsRun
<1>8. Deeper(o)' <=> Deeper(o)
  <2>1. ~Late(work'[r].kind, work'[r].at)  BY <1>4 DEF Late
  <2>2. Keeps(o)  BY <1>5, <1>7, <2>1, GoingKeepsClaim DEF Typed
  <2>3. Holds(r, o)  BY <1>1, <1>7 DEF Holds, Holding, Rename
  <2>4. Claiming(o)  BY <1>1, <2>3, HolderClaims DEF Broad, Rename, Create
  <2> QED  BY <2>2, <2>4, KeptSame
<1>9. Batching(r, fam[o], left[o])  BY <1>1, <1>7, RunStands
<1>10. Batching(r, fam[o], left[o])'
  <2>1. ToDo(r)' = ToDo(r)  BY <1>4 DEF ToDo
  <2>2. LivePages' = LivePages  BY <1>5 DEF LivePages
  <2>3. /\ \A x, y \in work[r].todo : x[1] = y[1] => x = y
        /\ ToDo(r) \subseteq fam[o] /\ \A x \in work[r].todo : pages[x[1]].path = x[2]
        /\ left[o] \subseteq ToDo(r) /\ (Deeper(o) => left[o] = ToDo(r))
    BY <1>1, <1>7, <1>9 DEF Batching, On
  <2> QED  BY <1>1, <1>4, <1>5, <1>7, <1>8, <2>1, <2>2, <2>3 DEF Batching, On, Rename
<1> QED
  BY <1>1, <1>4, <1>5, <1>6, <1>7, <1>10, QuietGone DEF Rename, AfterBatches

(* The pages of a family are the descendants of its target.                  *)
LEMMA FamilyDescends ==
    ASSUME IsCollection(pages), NEW c, NEW F, NEW L, Family(pages, c, F, L), F \subseteq LivePages,
           c.from \in Paths, c.now \in Paths
    PROVE  F = Descendants(c.id)
<1>1. c.id \in Ids /\ F \subseteq Ids \ {c.id} /\ L \subseteq F  BY DEF Family, Ids
<1>2. Descendants(c.id) \subseteq F
  <2>1. \A j \in Ids \ {c.id} : pages[j].parent \in F \cup {c.id} => j \in F
    BY DEF Family, HouseOf, Ids
  <2> QED  BY <1>1, <2>1, DescendantsIn
<1>3. ASSUME NEW j \in F
      PROVE  Named(pages, c, L, j) \in Paths /\ Named(pages, c, L, j) # <<>>
  <2>1. pages[j].path \in Paths  BY <1>1 DEF IsCollection, IsDocument, Ids, Paths
  <2>2. IsStrictPrefix(IF j \in L THEN c.from ELSE c.now, pages[j].path)
    BY DEF Family, LivePages
  <2>3. ~IsStrictPrefix(c.now, <<>>)
    BY EmptyPath DEF IsStrictPrefix
  <2>4. CASE j \in L
    <3>1. Moved(pages[j].path, c.from, c.now) \in Paths
          /\ IsStrictPrefix(c.now, Moved(pages[j].path, c.from, c.now))
      BY <2>1, <2>2, <2>4, MovedIsStrict
    <3> QED  BY <2>3, <2>4, <3>1 DEF Named
  <2>5. CASE j \notin L  BY <2>1, <2>2, <2>3, <2>5 DEF Named
  <2> QED  BY <2>4, <2>5
<1> DEFINE S == {n \in Nat : \A j \in F : Len(Named(pages, c, L, j)) = n => j \in Descendants(c.id)}
<1>4. ASSUME NEW n \in Nat, \A m \in Nat : m < n => m \in S  PROVE n \in S
  <2> SUFFICES ASSUME NEW j \in F, Len(Named(pages, c, L, j)) = n  PROVE j \in Descendants(c.id)
    OBVIOUS
  <2>1. PICK p : p = pages[j].parent  OBVIOUS
  <2>2. p \in F \cup {c.id}  BY <2>1 DEF Family, LivePages
  <2>3. CASE p = c.id  BY <1>1, <2>1, <2>3, ChildrenDescend
  <2>4. CASE p \in F
    <3>1. Front(Named(pages, c, L, j)) = Named(pages, c, L, p)
      BY <2>1, <2>4 DEF Family, LivePages
    <3>2. Len(Named(pages, c, L, p)) = n - 1 /\ n - 1 \in Nat
      BY <1>3, <3>1, FrontIsPath, EmptyPath DEF Paths
    <3>3. n - 1 \in S  BY <1>4, <3>2
    <3>4. p \in Descendants(c.id)  BY <2>4, <3>2, <3>3
    <3> QED  BY <1>1, <2>1, <3>4, ChildrenDescend
  <2> QED  BY <2>2, <2>3, <2>4
<1>5. ASSUME NEW j \in F  PROVE j \in Descendants(c.id)
  <2>1. PICK n \in Nat : n = Len(Named(pages, c, L, j))
    BY <1>3 DEF Paths
  <2>2. \A m \in Nat : m \in S
    <3> HIDE DEF S
    <3> SUFFICES ASSUME NEW m \in Nat, m \notin S  PROVE FALSE
      OBVIOUS
    <3>1. Nat \ S \in SUBSET Nat /\ Nat \ S # {}  OBVIOUS
    <3>2. PICK k \in Nat \ S : \A l \in Nat \ S : k <= l  BY <3>1, Smallest
    <3>3. \A l \in Nat : l < k => l \in S  BY <3>2
    <3> QED  BY <1>4, <3>2, <3>3
  <2>3. n \in S  BY <2>2
  <2> QED  BY <2>1, <2>3
<1> QED  BY <1>2, <1>5

LEMMA StreamNests ==
    ASSUME Typed, Typed', Ordered, Ordered', NEW fam, NEW left, Nested(fam, left),
           NEW r \in Runs, Stream(r)
    PROVE  Nested(fam, left)'
<1>1. IsRun(work[r]) /\ work[r].at = "stream"  BY RunsAreRuns DEF Typed, Held, Stream, On
<1>2. work'[r] = [work[r] EXCEPT !.at = "batch", !.todo =
          {<<i, pages[i].path, pages[i].kind>> : i \in Descendants(work[r].id)}]
  BY DEF Stream, Typed, Held, WorkShape
<1>3. /\ work'[r].at = "batch" /\ work'[r].id = work[r].id /\ work'[r].copy = work[r].copy
      /\ work'[r].todo = {<<i, pages[i].path, pages[i].kind>> : i \in Descendants(work[r].id)}
      /\ work'[r].kind = work[r].kind /\ work'[r].op = work[r].op
  BY <1>1, <1>2 DEF IsRun, HasFields
<1>4. GoesOn(r) /\ pages' = pages /\ SamePlaces(pages, pages')
  BY StreamGoes, KeptPlaces DEF Typed, Stream
<1>5. work[r].kind \in {"rename", "delete", "erase"}
  BY <1>1 DEF IsRun, Early, Holding, Late
<1>6. AtsMatch(work[r].kind, work[r].at, work'[r].at)
  BY <1>1, <1>3, <1>5 DEF AtsMatch
<1>7. PICK o \in Runs : o = work[r].op  BY <1>1 DEF IsRun
<1>8. Holds(r, o)  BY <1>1, <1>5, <1>7 DEF Holds, Holding
<1>9. Broad(o) /\ Claiming(o) /\ Claim(o).id = work[r].id /\ (Renames(o) <=> Rename(r))
  BY <1>5, <1>8, HolderClaims DEF Create, Broad
<1>10. Family(pages, Claimed(o), fam[o], left[o]) /\ Housing(o, fam[o], left[o])
  BY <1>9 DEF Nested, Housings
<1>11. Is(o, {"stream"}) /\ Is(o, {"bump", "redirect", "stage", "stream"})
  BY <1>1, <1>8 DEF Is
<1>12. fam[o] \subseteq LivePages /\ (Rename(r) /\ Deeper(o) => left[o] = fam[o])
  BY <1>9, <1>10, <1>11 DEF Housing
<1>13. Claimed(o).from \in Paths /\ Claimed(o).now \in Paths /\ Claimed(o).id = work[r].id
  BY <1>9, ClaimFits DEF Claimed, Moving
<1>14. fam[o] = Descendants(work[r].id)
  BY <1>10, <1>12, <1>13, FamilyDescends DEF Typed
<1>15. ToDo(r)' = fam[o]
  <2>1. \A x \in work'[r].todo : x[1] \in fam[o]  BY <1>3, <1>14
  <2>2. ASSUME NEW i \in fam[o]
        PROVE  \E x \in work'[r].todo : x[1] = i
    <3>1. PICK x : x = <<i, pages[i].path, pages[i].kind>>  OBVIOUS
    <3>2. x \in work'[r].todo /\ x[1] = i  BY <1>3, <1>14, <3>1
    <3> QED  BY <3>2
  <2> QED  BY <2>1, <2>2 DEF ToDo
<1>16. Deeper(o)' <=> Deeper(o)
  <2>1. ~Late(work'[r].kind, work'[r].at)  BY <1>3 DEF Late
  <2>2. Keeps(o)  BY <1>4, <1>7, <2>1, GoingKeepsClaim DEF Typed
  <2> QED  BY <1>9, <2>2, KeptSame
<1>17. Batching(r, fam[o], left[o])'
  <2>1. \A x, y \in work'[r].todo : x[1] = y[1] => x = y  BY <1>3
  <2>2. \A x \in work'[r].todo : pages'[x[1]].path = x[2]  BY <1>3, <1>4
  <2>3. left[o] \subseteq fam[o]  BY <1>10 DEF Family
  <2> QED  BY <1>3, <1>7, <1>12, <1>15, <1>16, <2>1, <2>2, <2>3 DEF Batching, On, Rename
<1>18. ~Early(work[r].kind, work[r].at)  BY <1>8, PhasesDiffer DEF Holds
<1> QED
  BY <1>1, <1>3, <1>4, <1>5, <1>6, <1>7, <1>17, <1>18, QuietGone DEF AfterBatches

LEMMA RecountNests ==
    ASSUME Typed, Typed', Ordered, Ordered', NEW fam, NEW left, Nested(fam, left),
           NEW r \in Runs, Recount(r)
    PROVE  Nested(fam, left)'
<1>1. IsRun(work[r]) /\ work[r].at = "recount"  BY RunsAreRuns DEF Typed, Held, Recount, On
<1>2. Late(work[r].kind, work[r].at)  BY <1>1, SMTT(60) DEF IsRun, Early, Holding, Late
<1>3. Leaves(r) /\ SamePlaces(pages, pages')
  BY RecountLeaves, KeptPlaces DEF Typed, Recount
<1> QED  BY <1>2, <1>3, LateNests

LEMMA StoreNests ==
    ASSUME Typed, Typed', Ordered, Ordered', NEW fam, NEW left, Nested(fam, left),
           NEW r \in Runs, Store(r)
    PROVE  Nested(fam, left)'
<1>1. IsRun(work[r]) /\ work[r].at = "store"  BY RunsAreRuns DEF Typed, Held, Store, On
<1>2. Late(work[r].kind, work[r].at)  BY <1>1 DEF IsRun, Early, Holding, Late
<1>3. SamePlaces(pages, pages')
  <2>1. DOMAIN pages' = DOMAIN pages  BY DEF Store, Ids
  <2>2. ASSUME NEW i \in DOMAIN pages  PROVE Stays(pages, pages', i)
    <3>1. IsDocument(pages[i], Ids)  BY DEF Typed, IsCollection, Ids
    <3>2. pages'[i] = pages[i] \/ pages'[i] = [pages[i] EXCEPT !.count = work[r].sum]
      BY DEF Store, Ids
    <3> QED  BY <2>1, <3>1, <3>2 DEF Stays, IsDocument
  <2> QED  BY <2>1, <2>2 DEF SamePlaces
<1>4. Leaves(r)  BY StoreLeaves DEF Typed
<1> QED  BY <1>2, <1>3, <1>4, LateNests

LEMMA AwaitFailsNests ==
    ASSUME Typed, Typed', Ordered, Ordered', NEW fam, NEW left, Nested(fam, left),
           NEW r \in Runs, AwaitFails(r), ~history'.damaged
    PROVE  Nested(fam, left)'
<1>1. IsRun(work[r])
  BY DEF AwaitFails, InFlight, Typed, Held, WorkShape, Idle, Over
<1> QED  BY <1>1, ThrowNests DEF AwaitFails

LEMMA TimePassesNests ==
    ASSUME Typed, Typed', Ordered, NEW fam, NEW left, Nested(fam, left),
           NEW o \in Runs, TimePasses(o)
    PROVE  Nested(fam, left)'
<1>1. work' = work /\ OpsStay /\ pages' = pages
  BY TimeOrders DEF TimePasses
<1>2. SamePlaces(pages, pages')  BY <1>1, KeptPlaces
<1>3. \A q \in Runs : Still(q)
  <2> SUFFICES ASSUME NEW q \in Runs  PROVE Still(q)
    OBVIOUS
  <2>1. \A s \in Runs : (Holds(s, q)' <=> Holds(s, q)) /\ (Holds(s, q) => work'[s] = work[s])
    BY <1>1 DEF Holds
  <2> QED  BY <1>1, <2>1, StillOnes DEF OpsStay
<1>4. Housed(fam)' = Housed(fam)
  <2>1. Broad(o)' => House(o, fam[o])' = House(o, fam[o])
    BY <1>3, StillSame DEF Still, Broad
  <2>2. Broad(o)' <=> Broad(o)  BY <1>3 DEF Still
  <2> QED  BY <1>3, <2>1, <2>2, QuietHoused
<1>5. Steady(pages, pages', Housed(fam)) /\ Coherent(pages', Housed(fam)')
  BY <1>2, <1>4, SameIsQuiet DEF Nested
<1>6. \A q \in Runs : Broad(q) => Untouched(pages, pages', Claimed(q), fam[q])
  BY <1>2, SameIsQuiet DEF Nested, Housings
<1>7. Recorded' \subseteq Recorded  BY <1>1 DEF OpsStay
<1>8. \A s \in Runs : Open(s) => Spared(s, fam)
  BY <1>1, <1>2, <1>7, SameIsSpared
<1>9. Ids \subseteq Ids'  BY <1>1 DEF Ids
<1> DEFINE N == {}
<1>11. N \in SUBSET Runs /\ \A x : x \notin N  OBVIOUS
<1> HIDE DEF N
<1>10. /\ \A q \in Runs \ N : Still(q) /\ fam[q] = fam[q] /\ left[q] = left[q]
       /\ \A q \in Runs \ N : Broad(q) => Untouched(pages, pages', Claimed(q), fam[q])
       /\ \A s \in Runs \ N : work'[s] = work[s]
       /\ \A s \in Runs \ N : Open(s) => Spared(s, fam)
  BY <1>1, <1>3, <1>6, <1>8
<1> QED  BY <1>5, <1>9, <1>10, <1>11, ActNests

(* An operation is recorded, or its stage set. *)
LEMMA FreshStands ==
    ASSUME NEW fam, NEW left, NEW r \in Runs, ~Open(r)', work'[r].at \in {"takeOff", "stream", "grow"},
           work'[r].at = "grow" => work'[r].kind = "create", work'[r].at \notin AfterBatches \/ work'[r].kind = "create",
           work'[r].kind \in {"delete", "erase"} => work'[r].recursively
    PROVE  Stands(r, fam, left)'
<1>1. (Checking(r, fam) /\ Placing(r, fam) /\ Creating(r, fam) /\ Planting(r) /\ Adopting(r, fam))'
  BY DEF Checking, Placing, Creating, Planting, Adopting, On
<1>2. Treading(r)'  BY DEF Treading, On, Removes, Delete, Erase, Rename
<1>3. \A F, L : (Batching(r, F, L) /\ Batched(r, F, L))'
  BY DEF Batching, Batched, On, AfterBatches, Rename
<1> QED  BY <1>1, <1>2, <1>3 DEF Stands

LEMMA SetStageNests ==
    ASSUME Typed, Typed', Ordered, Ordered', NEW fam, NEW left, Nested(fam, left),
           NEW r \in Runs, SetStage(r), ~history'.damaged
    PROVE  Nested(fam, left)'
<1>1. IsRun(work[r]) /\ work[r].at = "stage"  BY RunsAreRuns DEF Typed, Held, SetStage, On
<1>2. CASE Throw(r)  BY <1>1, <1>2, ThrowNests DEF SetStage, Unchanged
<1>3. CASE ~Throw(r)
  <2>1. /\ Settled /\ Recorded' = Recorded /\ Others(r) /\ NoneOpens
        /\ Holds(r, r) /\ work[r].kind = "rename"
        /\ Unmoved(work[r], work'[r]) /\ work'[r].at = "stream"
        /\ ops'[r].stage = "Sub" /\ \A o \in Runs \ {r} : ops'[o] = ops[o]
        /\ \A s, o \in Runs : Holds(s, o)' <=> Holds(s, o)
    BY <1>3, SetStageOrders
  <2>2. SamePlaces(pages, pages')  BY <1>3, KeptPlaces DEF SetStage
  <2>3. \A q \in Runs \ {r} : Still(q)
    <3> SUFFICES ASSUME NEW q \in Runs, q # r  PROVE Still(q)
      OBVIOUS
    <3>1. \A s \in Runs : Holds(s, q) => s # r  BY <2>1 DEF Holds
    <3>2. \A s \in Runs : (Holds(s, q)' <=> Holds(s, q)) /\ (Holds(s, q) => work'[s] = work[s])
      BY <2>1, <3>1 DEF Others
    <3>3. (q \in Recorded)' <=> q \in Recorded  BY <2>1
    <3>4. q \in Recorded => Alike(ops[q], ops'[q])  BY <2>1 DEF Alike
    <3>5. work'[q] = work[q]  BY <2>1 DEF Others
    <3> QED  BY <3>2, <3>3, <3>4, <3>5, StillOnes
  <2>4. /\ r \in Recorded /\ (r \in Recorded)' /\ Renames(r) /\ Broad(r) /\ Claiming(r)
    BY <2>1, HolderClaims DEF Rename, Create, Broad
  <2>5. Claiming(r)' /\ Broad(r)'
    <3>1. OpTyped(ops[r], Ids) /\ ops[r].kind = "rename"
      BY <2>1, <2>4 DEF Typed, Ordered, Agreed, Agrees
    <3>2. ops' = [ops EXCEPT ![r].stage = "Sub"] /\ ops = [o \in Runs |-> ops[o]]
      BY <1>3 DEF SetStage, Typed, Held
    <3>3. ops'[r] = [ops[r] EXCEPT !.stage = "Sub"]  BY <3>2
    <3>4. ops'[r].kind = "rename"  BY <3>1, <3>3 DEF OpTyped
    <3> QED  BY <2>4, <3>4 DEF Claiming, Broad
  <2>6. SameClaim(Claim(r), Claim(r)')  BY <2>1, <2>5 DEF Settled
  <2>7. Keeps(r)  BY <2>4, <2>5, <2>6 DEF Keeps
  <2>8. /\ \A ats : Is(r, ats) <=> "stage" \in ats
        /\ \A ats : Is(r, ats)' <=> "stream" \in ats
    BY <1>1, <2>1, HolderIsOne DEF Ordered, OneHolds, Is
  <2>9. Guests(r) = {} /\ Guests(r)' = {}
    <3>1. \A s \in Runs : Holds(s, r) => s = r  BY <2>1 DEF Ordered, OneHolds
    <3>2. {s \in Runs : Holds(s, r) /\ On(s, "graft")}' = {}  BY <2>1, <3>1 DEF On
    <3>3. {s \in Runs : Holds(s, r) /\ On(s, "graft")} = {}  BY <1>1, <3>1 DEF On
    <3> QED  BY <3>2, <3>3 DEF Guests
  <2>10. Matches(r)
    <3>1. Renames(r)'  BY <2>4, <2>7, KeptSame
    <3>2. Moving(r) /\ Moving(r)'  BY <2>1, <2>4, <2>8, <3>1 DEF Moving
    <3>3. ~Off(r)  BY <2>8 DEF Off
    <3> QED  BY <2>4, <2>8, <2>9, <3>2, <3>3 DEF Matches
  <2>11. Fits(r, fam, left) /\ House(r, fam[r])' = House(r, fam[r])
    BY <2>2, <2>5, <2>7, <2>10, QuietFits DEF Nested
  <2>12. Housed(fam)' = Housed(fam)  BY <2>3, <2>4, <2>5, <2>11, QuietHoused
  <2>13. House(r, fam[r])' \cap Ids \subseteq Housed(fam)  BY <2>4, <2>11 DEF Housed
  <2>14. Steady(pages, pages', Housed(fam)) /\ Coherent(pages', Housed(fam)')
    BY <2>2, <2>12, SameIsQuiet DEF Nested
  <2>15. \A q \in Runs \ {r} : Broad(q) => Untouched(pages, pages', Claimed(q), fam[q])
    BY <2>2, SameIsQuiet DEF Nested, Housings
  <2>16. \A s \in Runs \ {r} : Open(s) => Spared(s, fam)
    BY <2>1, <2>2, SameIsSpared DEF Others
  <2>17. Ids \subseteq Ids'  BY <2>2 DEF SamePlaces, Ids
  <2>18. ~Open(r)'  BY <2>1, PhasesDiffer DEF Open, Holds
  <2>19. Stands(r, fam, left)'
    <3>1. work'[r].kind = "rename"  BY <2>1 DEF Unmoved
    <3> QED  BY <2>1, <2>18, <3>1, FreshStands DEF AfterBatches
  <2>20. \A s \in Runs \ {r} : work'[s] = work[s] /\ ~Holds(s, r)
    BY <2>1 DEF Others, Ordered, OneHolds
  <2> QED
    BY <2>3, <2>4, <2>5, <2>6, <2>11, <2>13, <2>14, <2>15, <2>16, <2>17, <2>18, <2>19, <2>20, OneActs
<1> QED  BY <1>2, <1>3

LEMMA NotingNests ==
    ASSUME Typed, Typed', Ordered, Ordered', NEW fam, NEW left, Nested(fam, left),
           NEW r \in Runs, Notes(r), pages' = pages,
           work'[r].at = CASE work[r].kind = "rename" -> "takeOff"
                           [] work[r].kind = "create" -> "grow"
                           [] OTHER -> "stream"
    PROVE  Nested(fam, left)'
<1>1. /\ Settled /\ NoneOpens /\ r \notin Recorded /\ work[r].op = r /\ Recorded' = Recorded \cup {r}
      /\ \A s, o \in Runs : Holds(s, o)' <=> Holds(s, o) \/ (s = r /\ o = r)
  BY NotingSettles DEF Typed
<1>2. Open(r) /\ ~Open(r)' /\ work'[r].kind = work[r].kind /\ work'[r].id = work[r].id
      /\ work'[r].copy = work[r].copy
  BY PhasesDiffer DEF Notes, Open
<1>3. \A q \in Runs \ {r} : Still(q)  BY NotingIsStill DEF Typed
<1>4. SamePlaces(pages, pages')  BY KeptPlaces
<1>5. \A s \in Runs : ~Holds(s, r) /\ (Holds(s, r)' => s = r)
  BY <1>1, HolderClaims
<1>6. \A s \in Runs \ {r} : work'[s] = work[s] /\ ~Open(s)
  BY <1>2 DEF Notes, Others, Ordered, OneOpen
<1>7. (Claiming(r)' <=> Claiming(r)) /\ (Broad(r)' <=> Broad(r))
      /\ (Claiming(r) => work[r].kind # "create")
  <2>1. Claiming(r) <=> work[r].kind # "create"
    BY <1>1, <1>2 DEF Claiming, Passed, On, Create, Notes
  <2>2. Claiming(r)' <=> work[r].kind # "create"
    BY <1>1 DEF Claiming, Notes, Agrees
  <2>3. Claiming(r) => work[r].recursively  BY <2>1 DEF Notes
  <2>4. (r \in Recorded)'  BY <1>1
  <2> QED  BY <2>1, <2>2, <2>3, <2>4 DEF Broad
<1>8. Claiming(r) => /\ SameClaim(Claim(r), Claim(r)') /\ (Renames(r)' <=> Renames(r))
                     /\ From(r)' = From(r) /\ (Deeper(r)' <=> Deeper(r))
                     /\ (Renames(r) <=> work[r].kind = "rename")
  <2> SUFFICES ASSUME Claiming(r)
               PROVE  /\ SameClaim(Claim(r), Claim(r)') /\ (Renames(r)' <=> Renames(r))
                      /\ From(r)' = From(r) /\ (Deeper(r)' <=> Deeper(r))
                      /\ (Renames(r) <=> work[r].kind = "rename")
    OBVIOUS
  <2>1. SameClaim(Claim(r), Claim(r)')  BY <1>1, <1>7 DEF Settled
  <2>2. Claim(r) = work[r]  BY <1>1 DEF Claim
  <2> QED  BY <2>1, <2>2 DEF SameClaim, Renames, From, Deeper
<1>9. (\A ats : ~Is(r, ats)) /\ Guests(r) = {} /\ ~Off(r) /\ ~Moving(r)
  BY <1>1, <1>5, NoHolders DEF Moving
<1>10. \A ats : Is(r, ats)' => work'[r].at \in ats  BY <1>5 DEF Is
<1>11. Guests(r)' = {}
  <2>1. {s \in Runs : Holds(s, r) /\ On(s, "graft")}' = {}  BY <1>5 DEF On
  <2> QED  BY <2>1 DEF Guests
<1>12. Broad(r)' => ~Moving(r)'
  <2> SUFFICES ASSUME Broad(r)', Moving(r)'  PROVE FALSE
    OBVIOUS
  <2>1. work[r].kind = "rename" /\ work'[r].at = "takeOff"
    BY <1>7, <1>8 DEF Moving, Broad
  <2>2. ops'[r].stage = "Main"  BY <2>1, <1>2 DEF Notes, Agrees, MainAts, RenameMain
  <2> QED  BY <1>10, <2>1, <2>2 DEF Moving
<1>13. Broad(r)' => Claimed(r)' = Claimed(r)
  <2> SUFFICES ASSUME Broad(r)'  PROVE Claimed(r)' = Claimed(r)
    OBVIOUS
  <2>1. Claiming(r)  BY <1>7 DEF Broad
  <2>2. Claim(r)'.id = Claim(r).id /\ From(r)' = From(r)  BY <1>8, <2>1 DEF SameClaim
  <2> QED  BY <1>9, <1>11, <1>12, <2>2 DEF Claimed
<1>14. Broad(r)' => House(r, fam[r])' = House(r, fam[r])  BY <1>13 DEF House
<1>15. Fits(r, fam, left)
  <2> SUFFICES ASSUME Broad(r)'
               PROVE  Family(pages', Claimed(r)', fam[r], left[r]) /\ Housing(r, fam[r], left[r])'
    BY DEF Fits
  <2>1. Broad(r) /\ Claiming(r)  BY <1>7 DEF Broad
  <2>2. Family(pages, Claimed(r), fam[r], left[r]) /\ Housing(r, fam[r], left[r])
    BY <2>1 DEF Nested, Housings
  <2>3. Family(pages', Claimed(r)', fam[r], left[r])  BY <1>13, <2>2
  <2>4. Claim(r)'.id = Claim(r).id /\ Claim(r)'.to = Claim(r).to /\ LivePages' = LivePages
    BY <1>8, <2>1 DEF SameClaim, LivePages
  <2>5. left[r] = {}  BY <1>9, <2>2 DEF Housing
  <2>6. (Renames(r) =>
          /\ ~IsPrefix(Claim(r).to, From(r))
          /\ fam[r] \cup {Claim(r).id} \subseteq LivePages
          /\ ~Off(r) => Rooted(pages, Claim(r).id))'
    BY <1>8, <1>9, <2>1, <2>2, <2>4 DEF Housing
  <2>7. (Renames(r) /\ Deeper(r) /\ Is(r, {"bump", "redirect", "stage", "stream"})
          => left[r] = fam[r])'
    BY <1>8, <1>10, <2>1
  <2>8. (~Renames(r) /\ (r \notin Recorded \/ Is(r, {"stream"})) => fam[r] \subseteq LivePages)'
    BY <1>1, <1>8, <2>1, <2>2, <2>4 DEF Housing
  <2>9. (r \in Recorded)'  BY <1>1
  <2> QED  BY <2>3, <2>5, <2>6, <2>7, <2>8, <2>9 DEF Housing
<1>16. Housed(fam)' = Housed(fam)  BY <1>3, <1>7, <1>14, QuietHoused
<1>17. Broad(r)' => House(r, fam[r])' \cap Ids \subseteq Housed(fam)
  BY <1>7, <1>14 DEF Housed
<1>18. Steady(pages, pages', Housed(fam)) /\ Coherent(pages', Housed(fam)')
  BY <1>4, <1>16, SameIsQuiet DEF Nested
<1>19. \A q \in Runs \ {r} : Broad(q) => Untouched(pages, pages', Claimed(q), fam[q])
  BY <1>4, SameIsQuiet DEF Nested, Housings
<1>20. Stands(r, fam, left)'
  <2>1. /\ work'[r].at \in {"takeOff", "stream", "grow"}
        /\ work'[r].at = "grow" => work'[r].kind = "create"
    BY <1>2
  <2>2. work'[r].kind \in {"delete", "erase"} => work'[r].recursively
    BY <1>2 DEF Notes, RunFits
  <2> QED  BY <1>2, <2>1, <2>2, FreshStands DEF AfterBatches
<1>21. Claiming(r)' => Claiming(r) /\ SameClaim(Claim(r), Claim(r)')
  BY <1>7, <1>8
<1>22. Ids \subseteq Ids'  BY <1>4 DEF SamePlaces, Ids
<1>23. \A s \in Runs \ {r} : work'[s] = work[s] /\ ~Holds(s, r)  BY <1>5, <1>6
<1>24. \A s \in Runs \ {r} : Open(s) => Spared(s, fam)  BY <1>6
<1>25. ~Open(r)' /\ r \notin Recorded  BY <1>1, <1>2
<1>26. Claiming(r)' => Claiming(r) /\ SameClaim(Claim(r), Claim(r)')  BY <1>21
<1> QED
  BY <1>3, <1>15, <1>17, <1>18, <1>19, <1>20, <1>22, <1>23, <1>24, <1>25, <1>26, OneActs
==============================================================================
