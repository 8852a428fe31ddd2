-------------------------- MODULE VaultRepair_proofs --------------------------
(***************************************************************************)
(* Proofs about the slots and the log of VaultRepair: whatever fails, is   *)
(* refused or crashes, the counters of each process are the runs it has in *)
(* flight; a status goes forward only, and the entry of a request that is  *)
(* through is closed.  Then about the watermark of the drift detector: it  *)
(* passes no update without an instruction.  Then about what a reconcile   *)
(* reads and writes: the types with the caps of a run, and that a          *)
(* completed run has repaired its pages.                                   *)
(***************************************************************************)
EXTENDS VaultRepair, FiniteSetTheorems, SequenceTheorems, TLAPS, WellFoundedInduction

(* A request is new, over, or a record of all the local variables of its run. *)
Stages == {"gate", "limit", "create", "refused", "queued", "stream", "drain",
           "cap", "catch"}

IsRun(w) ==
    /\ w = [at |-> w.at, proc |-> w.proc, user |-> w.user, kind |-> w.kind,
            planned |-> w.planned, seen |-> w.seen, buf |-> w.buf]
    /\ w.at \in Stages
    /\ w.proc \in Processes
    /\ w.user \in Users

WorkShape ==
    /\ work = [r \in Requests |-> work[r]]
    /\ \A r \in Requests : work[r] = Idle \/ work[r] = Over \/ IsRun(work[r])

SlotsShape ==
    /\ systemCount \in [Processes -> Nat]
    /\ userCount \in [Processes -> [Users -> Nat]]

Unbypassed(p) == {r \in Runs(p) : ~Bypasses(work[r].user)}

(* The inductive invariant of the slots. *)
Slotted == WorkShape /\ SlotsShape /\ SlotsMatchRuns

-----------------------------------------------------------------------------
(* Sets of requests. *)

LEMMA FiniteRuns ==
    ASSUME NEW p, NEW u
    PROVE  /\ Runs(p) \subseteq Requests /\ IsFiniteSet(Runs(p))
           /\ RunsOf(p, u) \subseteq Requests /\ IsFiniteSet(RunsOf(p, u))
           /\ Unbypassed(p) \subseteq Requests /\ IsFiniteSet(Unbypassed(p))
           /\ Cardinality(Runs(p)) \in Nat
           /\ Cardinality(RunsOf(p, u)) \in Nat
           /\ Cardinality(Unbypassed(p)) \in Nat
<1>1. Runs(p) \subseteq Requests  BY DEF Runs
<1>2. RunsOf(p, u) \subseteq Requests  BY <1>1 DEF RunsOf
<1>3. Unbypassed(p) \subseteq Requests  BY <1>1 DEF Unbypassed
<1>4. IsFiniteSet(Requests)  BY RepairAssumption DEF RepairAssumption
<1>5. IsFiniteSet(Runs(p)) /\ IsFiniteSet(RunsOf(p, u)) /\ IsFiniteSet(Unbypassed(p))
  BY <1>1, <1>2, <1>3, <1>4, FS_Subset
<1> QED  BY <1>1, <1>2, <1>3, <1>5, FS_CardinalityType

LEMMA OneMore ==
    ASSUME NEW S, NEW T, NEW x, IsFiniteSet(S), x \notin S, T = S \cup {x}
    PROVE  Cardinality(T) = Cardinality(S) + 1
  BY FS_AddElement

LEMMA OneLess ==
    ASSUME NEW S, NEW T, NEW x, IsFiniteSet(S), x \in S, T = S \ {x}
    PROVE  Cardinality(T) = Cardinality(S) - 1 /\ Cardinality(S) > 0
<1>1. Cardinality(S \ {x}) = Cardinality(S) - 1  BY FS_RemoveElement
<1>2. IsFiniteSet(S \ {x})  BY FS_Subset
<1>3. Cardinality(S \ {x}) \in Nat /\ Cardinality(S) \in Nat  BY <1>2, FS_CardinalityType
<1> QED  BY <1>1, <1>3

-----------------------------------------------------------------------------
(* What a step does to the runs in flight. *)

(* No run takes or gives back a slot. *)
Steady ==
    /\ UNCHANGED slots
    /\ \A r \in Requests :
          /\ Holding(r)' <=> Holding(r)
          /\ Holding(r) => /\ work'[r].proc = work[r].proc
                           /\ work'[r].user = work[r].user

LEMMA SteadyKeepsSlots ==
    ASSUME Slotted, Steady
    PROVE  SlotsShape' /\ SlotsMatchRuns'
<1> USE DEF Slotted
<1>1. \A p : Runs(p)' = Runs(p)  BY DEF Steady, Runs
<1>2. \A p, u : RunsOf(p, u)' = RunsOf(p, u)  BY <1>1 DEF Steady, RunsOf, Runs
<1>3. \A p : Unbypassed(p)' = Unbypassed(p)
  BY <1>1 DEF Steady, Unbypassed, Runs, Bypasses
<1>4. systemCount' = systemCount /\ userCount' = userCount  BY DEF Steady, slots
<1> QED  BY <1>1, <1>2, <1>3, <1>4 DEF SlotsMatchRuns, SlotsShape, Unbypassed

(* A run takes a slot. *)
Taken(r, p, u) ==
    /\ work[r].proc = p /\ work[r].user = u
    /\ ~Holding(r) /\ Holding(r)'
    /\ work'[r].proc = p /\ work'[r].user = u
    /\ \A o \in Requests \ {r} : work'[o] = work[o]
    /\ HasSlot(p, u)
    /\ userCount' = [userCount EXCEPT ![p][u] = @ + 1]
    /\ systemCount' = [systemCount EXCEPT ![p] = @ + 1]

LEMMA TakenKeepsSlots ==
    ASSUME Slotted, NEW r \in Requests, NEW p \in Processes, NEW u \in Users,
           Taken(r, p, u)
    PROVE  SlotsShape' /\ SlotsMatchRuns'
<1> USE DEF Slotted
<1>1. work[r].proc = p /\ work[r].user = u  BY DEF Taken
<1>2. /\ Holding(r)' /\ ~Holding(r)
      /\ work'[r].proc = p /\ work'[r].user = u
      /\ \A o \in Requests \ {r} : work'[o] = work[o]
  BY <1>1 DEF Taken
<1>3. \A o \in Requests \ {r} : Holding(o)' <=> Holding(o)  BY <1>2 DEF Holding
<1>4. Runs(p)' = Runs(p) \cup {r} /\ r \notin Runs(p)  BY <1>1, <1>2, <1>3 DEF Runs
<1>5. \A q : q # p => Runs(q)' = Runs(q)  BY <1>1, <1>2, <1>3 DEF Runs
<1>6. RunsOf(p, u)' = RunsOf(p, u) \cup {r} /\ r \notin RunsOf(p, u)
  BY <1>1, <1>2, <1>4 DEF RunsOf, Runs
<1>7. \A q, v : q # p \/ v # u => RunsOf(q, v)' = RunsOf(q, v)
  BY <1>1, <1>2, <1>4, <1>5 DEF RunsOf, Runs
<1>8. Cardinality(Runs(p)') = Cardinality(Runs(p)) + 1  BY <1>4, FiniteRuns, OneMore
<1>9. Cardinality(RunsOf(p, u)') = Cardinality(RunsOf(p, u)) + 1
  BY <1>6, FiniteRuns, OneMore
<1>10. SlotsShape'
  BY <1>1 DEF SlotsShape, Taken
<1>11. /\ systemCount'[p] = systemCount[p] + 1
       /\ userCount'[p][u] = userCount[p][u] + 1
       /\ \A q \in Processes : q # p => systemCount'[q] = systemCount[q]
       /\ \A q \in Processes, v \in Users :
             q # p \/ v # u => userCount'[q][v] = userCount[q][v]
  BY <1>1 DEF SlotsShape, Taken
<1>12. userCount'[p][u] <= MaxPerUser
  <2>1. userCount[p][u] < MaxPerUser  BY DEF Taken, HasSlot
  <2>2. MaxPerUser \in Nat  BY RepairAssumption DEF RepairAssumption
  <2>3. userCount[p][u] \in Nat  BY <1>1 DEF SlotsShape
  <2> QED  BY <1>11, <2>1, <2>2, <2>3
<1>13. Cardinality(Unbypassed(p)') <= MaxSystem
  <2>1. CASE Bypasses(u)
    <3>1. Unbypassed(p)' = Unbypassed(p)
      BY <1>1, <1>2, <1>4, <2>1 DEF Unbypassed, Runs, Bypasses
    <3> QED  BY <1>1, <3>1 DEF SlotsMatchRuns, Unbypassed
  <2>2. CASE ~Bypasses(u)
    <3>1. Unbypassed(p)' \subseteq Runs(p)'  BY DEF Unbypassed
    <3>2. IsFiniteSet(Runs(p)')
      <4>1. IsFiniteSet(Runs(p))  BY FiniteRuns
      <4>2. IsFiniteSet(Runs(p) \cup {r})  BY <4>1, FS_AddElement
      <4> QED  BY <1>4, <4>2
    <3>3. Cardinality(Unbypassed(p)') <= Cardinality(Runs(p)')
      BY <3>1, <3>2, FS_Subset
    <3>4. IsFiniteSet(Unbypassed(p)')  BY <3>1, <3>2, FS_Subset
    <3>5. Cardinality(Unbypassed(p)') \in Nat /\ Cardinality(Runs(p)') \in Nat
      BY <3>2, <3>4, FS_CardinalityType
    <3>6. systemCount[p] < MaxSystem  BY <2>2 DEF Taken, HasSlot, Bypasses
    <3>7. systemCount[p] = Cardinality(Runs(p))  BY <1>1 DEF SlotsMatchRuns
    <3>8. MaxSystem \in Nat /\ Cardinality(Runs(p)) \in Nat
      BY RepairAssumption, FiniteRuns DEF RepairAssumption
    <3> QED  BY <1>8, <3>3, <3>5, <3>6, <3>7, <3>8
  <2> QED  BY <2>1, <2>2
<1>14. \A q : q # p => Unbypassed(q)' = Unbypassed(q)
  BY <1>2, <1>3, <1>5 DEF Unbypassed, Runs, Bypasses
<1> QED
  <2> SUFFICES ASSUME NEW q \in Processes
               PROVE  /\ systemCount'[q] = Cardinality(Runs(q)')
                      /\ \A v \in Users :
                            /\ userCount'[q][v] = Cardinality(RunsOf(q, v)')
                            /\ userCount'[q][v] <= MaxPerUser
                      /\ Cardinality(Unbypassed(q)') <= MaxSystem
    BY <1>10 DEF SlotsMatchRuns, Unbypassed
  <2>1. systemCount'[q] = Cardinality(Runs(q)')
    BY <1>5, <1>8, <1>11 DEF SlotsMatchRuns
  <2>2. ASSUME NEW v \in Users
        PROVE  /\ userCount'[q][v] = Cardinality(RunsOf(q, v)')
               /\ userCount'[q][v] <= MaxPerUser
    <3>1. CASE q = p /\ v = u
      BY <1>9, <1>11, <1>12, <3>1 DEF SlotsMatchRuns
    <3>2. CASE q # p \/ v # u
      <4>1. RunsOf(q, v)' = RunsOf(q, v)  BY <1>7, <3>2
      <4>2. userCount'[q][v] = userCount[q][v]  BY <1>11, <3>2
      <4> QED  BY <4>1, <4>2 DEF SlotsMatchRuns
    <3> QED  BY <3>1, <3>2
  <2>3. Cardinality(Unbypassed(q)') <= MaxSystem
    BY <1>13, <1>14 DEF SlotsMatchRuns, Unbypassed
  <2> QED  BY <2>1, <2>2, <2>3

(* A run gives its slot back. *)
Freed(r, p, u) ==
    /\ work[r].proc = p /\ work[r].user = u
    /\ Holding(r) /\ ~Holding(r)'
    /\ \A o \in Requests \ {r} : work'[o] = work[o]
    /\ Release(r)

LEMMA FreedKeepsSlots ==
    ASSUME Slotted, NEW r \in Requests, NEW p \in Processes, NEW u \in Users,
           Freed(r, p, u)
    PROVE  SlotsShape' /\ SlotsMatchRuns'
<1> USE DEF Slotted
<1>1. /\ work[r].proc = p /\ work[r].user = u
      /\ Holding(r) /\ ~Holding(r)'
      /\ \A o \in Requests \ {r} : work'[o] = work[o]
  BY DEF Freed
<1>2. \A o \in Requests \ {r} : Holding(o)' <=> Holding(o)  BY <1>1 DEF Holding
<1>3. Runs(p)' = Runs(p) \ {r} /\ r \in Runs(p)  BY <1>1, <1>2 DEF Runs
<1>4. \A q : q # p => Runs(q)' = Runs(q)  BY <1>1, <1>2 DEF Runs
<1>5. RunsOf(p, u)' = RunsOf(p, u) \ {r} /\ r \in RunsOf(p, u)
  BY <1>1, <1>3 DEF RunsOf, Runs
<1>6. \A q, v : q # p \/ v # u => RunsOf(q, v)' = RunsOf(q, v)
  BY <1>1, <1>3, <1>4 DEF RunsOf, Runs
<1>7. Cardinality(Runs(p)') = Cardinality(Runs(p)) - 1 /\ Cardinality(Runs(p)) > 0
  BY <1>3, FiniteRuns, OneLess
<1>8. /\ Cardinality(RunsOf(p, u)') = Cardinality(RunsOf(p, u)) - 1
      /\ Cardinality(RunsOf(p, u)) > 0
  BY <1>5, FiniteRuns, OneLess
<1>9. systemCount[p] > 0 /\ userCount[p][u] > 0
  BY <1>7, <1>8 DEF SlotsMatchRuns
<1>10. /\ userCount' = [userCount EXCEPT ![p][u] = @ - 1]
       /\ systemCount' = [systemCount EXCEPT ![p] = @ - 1]
  BY <1>1, <1>9 DEF Freed, Release, SlotsShape
<1>11. SlotsShape'
  BY <1>9, <1>10 DEF SlotsShape
<1>12. /\ systemCount'[p] = systemCount[p] - 1
       /\ userCount'[p][u] = userCount[p][u] - 1
       /\ \A q \in Processes : q # p => systemCount'[q] = systemCount[q]
       /\ \A q \in Processes, v \in Users :
             q # p \/ v # u => userCount'[q][v] = userCount[q][v]
  BY <1>10 DEF SlotsShape
<1>13. userCount'[p][u] <= MaxPerUser
  <2>1. userCount[p][u] <= MaxPerUser  BY DEF SlotsMatchRuns
  <2>2. MaxPerUser \in Nat  BY RepairAssumption DEF RepairAssumption
  <2>3. userCount[p][u] \in Nat  BY DEF SlotsShape
  <2> QED  BY <1>12, <2>1, <2>2, <2>3
<1>14. Cardinality(Unbypassed(p)') <= MaxSystem
  <2>1. Unbypassed(p)' \subseteq Unbypassed(p)
    BY <1>1, <1>3 DEF Unbypassed, Runs, Bypasses
  <2>2. IsFiniteSet(Unbypassed(p)) /\ Cardinality(Unbypassed(p)) \in Nat  BY FiniteRuns
  <2>3. IsFiniteSet(Unbypassed(p)')  BY <2>1, <2>2, FS_Subset
  <2>4. Cardinality(Unbypassed(p)') <= Cardinality(Unbypassed(p))
    BY <2>1, <2>2, FS_Subset
  <2>5. Cardinality(Unbypassed(p)') \in Nat  BY <2>3, FS_CardinalityType
  <2>6. Cardinality(Unbypassed(p)) <= MaxSystem  BY DEF SlotsMatchRuns, Unbypassed
  <2>7. MaxSystem \in Nat  BY RepairAssumption DEF RepairAssumption
  <2> QED  BY <2>2, <2>4, <2>5, <2>6, <2>7
<1>15. \A q : q # p => Unbypassed(q)' = Unbypassed(q)
  BY <1>1, <1>2, <1>4 DEF Unbypassed, Runs, Bypasses
<1> QED
  <2> SUFFICES ASSUME NEW q \in Processes
               PROVE  /\ systemCount'[q] = Cardinality(Runs(q)')
                      /\ \A v \in Users :
                            /\ userCount'[q][v] = Cardinality(RunsOf(q, v)')
                            /\ userCount'[q][v] <= MaxPerUser
                      /\ Cardinality(Unbypassed(q)') <= MaxSystem
    BY <1>11 DEF SlotsMatchRuns, Unbypassed
  <2>1. systemCount'[q] = Cardinality(Runs(q)')
    BY <1>4, <1>7, <1>12 DEF SlotsMatchRuns
  <2>2. ASSUME NEW v \in Users
        PROVE  /\ userCount'[q][v] = Cardinality(RunsOf(q, v)')
               /\ userCount'[q][v] <= MaxPerUser
    <3>1. CASE q = p /\ v = u
      BY <1>8, <1>12, <1>13, <3>1 DEF SlotsMatchRuns
    <3>2. CASE q # p \/ v # u
      <4>1. RunsOf(q, v)' = RunsOf(q, v)  BY <1>6, <3>2
      <4>2. userCount'[q][v] = userCount[q][v]  BY <1>12, <3>2
      <4> QED  BY <4>1, <4>2 DEF SlotsMatchRuns
    <3> QED  BY <3>1, <3>2
  <2>3. Cardinality(Unbypassed(q)') <= MaxSystem
    BY <1>14, <1>15 DEF SlotsMatchRuns, Unbypassed
  <2> QED  BY <2>1, <2>2, <2>3

-----------------------------------------------------------------------------
(* The actions keep the shape of the requests. *)

LEMMA StepShape ==
    ASSUME WorkShape, NEW r \in Requests, IsRun(work[r]), NEW at \in Stages,
           Step(r, at)
    PROVE  /\ WorkShape' /\ IsRun(work[r])'
           /\ work'[r].at = at /\ work'[r].proc = work[r].proc
           /\ work'[r].user = work[r].user
           /\ \A o \in Requests \ {r} : work'[o] = work[o]
<1>1. work' = [o \in Requests |-> IF o = r THEN [work[r] EXCEPT !.at = at] ELSE work[o]]
  BY DEF WorkShape, Step
<1>2. [work[r] EXCEPT !.at = at] =
          [at |-> at, proc |-> work[r].proc, user |-> work[r].user, kind |-> work[r].kind,
           planned |-> work[r].planned, seen |-> work[r].seen, buf |-> work[r].buf]
  BY DEF IsRun
<1>3. IsRun(work'[r])  BY <1>1, <1>2 DEF IsRun
<1> QED  BY <1>1, <1>2, <1>3 DEF WorkShape, IsRun

LEMMA EndShape ==
    ASSUME WorkShape, NEW r \in Requests, End(r)
    PROVE  /\ WorkShape' /\ work'[r] = Over
           /\ \A o \in Requests \ {r} : work'[o] = work[o]
  BY DEF WorkShape, End

LEMMA RunAt ==
    ASSUME WorkShape, NEW r \in Requests, work[r].at \in Stages
    PROVE  IsRun(work[r])
  BY DEF WorkShape, Stages, Idle, Over

(* A run replaces its local variables. *)
LEMMA ReplacedShape ==
    ASSUME WorkShape, NEW r \in Requests, NEW w, IsRun(w),
           work' = [o \in Requests |-> IF o = r THEN w ELSE work[o]]
    PROVE  /\ WorkShape' /\ work'[r] = w
           /\ \A o \in Requests \ {r} : work'[o] = work[o]
<1>1. \A o \in Requests : work'[o] = IF o = r THEN w ELSE work[o]  OBVIOUS
<1>2. \A o \in Requests : IsRun(work'[o]) <=> IsRun(work[o])'  BY DEF IsRun
<1>3. \A o \in Requests : work'[o] = Idle \/ work'[o] = Over \/ IsRun(work'[o])
  BY <1>1 DEF WorkShape
<1>4. work' = [o \in Requests |-> work'[o]]  BY <1>1
<1> QED  BY <1>1, <1>2, <1>3, <1>4 DEF WorkShape

(* What is neither taken nor given back leaves the counters alone. *)
LEMMA SteadyStep ==
    ASSUME NEW r \in Requests, UNCHANGED slots,
           \A o \in Requests \ {r} : work'[o] = work[o],
           Holding(r)' <=> Holding(r),
           Holding(r) => work'[r].proc = work[r].proc /\ work'[r].user = work[r].user
    PROVE  Steady
  BY DEF Steady, Holding

LEMMA UnchangedWork ==
    ASSUME Slotted, work' = work, UNCHANGED slots
    PROVE  Slotted'
<1>1. WorkShape'  BY DEF Slotted, WorkShape, IsRun
<1>2. Steady  BY DEF Steady, Holding
<1> QED  BY <1>1, <1>2, SteadyKeepsSlots DEF Slotted

-----------------------------------------------------------------------------
(* The actions of a run. *)

LEMMA GateKeeps ==
    ASSUME Slotted, NEW r \in Requests, Gate(r)
    PROVE  Slotted'
<1>1. work[r].at = "gate" /\ IsRun(work[r])  BY RunAt DEF Gate, Slotted, Stages
<1>. PICK at \in {"limit", "create"} :
        \E planned : work' = [work EXCEPT ![r].at = at, ![r].planned = planned]
  BY DEF Gate
<1>2. PICK planned : work' = [work EXCEPT ![r].at = at, ![r].planned = planned]
  OBVIOUS
<1> DEFINE w == [at |-> at, proc |-> work[r].proc, user |-> work[r].user,
                 kind |-> work[r].kind, planned |-> planned, seen |-> work[r].seen,
                 buf |-> work[r].buf]
<1>3. work' = [o \in Requests |-> IF o = r THEN w ELSE work[o]]
  <2>1. work' = [o \in Requests |->
                  IF o = r THEN [work[r] EXCEPT !.at = at, !.planned = planned] ELSE work[o]]
    BY <1>2 DEF Slotted, WorkShape
  <2> DEFINE v == [at |-> at, proc |-> work[r].proc, user |-> work[r].user,
           kind |-> work[r].kind, planned |-> work[r].planned, seen |-> work[r].seen,
           buf |-> work[r].buf]
  <2>2. [work[r] EXCEPT !.at = at] = v  BY <1>1 DEF IsRun
  <2>3. [v EXCEPT !.planned = planned] = w  BY <1>1
  <2>4. [work[r] EXCEPT !.at = at, !.planned = planned]
            = [[work[r] EXCEPT !.at = at] EXCEPT !.planned = planned]
    OBVIOUS
  <2> QED  BY <2>1, <2>2, <2>3, <2>4
<1>4. IsRun(w)  BY <1>1 DEF IsRun, Stages
<1>5. /\ WorkShape' /\ work'[r] = w
      /\ \A o \in Requests \ {r} : work'[o] = work[o]
  BY <1>3, <1>4, ReplacedShape DEF Slotted
<1>6. ~Holding(r) /\ ~Holding(r)'  BY <1>1, <1>5 DEF Holding
<1>7. UNCHANGED slots  BY DEF Gate
<1>8. Steady  BY <1>5, <1>6, <1>7, SteadyStep
<1> QED  BY <1>5, <1>8, SteadyKeepsSlots DEF Slotted

LEMMA StreamPageKeeps ==
    ASSUME Slotted, NEW r \in Requests, NEW q \in Pages, StreamPage(r, q)
    PROVE  Slotted'
<1>1. work[r].at = "stream" /\ IsRun(work[r])  BY RunAt DEF StreamPage, Slotted, Stages
<1>2. PICK seen, buf : work' = [work EXCEPT ![r].seen = seen, ![r].buf = buf]
  BY DEF StreamPage
<1> DEFINE w == [at |-> "stream", proc |-> work[r].proc, user |-> work[r].user,
                 kind |-> work[r].kind, planned |-> work[r].planned, seen |-> seen,
                 buf |-> buf]
<1>3. work' = [o \in Requests |-> IF o = r THEN w ELSE work[o]]
  <2>1. work' = [o \in Requests |->
                  IF o = r THEN [work[r] EXCEPT !.seen = seen, !.buf = buf] ELSE work[o]]
    BY <1>2 DEF Slotted, WorkShape
  <2> DEFINE v == [at |-> work[r].at, proc |-> work[r].proc, user |-> work[r].user,
           kind |-> work[r].kind, planned |-> work[r].planned, seen |-> seen,
           buf |-> work[r].buf]
  <2>2. [work[r] EXCEPT !.seen = seen] = v  BY <1>1 DEF IsRun
  <2>3. [v EXCEPT !.buf = buf] = w  BY <1>1
  <2>4. [work[r] EXCEPT !.seen = seen, !.buf = buf]
            = [[work[r] EXCEPT !.seen = seen] EXCEPT !.buf = buf]
    OBVIOUS
  <2> QED  BY <2>1, <2>2, <2>3, <2>4
<1>4. IsRun(w)  BY <1>1 DEF IsRun, Stages
<1>5. /\ WorkShape' /\ work'[r] = w
      /\ \A o \in Requests \ {r} : work'[o] = work[o]
  BY <1>3, <1>4, ReplacedShape DEF Slotted
<1>6. Holding(r) /\ Holding(r)'  BY <1>1, <1>5 DEF Holding
<1>7. UNCHANGED slots  BY DEF StreamPage
<1>8. Steady  BY <1>5, <1>6, <1>7, SteadyStep
<1> QED  BY <1>5, <1>8, SteadyKeepsSlots DEF Slotted

LEMMA FlushKeeps ==
    ASSUME Slotted, NEW r \in Requests, NEW ns \in Namespaces, Flush(r, ns)
    PROVE  Slotted'
<1>1. work[r].at \in {"stream", "drain"} /\ IsRun(work[r])
  BY RunAt DEF Flush, Slotted, Stages
<1> DEFINE w == [at |-> work[r].at, proc |-> work[r].proc, user |-> work[r].user,
                 kind |-> work[r].kind, planned |-> work[r].planned,
                 seen |-> work[r].seen, buf |-> [work[r].buf EXCEPT ![ns] = <<>>]]
<1>2. work' = [o \in Requests |-> IF o = r THEN w ELSE work[o]]
  BY <1>1 DEF Flush, Slotted, WorkShape, IsRun
<1>3. IsRun(w)  BY <1>1 DEF IsRun, Stages
<1>4. /\ WorkShape' /\ work'[r] = w
      /\ \A o \in Requests \ {r} : work'[o] = work[o]
  BY <1>2, <1>3, ReplacedShape DEF Slotted
<1>5. Holding(r) /\ Holding(r)'  BY <1>1, <1>4 DEF Holding
<1>6. UNCHANGED slots  BY DEF Flush
<1>7. Steady  BY <1>4, <1>5, <1>6, SteadyStep
<1> QED  BY <1>4, <1>7, SteadyKeepsSlots DEF Slotted

LEMMA SubmitKeeps ==
    ASSUME Slotted, NEW r \in Requests, NEW p \in Processes, NEW u \in Users,
           NEW kind, Submit(r, p, u, kind)
    PROVE  Slotted'
<1>1. work[r] = Idle  BY DEF Submit
<1>2. ~Holding(r)  BY <1>1 DEF Holding, Idle
<1> DEFINE w == [at |-> "gate", proc |-> p, user |-> u, kind |-> kind, planned |-> 0,
                 seen |-> {}, buf |-> [ns \in Namespaces |-> <<>>]]
<1>3. work' = [work EXCEPT ![r] = w] \/ End(r)  BY DEF Submit, End
<1>4. UNCHANGED slots  BY DEF Submit
<1>5. CASE work' = [work EXCEPT ![r] = w]
  <2>1. IsRun(w)  BY DEF IsRun, Stages
  <2>2. work' = [o \in Requests |-> IF o = r THEN w ELSE work[o]]
    BY <1>5 DEF Slotted, WorkShape
  <2>3. /\ WorkShape' /\ work'[r] = w
        /\ \A o \in Requests \ {r} : work'[o] = work[o]
    BY <2>1, <2>2, ReplacedShape DEF Slotted
  <2>4. ~Holding(r)'  BY <2>3 DEF Holding
  <2>5. Steady  BY <1>2, <1>4, <2>3, <2>4, SteadyStep
  <2> QED  BY <2>3, <2>5, SteadyKeepsSlots DEF Slotted
<1>6. CASE End(r)
  <2>1. /\ WorkShape' /\ work'[r] = Over
        /\ \A o \in Requests \ {r} : work'[o] = work[o]
    BY <1>6, EndShape DEF Slotted
  <2>2. ~Holding(r)'  BY <2>1 DEF Holding, Over
  <2>3. Steady  BY <1>2, <1>4, <2>1, <2>2, SteadyStep
  <2> QED  BY <2>1, <2>3, SteadyKeepsSlots DEF Slotted
<1> QED  BY <1>3, <1>5, <1>6

(* A run goes on: with a slot it keeps, or without one. *)
LEMMA MovesOn ==
    ASSUME Slotted, NEW r \in Requests, work[r].at \in Stages, NEW at \in Stages,
           Step(r, at), UNCHANGED slots,
           (at \in {"queued", "stream", "drain", "cap", "catch"}) <=> Holding(r)
    PROVE  Slotted'
<1>1. IsRun(work[r])  BY RunAt DEF Slotted
<1>2. /\ WorkShape' /\ work'[r].at = at /\ work'[r].proc = work[r].proc
      /\ work'[r].user = work[r].user
      /\ \A o \in Requests \ {r} : work'[o] = work[o]
  BY <1>1, StepShape DEF Slotted
<1>3. Holding(r)' <=> Holding(r)  BY <1>2 DEF Holding
<1>4. Steady  BY <1>2, <1>3, SteadyStep
<1> QED  BY <1>2, <1>4, SteadyKeepsSlots DEF Slotted

(* A run without a slot ends. *)
LEMMA EndsWithout ==
    ASSUME Slotted, NEW r \in Requests, ~Holding(r), End(r), UNCHANGED slots
    PROVE  Slotted'
<1>1. /\ WorkShape' /\ work'[r] = Over
      /\ \A o \in Requests \ {r} : work'[o] = work[o]
  BY EndShape DEF Slotted
<1>2. ~Holding(r)'  BY <1>1 DEF Holding, Over
<1>3. Steady  BY <1>1, <1>2, SteadyStep
<1> QED  BY <1>1, <1>3, SteadyKeepsSlots DEF Slotted

(* A run with a slot ends. *)
LEMMA EndsWith ==
    ASSUME Slotted, NEW r \in Requests, Holding(r), End(r), Release(r)
    PROVE  Slotted'
<1>1. work[r].at \in Stages  BY DEF Holding, Stages
<1>2. IsRun(work[r])  BY <1>1, RunAt DEF Slotted
<1>3. work[r].proc \in Processes /\ work[r].user \in Users  BY <1>2 DEF IsRun
<1>4. /\ WorkShape' /\ work'[r] = Over
      /\ \A o \in Requests \ {r} : work'[o] = work[o]
  BY EndShape DEF Slotted
<1>5. ~Holding(r)'  BY <1>4 DEF Holding, Over
<1>6. Freed(r, work[r].proc, work[r].user)  BY <1>4, <1>5 DEF Freed
<1> QED  BY <1>3, <1>4, <1>6, FreedKeepsSlots DEF Slotted

LEMMA LogPendingKeeps ==
    ASSUME Slotted, NEW r \in Requests, LogPending(r)
    PROVE  Slotted'
<1> DEFINE p == work[r].proc
           u == work[r].user
<1>1. work[r].at = "create" /\ IsRun(work[r])  BY RunAt DEF LogPending, Slotted, Stages
<1>2. p \in Processes /\ u \in Users /\ ~Holding(r)  BY <1>1 DEF IsRun, Holding
<1>3. CASE HasSlot(p, u)
  <2>1. /\ userCount' = [userCount EXCEPT ![p][u] = @ + 1]
        /\ systemCount' = [systemCount EXCEPT ![p] = @ + 1]
        /\ Step(r, "queued")
    BY <1>3 DEF LogPending
  <2>2. /\ WorkShape' /\ work'[r].at = "queued" /\ work'[r].proc = p
        /\ work'[r].user = u
        /\ \A o \in Requests \ {r} : work'[o] = work[o]
    BY <1>1, <2>1, StepShape DEF Slotted, Stages
  <2>3. Holding(r)'  BY <2>2 DEF Holding
  <2>4. Taken(r, p, u)  BY <1>2, <1>3, <2>1, <2>2, <2>3 DEF Taken
  <2> QED  BY <1>2, <2>2, <2>4, TakenKeepsSlots DEF Slotted
<1>4. CASE ~HasSlot(p, u)
  <2>1. UNCHANGED slots /\ Step(r, "refused")  BY <1>4 DEF LogPending
  <2> QED  BY <1>1, <1>2, <2>1, MovesOn DEF Stages
<1> QED  BY <1>3, <1>4

LEMMA AwaitFailsKeeps ==
    ASSUME Slotted, NEW r \in Requests, AwaitFails(r)
    PROVE  Slotted'
<1>1. CASE work[r].at \in {"stream", "drain", "cap"} /\ Step(r, "catch") /\ UNCHANGED slots
  <2>1. Holding(r)  BY <1>1 DEF Holding
  <2> QED  BY <1>1, <2>1, MovesOn DEF Stages
<1>2. CASE End(r) /\ IF Holding(r) THEN Release(r) ELSE UNCHANGED slots
  BY <1>2, EndsWith, EndsWithout
<1> QED  BY <1>1, <1>2 DEF AwaitFails

LEMMA RunKeeps ==
    ASSUME Slotted, NEW r \in Requests, Run(r)
    PROVE  Slotted'
<1>1. CASE Gate(r)  BY <1>1, GateKeeps
<1>2. CASE LogOverLimit(r)
  BY <1>2, EndsWithout DEF LogOverLimit, Holding
<1>3. CASE LogPending(r)  BY <1>3, LogPendingKeeps
<1>4. CASE LogRefused(r)
  BY <1>4, EndsWithout DEF LogRefused, Holding
<1>5. CASE LogRunning(r)
  BY <1>5, MovesOn DEF LogRunning, Holding, Stages
<1>6. CASE StreamOverCap(r)
  BY <1>6, MovesOn DEF StreamOverCap, Holding, Stages
<1>7. CASE StreamEnds(r)
  BY <1>7, MovesOn DEF StreamEnds, Holding, Stages
<1>8. ASSUME NEW q \in Pages, StreamPage(r, q) PROVE Slotted'  BY <1>8, StreamPageKeeps
<1>9. ASSUME NEW ns \in Namespaces, Flush(r, ns) PROVE Slotted'  BY <1>9, FlushKeeps
<1>10. CASE LogCompleted(r)
  BY <1>10, EndsWith DEF LogCompleted, Holding
<1>11. CASE LogFailed(r)
  BY <1>11, EndsWith DEF LogFailed, Holding
<1>12. CASE AwaitFails(r)  BY <1>12, AwaitFailsKeeps
<1> QED
  BY <1>1, <1>2, <1>3, <1>4, <1>5, <1>6, <1>7, <1>8, <1>9, <1>10, <1>11, <1>12 DEF Run

-----------------------------------------------------------------------------
(* A process dies with its runs and its counters. *)

LEMMA CrashKeeps ==
    ASSUME Slotted, NEW p \in Processes, Crash(p)
    PROVE  Slotted'
<1> DEFINE lost == {r \in Requests :
                       work[r].at \notin {"idle", "over"} /\ work[r].proc = p}
<1>1. work' = [r \in Requests |-> IF r \in lost THEN Over ELSE work[r]]  BY DEF Crash
<1>2. \A r \in Requests : work'[r] = IF r \in lost THEN Over ELSE work[r]  BY <1>1
<1>3. WorkShape'
  <2>1. \A r \in Requests : IsRun(work'[r]) <=> IsRun(work[r])'  BY DEF IsRun
  <2>2. \A r \in Requests : work'[r] = Idle \/ work'[r] = Over \/ IsRun(work'[r])
    BY <1>2 DEF Slotted, WorkShape
  <2>3. work' = [r \in Requests |-> work'[r]]  BY <1>1
  <2> QED  BY <2>1, <2>2, <2>3 DEF WorkShape
<1>4. /\ userCount' = [userCount EXCEPT ![p] = [u \in Users |-> 0]]
      /\ systemCount' = [systemCount EXCEPT ![p] = 0]
  BY DEF Crash
<1>5. SlotsShape'  BY <1>4 DEF Slotted, SlotsShape
<1>6. \A r \in Requests : work[r].proc = p => ~Holding(r)'
  <2> SUFFICES ASSUME NEW r \in Requests, work[r].proc = p  PROVE ~Holding(r)'
    OBVIOUS
  <2>1. CASE r \in lost  BY <1>2, <2>1 DEF Holding, Over
  <2>2. CASE r \notin lost
    <3>1. work[r].at \in {"idle", "over"}  BY <2>2
    <3>2. work'[r] = work[r]  BY <1>2, <2>2
    <3> QED  BY <3>1, <3>2 DEF Holding
  <2> QED  BY <2>1, <2>2
<1>7. \A r \in Requests : work[r].proc # p => work'[r] = work[r]  BY <1>2
<1>8. \A r \in Requests : Holding(r)' => work'[r] = work[r] /\ Holding(r)
  <2> SUFFICES ASSUME NEW r \in Requests, Holding(r)'
               PROVE  work'[r] = work[r] /\ Holding(r)
    OBVIOUS
  <2>1. r \notin lost  BY <1>2 DEF Holding, Over
  <2>2. work'[r] = work[r]  BY <1>2, <2>1
  <2> QED  BY <2>2 DEF Holding
<1>9. Runs(p)' = {}  BY <1>6, <1>8 DEF Runs
<1>10. \A q : q # p => Runs(q)' = Runs(q)
  <2> SUFFICES ASSUME NEW q, q # p PROVE Runs(q)' = Runs(q)  OBVIOUS
  <2>1. Runs(q)' \subseteq Runs(q)  BY <1>8 DEF Runs
  <2>2. Runs(q) \subseteq Runs(q)'
    <3> SUFFICES ASSUME NEW r \in Requests, Holding(r), work[r].proc = q
                 PROVE  Holding(r)' /\ work'[r].proc = q
      BY DEF Runs
    <3>1. work'[r] = work[r]  BY <1>7
    <3> QED  BY <3>1 DEF Holding
  <2> QED  BY <2>1, <2>2
<1> QED
  <2>1. ASSUME NEW q \in Processes
        PROVE  /\ systemCount'[q] = Cardinality(Runs(q)')
               /\ \A u \in Users :
                     /\ userCount'[q][u] = Cardinality(RunsOf(q, u)')
                     /\ userCount'[q][u] <= MaxPerUser
               /\ Cardinality(Unbypassed(q)') <= MaxSystem
    <3>1. CASE q = p
      <4>1. Unbypassed(q)' = {} /\ \A u : RunsOf(q, u)' = {}
        BY <1>9, <3>1 DEF Unbypassed, RunsOf
      <4>2. Cardinality({}) = 0  BY FS_EmptySet
      <4>3. systemCount'[q] = 0 /\ \A u \in Users : userCount'[q][u] = 0
        BY <1>4, <3>1 DEF Slotted, SlotsShape
      <4>4. 0 <= MaxPerUser /\ 0 <= MaxSystem
        BY RepairAssumption DEF RepairAssumption
      <4> QED  BY <1>9, <3>1, <4>1, <4>2, <4>3, <4>4
    <3>2. CASE q # p
      <4>1. Runs(q)' = Runs(q)  BY <1>10, <3>2
      <4>2. \A r \in Runs(q) : work'[r] = work[r]  BY <1>7, <3>2 DEF Runs
      <4>3. \A u : RunsOf(q, u)' = RunsOf(q, u)  BY <4>1, <4>2 DEF RunsOf
      <4>4. Unbypassed(q)' = Unbypassed(q)  BY <4>1, <4>2 DEF Unbypassed, Bypasses
      <4>5. systemCount'[q] = systemCount[q] /\ userCount'[q] = userCount[q]
        BY <1>4, <3>2 DEF Slotted, SlotsShape
      <4> QED  BY <4>1, <4>3, <4>4, <4>5 DEF Slotted, SlotsMatchRuns, Unbypassed
    <3> QED  BY <3>1, <3>2
  <2>2. SlotsMatchRuns'  BY <2>1 DEF SlotsMatchRuns, Unbypassed
  <2> QED  BY <1>3, <1>5, <2>2 DEF Slotted

-----------------------------------------------------------------------------
LEMMA InitSlotted ==
    ASSUME Init
    PROVE  Slotted
<1>1. work = [r \in Requests |-> Idle]  BY DEF Init
<1>2. WorkShape  BY <1>1 DEF WorkShape
<1>3. SlotsShape  BY DEF Init, SlotsShape
<1>4. \A p : Runs(p) = {}  BY <1>1 DEF Runs, Holding, Idle
<1>5. \A p, u : RunsOf(p, u) = {}  BY <1>4 DEF RunsOf
<1>6. \A p : Unbypassed(p) = {}  BY <1>4 DEF Unbypassed
<1>7. Cardinality({}) = 0  BY FS_EmptySet
<1>8. 0 <= MaxPerUser /\ 0 <= MaxSystem  BY RepairAssumption DEF RepairAssumption
<1>9. \A p \in Processes :
          systemCount[p] = 0 /\ \A u \in Users : userCount[p][u] = 0
  BY DEF Init
<1> QED  BY <1>2, <1>3, <1>4, <1>5, <1>6, <1>7, <1>8, <1>9
         DEF Slotted, SlotsMatchRuns, Unbypassed

LEMMA NextSlotted ==
    ASSUME Slotted, [Next]_vars
    PROVE  Slotted'
<1>1. CASE Environment
  <2>1. work' = work /\ UNCHANGED slots
    BY <1>1 DEF Environment, Save, Land, CountDescendants, BootstrapChanges
  <2> QED  BY <2>1, UnchangedWork
<1>2. ASSUME NEW r \in Requests, NEW p \in Processes, NEW u \in Users, NEW kind,
             Submit(r, p, u, kind)
      PROVE  Slotted'
  BY <1>2, SubmitKeeps
<1>3. CASE Reconcile  BY <1>3, RunKeeps DEF Reconcile
<1>4. ASSUME NEW s \in Sweeps, NEW p \in Processes, Tick(s, p)
      PROVE  Slotted'
  BY <1>4, UnchangedWork DEF Tick, SweepElsewhere, slots
<1>5. CASE Drift
  <2>1. work' = work /\ UNCHANGED slots
    BY <1>5 DEF Drift, Query, WriteSwept, SaveWatermark, SweepFails, SweepElsewhere
  <2> QED  BY <2>1, UnchangedWork
<1>6. ASSUME NEW p \in Processes, Crash(p)  PROVE Slotted'  BY <1>6, CrashKeeps
<1>7. ASSUME NEW p \in Processes, Boot(p)  PROVE Slotted'
  BY <1>7, UnchangedWork DEF Boot
<1>8. CASE UNCHANGED vars  BY <1>8, UnchangedWork DEF vars
<1> QED  BY <1>1, <1>2, <1>3, <1>4, <1>5, <1>6, <1>7, <1>8 DEF Next

(* The slots of the ReconcileConcurrencyController are not leaked and not    *)
(* given out twice: whatever is refused, fails or crashes, the counters of a *)
(* process are the runs it has in flight, and the limits hold.               *)
THEOREM SlotsHold == Spec => []SlotsMatchRuns
<1>1. Init => Slotted  BY InitSlotted
<1>2. Slotted /\ [Next]_vars => Slotted'  BY NextSlotted
<1>3. Slotted => SlotsMatchRuns  BY DEF Slotted
<1> QED  BY <1>1, <1>2, <1>3, PTL DEF Spec

-----------------------------------------------------------------------------
(* The log: a status goes forward only, and the entry of a request that is  *)
(* through is closed.                                                       *)

HistoryShape ==
    history = [steady |-> history.steady, repaired |-> history.repaired,
               unrecorded |-> history.unrecorded, normalized |-> history.normalized,
               swept |-> history.swept, queried |-> history.queried,
               late |-> history.late]

Unwritten == {"idle", "gate", "limit", "create"}
Waiting == {"refused", "queued"}
Working == {"stream", "drain", "cap", "catch"}

(* The status of an entry that no start has normalized is where its request  *)
(* stands; and unless that went unrecorded it is closed when the request is  *)
(* over.                                                                     *)
Fits(at, status, normalized, unrecorded) ==
    /\ at \in Unwritten => status = "none"
    /\ (at \in Waiting /\ ~normalized) => status = "pending"
    /\ (at \in Working /\ ~normalized) => status = "running"
    /\ (at = "over" /\ ~unrecorded) => status \notin Open

EntryFits(r) ==
    Fits(work[r].at, log[r], r \in history.normalized, r \in history.unrecorded)

(* The inductive invariant of the log. *)
Booked ==
    /\ Slotted
    /\ HistoryShape
    /\ log = [r \in Requests |-> log[r]]
    /\ \A r \in Requests : EntryFits(r)

-----------------------------------------------------------------------------
(* What a step does to history. *)

SameMarks ==
    /\ HistoryShape'
    /\ history'.normalized = history.normalized
    /\ history'.unrecorded = history.unrecorded

SameSweeps ==
    /\ HistoryShape'
    /\ history'.swept = history.swept
    /\ history'.queried = history.queried
    /\ history'.late = history.late

LEMMA SteadyChanges ==
    ASSUME HistoryShape, NEW s, history' = [history EXCEPT !.steady = s]
    PROVE  /\ SameMarks /\ SameSweeps
           /\ history'.steady = s /\ history'.repaired = history.repaired
  BY DEF HistoryShape, SameMarks, SameSweeps

LEMMA RepairedChanges ==
    ASSUME HistoryShape, NEW s, NEW t,
           history' = [history EXCEPT !.repaired = t, !.steady = s]
    PROVE  /\ SameMarks /\ SameSweeps
           /\ history'.steady = s /\ history'.repaired = t
<1> DEFINE h == [steady |-> history.steady, repaired |-> t,
                 unrecorded |-> history.unrecorded, normalized |-> history.normalized,
                 swept |-> history.swept, queried |-> history.queried,
                 late |-> history.late]
<1>1. [history EXCEPT !.repaired = t] = h  BY DEF HistoryShape
<1>2. history' = [h EXCEPT !.steady = s]  BY <1>1
<1> QED  BY <1>2 DEF HistoryShape, SameMarks, SameSweeps

LEMMA UnrecordedGrows ==
    ASSUME HistoryShape, NEW s, NEW u,
           history' = [history EXCEPT !.steady = s, !.unrecorded = u]
    PROVE  /\ HistoryShape' /\ history'.normalized = history.normalized
           /\ history'.unrecorded = u
           /\ SameSweeps
           /\ history'.steady = s /\ history'.repaired = history.repaired
<1> DEFINE h == [steady |-> s, repaired |-> history.repaired,
                 unrecorded |-> history.unrecorded, normalized |-> history.normalized,
                 swept |-> history.swept, queried |-> history.queried,
                 late |-> history.late]
<1>1. [history EXCEPT !.steady = s] = h  BY DEF HistoryShape
<1>2. history' = [h EXCEPT !.unrecorded = u]  BY <1>1
<1> QED  BY <1>2 DEF HistoryShape, SameSweeps
LEMMA NormalizedGrows ==
    ASSUME HistoryShape, NEW s,
           history' = [history EXCEPT !.unrecorded = {}, !.normalized = s]
    PROVE  /\ HistoryShape' /\ history'.normalized = s /\ history'.unrecorded = {}
           /\ SameSweeps
           /\ history'.steady = history.steady /\ history'.repaired = history.repaired
<1> DEFINE h == [steady |-> history.steady, repaired |-> history.repaired,
                 unrecorded |-> {}, normalized |-> history.normalized,
                 swept |-> history.swept, queried |-> history.queried,
                 late |-> history.late]
<1>1. [history EXCEPT !.unrecorded = {}] = h  BY DEF HistoryShape
<1>2. history' = [h EXCEPT !.normalized = s]  BY <1>1
<1> QED  BY <1>2 DEF HistoryShape, SameSweeps

-----------------------------------------------------------------------------
(* What a step does to one request and its entry. *)

Forward ==
    \A r \in Requests :
        (log'[r] # log[r] /\ r \notin history.normalized) => Rank(log[r]) < Rank(log'[r])

LEMMA Ranks ==
    /\ Rank("none") = 0 /\ Rank("pending") = 1 /\ Rank("running") = 2
    /\ \A status \in Terminal : Rank(status) = 3
  BY DEF Rank, Terminal

LEMMA RecordShape ==
    ASSUME Booked, NEW r \in Requests, NEW status, Record(r, status)
    PROVE  /\ log' = [o \in Requests |-> log'[o]]
           /\ log'[r] = status
           /\ \A o \in Requests \ {r} : log'[o] = log[o]
  BY DEF Booked, Record

(* The other requests stay as they are. *)
OnlyOne(r) ==
    /\ \A o \in Requests \ {r} : work'[o] = work[o] /\ log'[o] = log[o]
    /\ log' = [o \in Requests |-> log'[o]]
    /\ HistoryShape'
    /\ history'.normalized = history.normalized
    /\ history.unrecorded \subseteq history'.unrecorded

LEMMA OneEntry ==
    ASSUME Booked, NEW r \in Requests, Slotted', OnlyOne(r),
           Fits(work'[r].at, log'[r], r \in history.normalized, r \in history'.unrecorded)
    PROVE  Booked'
<1>1. ASSUME NEW o \in Requests
      PROVE  Fits(work'[o].at, log'[o], o \in history'.normalized, o \in history'.unrecorded)
  <2>1. CASE o = r  BY <2>1 DEF OnlyOne
  <2>2. CASE o # r
    <3>1. Fits(work[o].at, log[o], o \in history.normalized, o \in history.unrecorded)
      BY DEF Booked, EntryFits
    <3>2. /\ work'[o] = work[o] /\ log'[o] = log[o]
          /\ history'.normalized = history.normalized
          /\ o \in history.unrecorded => o \in history'.unrecorded
      BY <2>2 DEF OnlyOne
    <3> QED  BY <3>1, <3>2 DEF Fits
  <2> QED  BY <2>1, <2>2
<1> QED  BY <1>1 DEF Booked, OnlyOne, EntryFits

LEMMA OneForward ==
    ASSUME NEW r \in Requests, OnlyOne(r),
           (log'[r] # log[r] /\ r \notin history.normalized)
               => Rank(log[r]) < Rank(log'[r])
    PROVE  Forward
  BY DEF OnlyOne, Forward

(* A step that leaves the log and the marks alone. *)
LEMMA LogStays ==
    ASSUME Booked, NEW r \in Requests, Slotted', log' = log, SameMarks,
           \A o \in Requests \ {r} : work'[o] = work[o],
           Fits(work'[r].at, log[r], r \in history.normalized, r \in history.unrecorded)
    PROVE  Booked' /\ Forward
<1>1. OnlyOne(r)  BY DEF Booked, OnlyOne, SameMarks
<1>2. Booked'  BY <1>1, OneEntry DEF SameMarks
<1>3. Forward  BY DEF Forward
<1> QED  BY <1>2, <1>3

(* A step that records a status and leaves the marks alone. *)
LEMMA LogWritten ==
    ASSUME Booked, NEW r \in Requests, Slotted', NEW status, Record(r, status), SameMarks,
           \A o \in Requests \ {r} : work'[o] = work[o],
           Fits(work'[r].at, status, r \in history.normalized, r \in history.unrecorded),
           r \notin history.normalized => Rank(log[r]) < Rank(status)
    PROVE  Booked' /\ Forward
<1>1. /\ log' = [o \in Requests |-> log'[o]] /\ log'[r] = status
      /\ \A o \in Requests \ {r} : log'[o] = log[o]
  BY RecordShape
<1>2. OnlyOne(r)  BY <1>1 DEF OnlyOne, SameMarks
<1>3. Booked'  BY <1>1, <1>2, OneEntry DEF SameMarks
<1>4. Forward  BY <1>1, <1>2, OneForward
<1> QED  BY <1>3, <1>4

LEMMA SameHistory ==
    ASSUME Booked, history' = history
    PROVE  SameMarks
  BY DEF Booked, SameMarks, HistoryShape
-----------------------------------------------------------------------------
(* The actions of a run. *)

LEMMA StepWork ==
    ASSUME Booked, NEW r \in Requests, work[r].at \in Stages, NEW at \in Stages,
           Step(r, at)
    PROVE  work'[r].at = at /\ \A o \in Requests \ {r} : work'[o] = work[o]
<1>1. IsRun(work[r])  BY RunAt DEF Booked, Slotted
<1> QED  BY <1>1, StepShape DEF Booked, Slotted

LEMMA EndWork ==
    ASSUME Booked, NEW r \in Requests, End(r)
    PROVE  work'[r].at = "over" /\ \A o \in Requests \ {r} : work'[o] = work[o]
  BY EndShape DEF Booked, Slotted, Over

LEMMA SubmitBooks ==
    ASSUME Booked, Slotted', NEW r \in Requests, NEW p, NEW u, NEW kind,
           Submit(r, p, u, kind)
    PROVE  Booked' /\ Forward
<1>1. work[r] = Idle /\ log' = log /\ history' = history  BY DEF Submit
<1>2. log[r] = "none"  BY <1>1 DEF Booked, EntryFits, Fits, Unwritten, Idle
<1>3. /\ work'[r].at \in {"gate", "over"}
      /\ \A o \in Requests \ {r} : work'[o] = work[o]
  BY DEF Submit, Booked, Slotted, WorkShape, Over
<1>4. Fits(work'[r].at, log[r], r \in history.normalized, r \in history.unrecorded)
  BY <1>2, <1>3 DEF Fits, Unwritten, Waiting, Working, Open
<1> QED  BY <1>1, <1>3, <1>4, SameHistory, LogStays

LEMMA GateBooks ==
    ASSUME Booked, Slotted', NEW r \in Requests, Gate(r)
    PROVE  Booked' /\ Forward
<1>1. work[r].at = "gate" /\ log' = log /\ history' = history  BY DEF Gate
<1>2. log[r] = "none"  BY <1>1 DEF Booked, EntryFits, Fits, Unwritten
<1>3. IsRun(work[r])  BY <1>1, RunAt DEF Booked, Slotted, Stages
<1>. PICK at \in {"limit", "create"} :
        \E planned : work' = [work EXCEPT ![r].at = at, ![r].planned = planned]
  BY DEF Gate
<1>4. PICK planned : work' = [work EXCEPT ![r].at = at, ![r].planned = planned]
  OBVIOUS
<1>5. /\ work'[r] = [[work[r] EXCEPT !.at = at] EXCEPT !.planned = planned]
      /\ \A o \in Requests \ {r} : work'[o] = work[o]
  BY <1>4 DEF Booked, Slotted, WorkShape
<1>6. work'[r].at = at  BY <1>3, <1>5 DEF IsRun
<1>7. Fits(work'[r].at, log[r], r \in history.normalized, r \in history.unrecorded)
  BY <1>2, <1>6 DEF Fits, Waiting, Working
<1> QED  BY <1>1, <1>5, <1>7, SameHistory, LogStays

LEMMA RefusedBooks ==
    ASSUME Booked, Slotted', NEW r \in Requests, LogOverLimit(r) \/ LogRefused(r)
    PROVE  Booked' /\ Forward
<1>1. /\ work[r].at \in {"limit", "refused"} /\ Record(r, "rejected") /\ End(r)
      /\ history' = history
  BY DEF LogOverLimit, LogRefused
<1>2. r \notin history.normalized => log[r] \in {"none", "pending"}
  BY <1>1 DEF Booked, EntryFits, Fits, Unwritten, Waiting
<1>3. work'[r].at = "over" /\ \A o \in Requests \ {r} : work'[o] = work[o]
  BY <1>1, EndWork
<1>4. Fits(work'[r].at, "rejected", r \in history.normalized, r \in history.unrecorded)
  BY <1>3 DEF Fits, Unwritten, Waiting, Working, Open
<1>5. r \notin history.normalized => Rank(log[r]) < Rank("rejected")
  BY <1>2, Ranks DEF Terminal
<1> QED  BY <1>1, <1>3, <1>4, <1>5, SameHistory, LogWritten

LEMMA PendingBooks ==
    ASSUME Booked, Slotted', NEW r \in Requests, LogPending(r)
    PROVE  Booked' /\ Forward
<1>1. work[r].at = "create" /\ Record(r, "pending") /\ history' = history
  BY DEF LogPending
<1>2. log[r] = "none"  BY <1>1 DEF Booked, EntryFits, Fits, Unwritten
<1>3. Step(r, "queued") \/ Step(r, "refused")  BY DEF LogPending
<1>4. /\ work'[r].at \in Waiting
      /\ \A o \in Requests \ {r} : work'[o] = work[o]
  BY <1>1, <1>3, StepWork DEF Waiting, Stages
<1>5. Fits(work'[r].at, "pending", r \in history.normalized, r \in history.unrecorded)
  BY <1>4 DEF Fits, Unwritten, Waiting, Working
<1>6. Rank(log[r]) < Rank("pending")  BY <1>2, Ranks
<1> QED  BY <1>1, <1>4, <1>5, <1>6, SameHistory, LogWritten

LEMMA RunningBooks ==
    ASSUME Booked, Slotted', NEW r \in Requests, LogRunning(r)
    PROVE  Booked' /\ Forward
<1>1. work[r].at = "queued" /\ Record(r, "running") /\ Step(r, "stream")
  BY DEF LogRunning
<1>2. r \notin history.normalized => log[r] = "pending"
  BY <1>1 DEF Booked, EntryFits, Fits, Waiting
<1>3. PICK s : history' = [history EXCEPT !.steady = s]  BY DEF LogRunning
<1>4. SameMarks  BY <1>3, SteadyChanges DEF Booked
<1>5. /\ work'[r].at = "stream"
      /\ \A o \in Requests \ {r} : work'[o] = work[o]
  BY <1>1, StepWork DEF Stages
<1>6. Fits(work'[r].at, "running", r \in history.normalized, r \in history.unrecorded)
  BY <1>5 DEF Fits, Unwritten, Waiting, Working
<1>7. r \notin history.normalized => Rank(log[r]) < Rank("running")  BY <1>2, Ranks
<1> QED  BY <1>1, <1>4, <1>5, <1>6, <1>7, LogWritten

LEMMA StreamBooks ==
    ASSUME Booked, Slotted', NEW r \in Requests, log' = log, history' = history,
           work[r].at \in Working, work'[r].at \in Working,
           \A o \in Requests \ {r} : work'[o] = work[o]
    PROVE  Booked' /\ Forward
<1>1. Fits(work'[r].at, log[r], r \in history.normalized, r \in history.unrecorded)
  BY DEF Booked, EntryFits, Fits, Unwritten, Waiting, Working
<1> QED  BY <1>1, SameHistory, LogStays

LEMMA MovingBooks ==
    ASSUME Booked, Slotted', NEW r \in Requests, StreamOverCap(r) \/ StreamEnds(r)
    PROVE  Booked' /\ Forward
<1>1. /\ work[r].at = "stream" /\ log' = log /\ history' = history
      /\ Step(r, "cap") \/ Step(r, "drain")
  BY DEF StreamOverCap, StreamEnds
<1>2. /\ work'[r].at \in {"cap", "drain"}
      /\ \A o \in Requests \ {r} : work'[o] = work[o]
  BY <1>1, StepWork DEF Stages
<1> QED  BY <1>1, <1>2, StreamBooks DEF Working

LEMMA StreamPageBooks ==
    ASSUME Booked, Slotted', NEW r \in Requests, NEW q, StreamPage(r, q)
    PROVE  Booked' /\ Forward
<1>1. work[r].at = "stream" /\ log' = log /\ history' = history  BY DEF StreamPage
<1>2. IsRun(work[r])  BY <1>1, RunAt DEF Booked, Slotted, Stages
<1>3. PICK seen, buf : work' = [work EXCEPT ![r].seen = seen, ![r].buf = buf]
  BY DEF StreamPage
<1>4. /\ work'[r] = [[work[r] EXCEPT !.seen = seen] EXCEPT !.buf = buf]
      /\ \A o \in Requests \ {r} : work'[o] = work[o]
  BY <1>3 DEF Booked, Slotted, WorkShape
<1>5. work'[r].at = "stream"  BY <1>1, <1>2, <1>4 DEF IsRun
<1> QED  BY <1>1, <1>4, <1>5, StreamBooks DEF Working

LEMMA FlushBooks ==
    ASSUME Booked, Slotted', NEW r \in Requests, NEW ns, Flush(r, ns)
    PROVE  Booked' /\ Forward
<1>1. work[r].at \in {"stream", "drain"} /\ log' = log /\ history' = history
  BY DEF Flush
<1>2. IsRun(work[r])  BY <1>1, RunAt DEF Booked, Slotted, Stages
<1>3. PICK buf : work' = [work EXCEPT ![r].buf = buf]  BY DEF Flush
<1>4. /\ work'[r] = [work[r] EXCEPT !.buf = buf]
      /\ \A o \in Requests \ {r} : work'[o] = work[o]
  BY <1>3 DEF Booked, Slotted, WorkShape
<1>5. work'[r].at = work[r].at  BY <1>2, <1>4 DEF IsRun
<1> QED  BY <1>1, <1>4, <1>5, StreamBooks DEF Working

LEMMA ClosingBooks ==
    ASSUME Booked, Slotted', NEW r \in Requests, LogCompleted(r) \/ LogFailed(r)
    PROVE  Booked' /\ Forward
<1>1. PICK status \in {"completed", "failed"} : Record(r, status)
  BY DEF LogCompleted, LogFailed
<1>2. work[r].at \in Working /\ End(r)  BY DEF LogCompleted, LogFailed, Working
<1>3. r \notin history.normalized => log[r] = "running"
  BY <1>2 DEF Booked, EntryFits, Fits
<1>4. SameMarks
  <2>1. CASE LogCompleted(r)
    <3>1. PICK s, t : history' = [history EXCEPT !.repaired = t, !.steady = s]
      BY <2>1 DEF LogCompleted
    <3> QED  BY <3>1, RepairedChanges DEF Booked
  <2>2. CASE LogFailed(r)
    <3>1. PICK s : history' = [history EXCEPT !.steady = s]  BY <2>2 DEF LogFailed
    <3> QED  BY <3>1, SteadyChanges DEF Booked
  <2> QED  BY <2>1, <2>2
<1>5. work'[r].at = "over" /\ \A o \in Requests \ {r} : work'[o] = work[o]
  BY <1>2, EndWork
<1>6. Fits(work'[r].at, status, r \in history.normalized, r \in history.unrecorded)
  BY <1>5 DEF Fits, Unwritten, Waiting, Working, Open
<1>7. r \notin history.normalized => Rank(log[r]) < Rank(status)
  BY <1>3, Ranks DEF Terminal
<1> QED  BY <1>1, <1>4, <1>5, <1>6, <1>7, LogWritten

LEMMA FailingBooks ==
    ASSUME Booked, Slotted', NEW r \in Requests, AwaitFails(r)
    PROVE  Booked' /\ Forward
<1>1. log' = log  BY DEF AwaitFails
<1>2. CASE /\ work[r].at \in {"stream", "drain", "cap"}
           /\ Step(r, "catch") /\ history' = history
  <2>1. work'[r].at = "catch" /\ \A o \in Requests \ {r} : work'[o] = work[o]
    BY <1>2, StepWork DEF Stages
  <2> QED  BY <1>1, <1>2, <2>1, StreamBooks DEF Working
<1>3. CASE /\ End(r)
           /\ \E s : history' = [history EXCEPT !.steady = s, !.unrecorded = @ \cup {r}]
  <2>1. work'[r].at = "over" /\ \A o \in Requests \ {r} : work'[o] = work[o]
    BY <1>3, EndWork
  <2>2. PICK s : history' = [history EXCEPT !.steady = s,
                                            !.unrecorded = history.unrecorded \cup {r}]
    BY <1>3
  <2>3. /\ HistoryShape' /\ history'.normalized = history.normalized
        /\ history'.unrecorded = history.unrecorded \cup {r}
    BY <2>2, UnrecordedGrows DEF Booked
  <2>4. OnlyOne(r)  BY <1>1, <2>1, <2>3 DEF Booked, OnlyOne
  <2>5. Fits(work'[r].at, log'[r], r \in history.normalized, r \in history'.unrecorded)
    BY <2>1, <2>3 DEF Fits, Unwritten, Waiting, Working
  <2>6. Booked'  BY <2>4, <2>5, OneEntry
  <2>7. Forward  BY <1>1 DEF Forward
  <2> QED  BY <2>6, <2>7
<1>4. \/ /\ work[r].at \in {"stream", "drain", "cap"}
         /\ Step(r, "catch") /\ history' = history
      \/ /\ End(r)
         /\ \E s : history' = [history EXCEPT !.steady = s, !.unrecorded = @ \cup {r}]
  BY DEF AwaitFails
<1> QED  BY <1>2, <1>3, <1>4
LEMMA RunBooks ==
    ASSUME Booked, Slotted', NEW r \in Requests, Run(r)
    PROVE  Booked' /\ Forward
<1>1. CASE Gate(r)  BY <1>1, GateBooks
<1>2. CASE LogOverLimit(r) \/ LogRefused(r)  BY <1>2, RefusedBooks
<1>3. CASE LogPending(r)  BY <1>3, PendingBooks
<1>4. CASE LogRunning(r)  BY <1>4, RunningBooks
<1>5. CASE StreamOverCap(r) \/ StreamEnds(r)  BY <1>5, MovingBooks
<1>6. CASE \E q \in Pages : StreamPage(r, q)  BY <1>6, StreamPageBooks
<1>7. CASE \E ns \in Namespaces : Flush(r, ns)  BY <1>7, FlushBooks
<1>8. CASE LogCompleted(r) \/ LogFailed(r)  BY <1>8, ClosingBooks
<1>9. CASE AwaitFails(r)  BY <1>9, FailingBooks
<1> QED  BY <1>1, <1>2, <1>3, <1>4, <1>5, <1>6, <1>7, <1>8, <1>9 DEF Run

-----------------------------------------------------------------------------
(* The other actions. *)

LEMMA ElsewhereBooks ==
    ASSUME Booked, Slotted', work' = work, log' = log, SameMarks
    PROVE  Booked' /\ Forward
  BY DEF Booked, SameMarks, EntryFits, Forward

LEMMA LandKeepsMarks ==
    ASSUME HistoryShape, NEW s, NEW t, NEW u,
           history' = [history EXCEPT !.steady = s, !.repaired = t, !.late = u]
    PROVE  /\ SameMarks
           /\ history'.swept = history.swept /\ history'.queried = history.queried
           /\ history'.late = u
           /\ history'.steady = s /\ history'.repaired = t
<1> DEFINE h == [steady |-> s, repaired |-> history.repaired,
                 unrecorded |-> history.unrecorded, normalized |-> history.normalized,
                 swept |-> history.swept, queried |-> history.queried,
                 late |-> history.late]
           g == [steady |-> s, repaired |-> t,
                 unrecorded |-> history.unrecorded, normalized |-> history.normalized,
                 swept |-> history.swept, queried |-> history.queried,
                 late |-> history.late]
<1>1. [history EXCEPT !.steady = s] = h  BY DEF HistoryShape
<1>2. [h EXCEPT !.repaired = t] = g  OBVIOUS
<1>3. history' = [g EXCEPT !.late = u]  BY <1>1, <1>2
<1> QED  BY <1>3 DEF HistoryShape, SameMarks

LEMMA SweepKeepsMarks ==
    ASSUME HistoryShape, NEW s, NEW t, NEW u,
           history' = [history EXCEPT !.swept = u, !.steady = s, !.repaired = t]
    PROVE  /\ SameMarks
           /\ history'.queried = history.queried /\ history'.late = history.late
           /\ history'.swept = u
           /\ history'.steady = s /\ history'.repaired = t
<1> DEFINE h == [steady |-> history.steady, repaired |-> history.repaired,
                 unrecorded |-> history.unrecorded, normalized |-> history.normalized,
                 swept |-> u, queried |-> history.queried,
                 late |-> history.late]
           g == [steady |-> s, repaired |-> history.repaired,
                 unrecorded |-> history.unrecorded, normalized |-> history.normalized,
                 swept |-> u, queried |-> history.queried,
                 late |-> history.late]
<1>1. [history EXCEPT !.swept = u] = h  BY DEF HistoryShape
<1>2. [h EXCEPT !.steady = s] = g  OBVIOUS
<1>3. history' = [g EXCEPT !.repaired = t]  BY <1>1, <1>2
<1> QED  BY <1>3 DEF HistoryShape, SameMarks

LEMMA EnvironmentBooks ==
    ASSUME Booked, Slotted', Environment
    PROVE  Booked' /\ Forward
<1>1. work' = work /\ log' = log
  BY DEF Environment, Save, Land, CountDescendants, BootstrapChanges
<1>2. SameMarks
  <2>1. ASSUME NEW q \in Pages, Land(q)  PROVE SameMarks
    <3>1. PICK s, t, u :
             history' = [history EXCEPT !.steady = s, !.repaired = t, !.late = u]
      BY <2>1 DEF Land
    <3> QED  BY <3>1, LandKeepsMarks DEF Booked
  <2>2. CASE history' = history  BY <2>2, SameHistory
  <2> QED
    BY <2>1, <2>2 DEF Environment, Save, CountDescendants, BootstrapChanges
<1> QED  BY <1>1, <1>2, ElsewhereBooks

LEMMA DriftBooks ==
    ASSUME Booked, Slotted', Drift
    PROVE  Booked' /\ Forward
<1>1. work' = work /\ log' = log
  BY DEF Drift, Query, WriteSwept, SaveWatermark, SweepFails, SweepElsewhere
<1>2. SameMarks
  <2>1. ASSUME NEW s \in Sweeps, Query(s)  PROVE SameMarks
    <3>1. PICK t : history' = [history EXCEPT !.queried = t]  BY <2>1 DEF Query
    <3> QED  BY <3>1 DEF Booked, HistoryShape, SameMarks
  <2>2. ASSUME NEW s, NEW x, WriteSwept(s, x)  PROVE SameMarks
    <3>1. PICK t, u, v :
             history' = [history EXCEPT !.swept = u, !.steady = t, !.repaired = v]
      BY <2>2 DEF WriteSwept
    <3> QED  BY <3>1, SweepKeepsMarks DEF Booked
  <2>3. CASE history' = history  BY <2>3, SameHistory
  <2> QED  BY <2>1, <2>2, <2>3 DEF Drift, SaveWatermark, SweepFails
<1> QED  BY <1>1, <1>2, ElsewhereBooks

LEMMA CrashBooks ==
    ASSUME Booked, Slotted', NEW p, Crash(p)
    PROVE  Booked' /\ Forward
<1> DEFINE lost == {r \in Requests :
                       work[r].at \notin {"idle", "over"} /\ work[r].proc = p}
<1>1. log' = log  BY DEF Crash
<1>2. PICK s : history' = [history EXCEPT !.steady = s,
                                          !.unrecorded = history.unrecorded \cup lost]
  BY DEF Crash
<1>3. /\ HistoryShape' /\ history'.normalized = history.normalized
      /\ history'.unrecorded = history.unrecorded \cup lost
  BY <1>2, UnrecordedGrows DEF Booked
<1>4. ASSUME NEW r \in Requests
      PROVE  Fits(work'[r].at, log[r], r \in history.normalized, r \in history'.unrecorded)
  <2>1. work'[r] = IF r \in lost THEN Over ELSE work[r]  BY DEF Crash
  <2>2. CASE r \in lost
    BY <1>3, <2>1, <2>2 DEF Fits, Unwritten, Waiting, Working, Over
  <2>3. CASE r \notin lost
    BY <1>3, <2>1, <2>3 DEF Booked, EntryFits
  <2> QED  BY <2>2, <2>3
<1> QED  BY <1>1, <1>3, <1>4 DEF Booked, EntryFits, Forward

LEMMA BootBooks ==
    ASSUME Booked, Slotted', NEW p, Boot(p)
    PROVE  Booked' /\ Forward
<1> DEFINE open == {r \in Requests : log[r] \in Open}
<1>1. work' = work  BY DEF Boot
<1>2. log' = [r \in Requests |-> IF r \in open THEN "failed" ELSE log[r]]  BY DEF Boot
<1>3. /\ HistoryShape' /\ history'.normalized = history.normalized \cup open
      /\ history'.unrecorded = {}
  <2>1. history' = [history EXCEPT !.unrecorded = {},
                                   !.normalized = history.normalized \cup open]
    BY DEF Boot
  <2> QED  BY <2>1, NormalizedGrows DEF Booked
<1>4. ASSUME NEW r \in Requests
      PROVE  Fits(work[r].at, log'[r], r \in history'.normalized, r \in history'.unrecorded)
  <2>1. Fits(work[r].at, log[r], r \in history.normalized, r \in history.unrecorded)
    BY DEF Booked, EntryFits
  <2>2. CASE r \in open
    BY <1>2, <1>3, <2>1, <2>2 DEF Fits, Open
  <2>3. CASE r \notin open
    BY <1>2, <1>3, <2>1, <2>3 DEF Fits
  <2> QED  BY <2>2, <2>3
<1>5. Forward
  <2> SUFFICES ASSUME NEW r \in Requests, log'[r] # log[r]
               PROVE  Rank(log[r]) < Rank(log'[r])
    BY DEF Forward
  <2>1. log[r] \in Open /\ log'[r] = "failed"  BY <1>2
  <2> QED  BY <2>1, Ranks DEF Open, Terminal
<1>6. log' = [r \in Requests |-> log'[r]]  BY <1>2
<1>7. \A r \in Requests : EntryFits(r)'  BY <1>1, <1>4 DEF EntryFits
<1> QED  BY <1>3, <1>5, <1>6, <1>7 DEF Booked

-----------------------------------------------------------------------------
LEMMA InitBooked ==
    ASSUME Init
    PROVE  Booked
<1>1. Slotted  BY InitSlotted
<1>2. HistoryShape  BY DEF Init, HistoryShape
<1>3. /\ log = [r \in Requests |-> "none"] /\ work = [r \in Requests |-> Idle]
  BY DEF Init
<1>4. \A r \in Requests : EntryFits(r)
  BY <1>3 DEF EntryFits, Fits, Unwritten, Waiting, Working, Idle
<1> QED  BY <1>1, <1>2, <1>3, <1>4 DEF Booked

LEMMA NextBooked ==
    ASSUME Booked, [Next]_vars
    PROVE  Booked' /\ Forward
<1>1. Slotted'  BY NextSlotted DEF Booked
<1>2. CASE Environment  BY <1>1, <1>2, EnvironmentBooks
<1>3. ASSUME NEW r \in Requests, NEW p, NEW u, NEW kind, Submit(r, p, u, kind)
      PROVE  Booked' /\ Forward
  BY <1>1, <1>3, SubmitBooks
<1>4. CASE Reconcile  BY <1>1, <1>4, RunBooks DEF Reconcile
<1>5. ASSUME NEW s, NEW p, Tick(s, p)  PROVE Booked' /\ Forward
  <2>1. work' = work /\ log' = log /\ history' = history
    BY <1>5 DEF Tick, SweepElsewhere
  <2> QED  BY <1>1, <2>1, SameHistory, ElsewhereBooks
<1>6. CASE Drift  BY <1>1, <1>6, DriftBooks
<1>7. ASSUME NEW p, Crash(p)  PROVE Booked' /\ Forward  BY <1>1, <1>7, CrashBooks
<1>8. ASSUME NEW p, Boot(p)  PROVE Booked' /\ Forward  BY <1>1, <1>8, BootBooks
<1>9. CASE UNCHANGED vars
  <2>1. work' = work /\ log' = log /\ history' = history  BY <1>9 DEF vars
  <2> QED  BY <1>1, <2>1, SameHistory, ElsewhereBooks
<1> QED  BY <1>2, <1>3, <1>4, <1>5, <1>6, <1>7, <1>8, <1>9 DEF Next

(* The entry that createLog has made is closed by whoever ends the request,  *)
(* wherever it ends; only a crash or a log write that fails leaves it open,  *)
(* and the next start closes those.                                          *)
THEOREM EntriesClosed == Spec => []ClosedWhenOver
<1>1. Init => Booked  BY InitBooked
<1>2. Booked /\ [Next]_vars => Booked'  BY NextBooked
<1>3. Booked => ClosedWhenOver
  BY DEF Booked, EntryFits, Fits, ClosedWhenOver, Over
<1> QED  BY <1>1, <1>2, <1>3, PTL DEF Spec

(* The status of a log entry takes the single direction of                   *)
(* vault-reconcile-log.ts, but for entries a starting process has failed.    *)
THEOREM LogForward == Spec => LogMovesForward
<1>1. Init => Booked  BY InitBooked
<1>2. Booked /\ [Next]_vars => Booked'  BY NextBooked
<1>3. Booked /\ [Next]_vars => Forward  BY NextBooked
<1>4. ASSUME Booked, [Next]_vars
      PROVE  [\A r \in Requests :
                 (log'[r] # log[r] /\ r \notin history.normalized) =>
                     Rank(log[r]) < Rank(log'[r])]_vars
  BY <1>3, <1>4 DEF Forward
<1> QED  BY <1>1, <1>2, <1>4, PTL DEF Spec, LogMovesForward

Stamps(q) == {pages[q].updatedAt, saving[q].updatedAt}

Clocked ==
    /\ clock \in Nat
    /\ history.queried \in 0 .. clock
    /\ watermark \in 0 .. history.queried
    /\ pages = [q \in Pages |-> pages[q]]
    /\ saving = [q \in Pages |-> saving[q]]
    /\ \A q \in Pages : Stamps(q) \subseteq 0 .. clock

(* Every update with a stamp up to t is swept or among the instructions left. *)
Covered(t, left) ==
    \A q \in Pages \ history.late :
        (pages[q].updatedAt > 0 /\ pages[q].updatedAt <= t) =>
            \A ns \in pages[q].grant :
                <<<<q, pages[q].updatedAt>>, ns>> \in history.swept \cup left

IsTick(w) ==
    /\ w = [at |-> w.at, proc |-> w.proc, from |-> w.from, upTo |-> w.upTo,
            left |-> w.left]
    /\ w.at \in {"query", "write"}

(* A tick begins at a watermark below which all is covered, and after its    *)
(* query its own instructions cover the rest, up to the next watermark.      *)
TickCovers(w) ==
    /\ w.from \in 0 .. history.queried
    /\ Covered(w.from, {})
    /\ w.at = "write" => w.upTo \in 0 .. history.queried /\ Covered(w.upTo, w.left)

(* The inductive invariant of the sweep. *)
Swept ==
    /\ HistoryShape
    /\ Clocked
    /\ sweep = [s \in Sweeps |-> sweep[s]]
    /\ Covered(watermark, {})
    /\ \A s \in Sweeps :
          \/ sweep[s] = Idle \/ sweep[s] = Over
          \/ IsTick(sweep[s]) /\ TickCovers(sweep[s])

-----------------------------------------------------------------------------
(* The greatest of some numbers that are bounded. *)

LEMMA MaxIsGreatest ==
    ASSUME NEW b \in Nat, NEW S \in SUBSET (0 .. b), S # {}
    PROVE  Max(S) \in S /\ \A x \in S : x <= Max(S)
<1> DEFINE R == {ss \in Nat \X Nat : ss[1] < ss[2]}
           T == {b - x : x \in S}
<1>1. IsWellFoundedOn(R, Nat)  BY NatLessThanWellFounded DEF OpToRel
<1>2. T \subseteq Nat /\ T # {}
  <2>1. \A x \in S : b - x \in Nat  OBVIOUS
  <2>2. T \subseteq Nat  BY <2>1
  <2>3. PICK x \in S : TRUE  OBVIOUS
  <2>4. b - x \in T  BY <2>3
  <2> QED  BY <2>2, <2>4
<1>3. PICK n \in T : \A m \in T : <<m, n>> \notin R
  <2> HIDE DEF R, T
  <2> QED  BY <1>1, <1>2, WFMin
<1>4. ASSUME NEW m \in T PROVE n <= m
  <2>1. n \in Nat /\ m \in Nat  BY <1>2
  <2>2. <<m, n>> \notin R  BY <1>3
  <2>3. ~(m < n)  BY <2>1, <2>2
  <2> QED  BY <2>1, <2>3
<1>5. PICK y \in S : n = b - y  OBVIOUS
<1>6. \A x \in S : y >= x
  <2> SUFFICES ASSUME NEW x \in S PROVE y >= x  OBVIOUS
  <2>1. b - y <= b - x  BY <1>4, <1>5
  <2>2. x \in 0 .. b /\ y \in 0 .. b  OBVIOUS
  <2> QED  BY <2>1, <2>2
<1>7. Max(S) \in S /\ \A x \in S : Max(S) >= x  BY <1>6 DEF Max
<1> QED  BY <1>7

LEMMA MaxOfTwo ==
    ASSUME NEW a \in Nat, NEW b \in Nat
    PROVE  Max({a, b}) \in {a, b} /\ a <= Max({a, b}) /\ b <= Max({a, b})
<1>1. PICK c \in Nat : {a, b} \in SUBSET (0 .. c)
  <2>1. {a, b} \in SUBSET (0 .. (a + b))  OBVIOUS
  <2> QED  BY <2>1
<1> QED  BY <1>1, MaxIsGreatest

-----------------------------------------------------------------------------
(* Coverage over a step. *)

LEMMA CoverageStays ==
    ASSUME NEW t, NEW left, Covered(t, left), pages' = pages,
           history'.late = history.late, history.swept \subseteq history'.swept
    PROVE  Covered(t, left)'
  BY DEF Covered

LEMMA TicksStay ==
    ASSUME Swept, pages' = pages, sweep' = sweep, history'.late = history.late,
           history.swept \subseteq history'.swept,
           history'.queried \in Nat, history.queried <= history'.queried
    PROVE  \A s \in Sweeps :
              \/ sweep'[s] = Idle \/ sweep'[s] = Over
              \/ IsTick(sweep'[s]) /\ TickCovers(sweep[s])'
<1> SUFFICES ASSUME NEW s \in Sweeps, sweep[s] # Idle, sweep[s] # Over
             PROVE  IsTick(sweep[s]) /\ TickCovers(sweep[s])'
  OBVIOUS
<1>1. IsTick(sweep[s]) /\ TickCovers(sweep[s])  BY DEF Swept
<1>2. history.queried \in Nat  BY DEF Swept, Clocked
<1>3. sweep'[s] = sweep[s]  OBVIOUS
<1>4. Covered(sweep[s].from, {})'
  <2>1. Covered(sweep[s].from, {})  BY <1>1 DEF TickCovers
  <2> QED  BY <2>1 DEF Covered
<1>5. sweep[s].at = "write" => Covered(sweep[s].upTo, sweep[s].left)'
  BY <1>1 DEF TickCovers, Covered
<1> QED  BY <1>1, <1>2, <1>3, <1>4, <1>5 DEF TickCovers
(* Nothing that the sweeps read has changed. *)
LEMMA SweepsStay ==
    ASSUME Swept, SameSweeps, pages' = pages, saving' = saving, clock' = clock,
           watermark' = watermark, sweep' = sweep
    PROVE  Swept'
<1>1. history.queried \in Nat /\ history'.queried = history.queried
  BY DEF Swept, Clocked, SameSweeps
<1>2. \A s \in Sweeps :
          \/ sweep'[s] = Idle \/ sweep'[s] = Over
          \/ IsTick(sweep'[s]) /\ TickCovers(sweep[s])'
  BY <1>1, TicksStay DEF SameSweeps
<1>3. Covered(watermark, {})'
  BY DEF Swept, Covered, SameSweeps
<1>4. Clocked'  BY DEF Swept, Clocked, SameSweeps, Stamps
<1> QED  BY <1>2, <1>3, <1>4 DEF Swept, SameSweeps, IsTick

(* One tick changes, and with it what is swept. *)
LEMMA OneTick ==
    ASSUME Swept, pages' = pages, saving' = saving, clock' = clock, HistoryShape',
           history'.late = history.late, history.swept \subseteq history'.swept,
           history'.queried \in history.queried .. clock,
           NEW s \in Sweeps, NEW w, sweep' = [sweep EXCEPT ![s] = w],
           w = Idle \/ w = Over \/ (IsTick(w) /\ TickCovers(w)'),
           NEW m \in 0 .. history.queried, watermark' = m, Covered(m, {})
    PROVE  Swept'
<1>1. history.queried \in Nat /\ clock \in Nat  BY DEF Swept, Clocked
<1>2. Clocked'  BY <1>1 DEF Swept, Clocked, Stamps
<1>3. Covered(watermark, {})'  BY DEF Covered
<1>4. sweep' = [o \in Sweeps |-> sweep'[o]]
  BY DEF Swept
<1>5. ASSUME NEW o \in Sweeps
      PROVE  \/ sweep'[o] = Idle \/ sweep'[o] = Over
             \/ IsTick(sweep'[o]) /\ TickCovers(sweep[o])'
  <2>1. CASE o = s
    <3>1. sweep'[o] = w  BY <2>1 DEF Swept
    <3>2. CASE IsTick(w) /\ TickCovers(w)'
      <4>1. IsTick(sweep'[o])  BY <3>1, <3>2
      <4>2. TickCovers(sweep[o])'  BY <3>1, <3>2 DEF TickCovers, Covered
      <4> QED  BY <4>1, <4>2
    <3> QED  BY <3>1, <3>2
  <2>2. CASE o # s
    <3>1. sweep'[o] = sweep[o]  BY <2>2 DEF Swept
    <3>2. CASE IsTick(sweep[o]) /\ TickCovers(sweep[o])
      <4>1. sweep[o].from \in 0 .. history'.queried  BY <1>1, <3>2 DEF TickCovers
      <4>2. Covered(sweep[o].from, {})'  BY <3>1, <3>2 DEF TickCovers, Covered
      <4>3. sweep[o].at = "write" =>
               sweep[o].upTo \in 0 .. history'.queried /\ Covered(sweep[o].upTo, sweep[o].left)'
        BY <1>1, <3>1, <3>2 DEF TickCovers, Covered
      <4>4. TickCovers(sweep[o])'  BY <3>1, <4>1, <4>2, <4>3 DEF TickCovers
      <4> QED  BY <3>1, <3>2, <4>4
    <3> QED  BY <3>1, <3>2 DEF Swept
  <2> QED  BY <2>1, <2>2
<1> QED  BY <1>2, <1>3, <1>4, <1>5 DEF Swept, IsTick

-----------------------------------------------------------------------------
(* Saves. *)

LEMMA SaveSweeps ==
    ASSUME Swept, NEW q \in Pages, NEW grant,
           Save(q, [rev |-> clock + 1, grant |-> grant, updatedAt |-> clock + 1])
    PROVE  Swept'
<1> DEFINE doc == [rev |-> clock + 1, grant |-> grant, updatedAt |-> clock + 1]
<1>1. /\ saving' = [saving EXCEPT ![q] = doc] /\ clock' = clock + 1
      /\ pages' = pages /\ sweep' = sweep /\ watermark' = watermark
      /\ history' = history
  BY DEF Save
<1>2. history.queried \in Nat /\ clock \in Nat  BY DEF Swept, Clocked
<1>3. Clocked'
  <2>1. \A p \in Pages : saving'[p] = IF p = q THEN doc ELSE saving[p]
    BY <1>1 DEF Swept, Clocked
  <2>2. \A p \in Pages : Stamps(p)' \subseteq 0 .. clock'
    BY <1>1, <1>2, <2>1 DEF Swept, Clocked, Stamps
  <2>3. saving' = [p \in Pages |-> saving'[p]]
    BY <1>1 DEF Swept, Clocked
  <2> QED  BY <1>1, <1>2, <2>2, <2>3 DEF Swept, Clocked
<1>4. \A s \in Sweeps :
          \/ sweep'[s] = Idle \/ sweep'[s] = Over
          \/ IsTick(sweep'[s]) /\ TickCovers(sweep[s])'
  BY <1>1, <1>2, TicksStay
<1>5. Covered(watermark, {})'  BY <1>1 DEF Swept, Covered
<1> QED  BY <1>1, <1>3, <1>4, <1>5 DEF Swept, HistoryShape, IsTick

(* A page that lands is stamped later than every query, or late. *)
LEMMA LandedCovers ==
    ASSUME Swept, NEW q \in Pages, NEW t \in 0 .. history.queried, NEW left,
           Covered(t, left),
           pages' = [pages EXCEPT ![q] = saving[q]],
           history'.swept = history.swept,
           history'.late = IF saving[q].updatedAt <= history.queried
                           THEN history.late \cup {q} ELSE history.late \ {q}
    PROVE  Covered(t, left)'
<1> SUFFICES ASSUME NEW p \in Pages \ history'.late, pages'[p].updatedAt <= t,
                    pages'[p].updatedAt > 0, NEW ns \in pages'[p].grant
             PROVE  <<<<p, pages'[p].updatedAt>>, ns>> \in history'.swept \cup left
  BY DEF Covered
<1>1. p # q
  <2> SUFFICES ASSUME p = q PROVE FALSE  OBVIOUS
  <2>1. pages'[p] = saving[q]  BY DEF Swept, Clocked
  <2>2. saving[q].updatedAt \in Nat /\ history.queried \in Nat /\ clock \in Nat
    BY DEF Swept, Clocked, Stamps
  <2>3. ~(saving[q].updatedAt <= history.queried)  OBVIOUS
  <2> QED  BY <2>1, <2>2, <2>3
<1>2. pages'[p] = pages[p] /\ p \notin history.late  BY <1>1 DEF Swept, Clocked
<1> QED  BY <1>2 DEF Covered

LEMMA LandSweeps ==
    ASSUME Swept, NEW q \in Pages, Land(q)
    PROVE  Swept'
<1>1. /\ pages' = [pages EXCEPT ![q] = saving[q]]
      /\ saving' = [saving EXCEPT ![q] = Absent]
      /\ clock' = clock /\ sweep' = sweep /\ watermark' = watermark
  BY DEF Land
<1>2. PICK h, t, u : /\ history' = [history EXCEPT !.steady = h, !.repaired = t, !.late = u]
                     /\ u = IF saving[q].updatedAt <= history.queried
                            THEN history.late \cup {q} ELSE history.late \ {q}
  BY DEF Land
<1>3. /\ HistoryShape' /\ history'.swept = history.swept
      /\ history'.queried = history.queried
      /\ history'.late = IF saving[q].updatedAt <= history.queried
                         THEN history.late \cup {q} ELSE history.late \ {q}
  <2>1. HistoryShape  BY DEF Swept
  <2>2. history' = [history EXCEPT !.steady = h, !.repaired = t, !.late = u]  BY <1>2
  <2>3. /\ SameMarks /\ history'.swept = history.swept
        /\ history'.queried = history.queried /\ history'.late = u
    BY <2>1, <2>2, LandKeepsMarks
  <2> QED  BY <1>2, <2>3 DEF SameMarks
<1>4. Clocked'
  <2>1. \A p \in Pages :
            /\ pages'[p] = IF p = q THEN saving[q] ELSE pages[p]
            /\ saving'[p] = IF p = q THEN Absent ELSE saving[p]
    BY <1>1 DEF Swept, Clocked
  <2>2. clock \in Nat /\ Absent.updatedAt = 0  BY DEF Swept, Clocked, Absent
  <2>3. \A p \in Pages : Stamps(p)' \subseteq 0 .. clock
    BY <2>1, <2>2 DEF Swept, Clocked, Stamps
  <2>4. pages' = [p \in Pages |-> pages'[p]] /\ saving' = [p \in Pages |-> saving'[p]]
    BY <1>1 DEF Swept, Clocked
  <2> QED  BY <1>1, <1>3, <2>3, <2>4 DEF Swept, Clocked
<1>5. Covered(watermark, {})'
  BY <1>1, <1>3, LandedCovers DEF Swept, Clocked
<1>6. ASSUME NEW s \in Sweeps
      PROVE  \/ sweep'[s] = Idle \/ sweep'[s] = Over
             \/ IsTick(sweep'[s]) /\ TickCovers(sweep[s])'
  <2>1. sweep'[s] = sweep[s]  BY <1>1
  <2>2. CASE IsTick(sweep[s]) /\ TickCovers(sweep[s])
    <3>1. Covered(sweep[s].from, {})'
      BY <1>1, <1>3, <2>2, LandedCovers DEF TickCovers
    <3>2. sweep[s].at = "write" => Covered(sweep[s].upTo, sweep[s].left)'
      BY <1>1, <1>3, <2>2, LandedCovers DEF TickCovers
    <3> QED  BY <1>3, <2>1, <2>2, <3>1, <3>2 DEF TickCovers
  <2> QED  BY <2>1, <2>2 DEF Swept
<1> QED  BY <1>1, <1>3, <1>4, <1>5, <1>6 DEF Swept, IsTick
-----------------------------------------------------------------------------
(* Ticks of the drift detector. *)

LEMMA TickSweeps ==
    ASSUME Swept, NEW s \in Sweeps, NEW p, Tick(s, p)
    PROVE  Swept'
<1>1. /\ pages' = pages /\ saving' = saving /\ clock' = clock
      /\ watermark' = watermark /\ history' = history
  BY DEF Tick, SweepElsewhere, docs
<1>2. PICK m : m = watermark  OBVIOUS
<1>3. PICK w : /\ sweep' = [sweep EXCEPT ![s] = w]
               /\ w = [at |-> "query", proc |-> p, from |-> m, upTo |-> m, left |-> {}]
  BY <1>2 DEF Tick
<1>4. m \in 0 .. history.queried /\ Covered(m, {})  BY <1>2 DEF Swept, Clocked
<1>5. IsTick(w)  BY <1>3 DEF IsTick
<1>6. TickCovers(w)'  BY <1>1, <1>3, <1>4 DEF TickCovers, Covered
<1>7. history.queried \in 0 .. clock /\ clock \in Nat  BY DEF Swept, Clocked
<1>8. HistoryShape'  BY <1>1 DEF Swept, HistoryShape
<1>9. /\ history'.late = history.late /\ history.swept \subseteq history'.swept
      /\ history'.queried \in history.queried .. clock
  BY <1>1, <1>7
<1> QED  BY <1>1, <1>2, <1>3, <1>4, <1>5, <1>6, <1>8, <1>9, OneTick

LEMMA FailSweeps ==
    ASSUME Swept, NEW s \in Sweeps, SweepFails(s)
    PROVE  Swept'
<1>1. /\ pages' = pages /\ saving' = saving /\ clock' = clock
      /\ watermark' = watermark /\ history' = history
      /\ sweep' = [sweep EXCEPT ![s] = Over]
  BY DEF SweepFails, SweepElsewhere, docs
<1>2. PICK m : m = watermark  OBVIOUS
<1>3. m \in 0 .. history.queried /\ Covered(m, {})  BY <1>2 DEF Swept, Clocked
<1>4. history.queried \in 0 .. clock /\ clock \in Nat  BY DEF Swept, Clocked
<1>5. HistoryShape'  BY <1>1 DEF Swept, HistoryShape
<1>6. /\ history'.late = history.late /\ history.swept \subseteq history'.swept
      /\ history'.queried \in history.queried .. clock
  BY <1>1, <1>4
<1> QED  BY <1>1, <1>2, <1>3, <1>5, <1>6, OneTick

LEMMA SaveWatermarkSweeps ==
    ASSUME Swept, NEW s \in Sweeps, SaveWatermark(s)
    PROVE  Swept'
<1>1. /\ pages' = pages /\ saving' = saving /\ clock' = clock
      /\ history' = history /\ sweep' = [sweep EXCEPT ![s] = Over]
      /\ sweep[s].at = "write" /\ sweep[s].left = {} /\ watermark' = sweep[s].upTo
  BY DEF SaveWatermark, SweepElsewhere, docs
<1>2. IsTick(sweep[s]) /\ TickCovers(sweep[s])  BY <1>1 DEF Swept, Idle, Over
<1>3. PICK m : m = sweep[s].upTo  OBVIOUS
<1>4. m \in 0 .. history.queried /\ Covered(m, {})  BY <1>1, <1>2, <1>3 DEF TickCovers
<1>5. history.queried \in 0 .. clock /\ clock \in Nat  BY DEF Swept, Clocked
<1>6. HistoryShape'  BY <1>1 DEF Swept, HistoryShape
<1>7. /\ history'.late = history.late /\ history.swept \subseteq history'.swept
      /\ history'.queried \in history.queried .. clock
  BY <1>1, <1>5
<1> QED  BY <1>1, <1>3, <1>4, <1>6, <1>7, OneTick

LEMMA WriteSweptSweeps ==
    ASSUME Swept, NEW s \in Sweeps, NEW x, sweep[s].at = "write", WriteSwept(s, x)
    PROVE  Swept'
<1>1. /\ pages' = pages /\ saving' = saving /\ clock' = clock
      /\ watermark' = watermark
  BY DEF WriteSwept, SweepElsewhere, docs
<1>2. IsTick(sweep[s]) /\ TickCovers(sweep[s])  BY DEF Swept, Idle, Over
<1>3. /\ HistoryShape' /\ history'.queried = history.queried
      /\ history'.late = history.late /\ history'.swept = history.swept \cup {x}
  <2>1. PICK t, v :
           history' = [history EXCEPT !.swept = history.swept \cup {x},
                                      !.steady = t, !.repaired = v]
    BY DEF WriteSwept
  <2>2. HistoryShape  BY DEF Swept
  <2> QED  BY <2>1, <2>2, SweepKeepsMarks DEF SameMarks
<1>4. PICK w : /\ sweep' = [sweep EXCEPT ![s] = w]
               /\ w = [at |-> sweep[s].at, proc |-> sweep[s].proc, from |-> sweep[s].from,
                       upTo |-> sweep[s].upTo, left |-> sweep[s].left \ {x}]
  <2>1. sweep' = [sweep EXCEPT ![s] = [sweep[s] EXCEPT !.left = sweep[s].left \ {x}]]
    BY DEF WriteSwept
  <2>2. [sweep[s] EXCEPT !.left = sweep[s].left \ {x}]
          = [at |-> sweep[s].at, proc |-> sweep[s].proc, from |-> sweep[s].from,
             upTo |-> sweep[s].upTo, left |-> sweep[s].left \ {x}]
    BY <1>2 DEF IsTick
  <2> QED  BY <2>1, <2>2
<1>5. IsTick(w)  BY <1>4 DEF IsTick
<1>6. TickCovers(w)'
  <2>1. Covered(w.from, {})'  BY <1>1, <1>2, <1>3, <1>4 DEF TickCovers, Covered
  <2>2. Covered(w.upTo, w.left)'
    <3> SUFFICES ASSUME NEW q \in Pages \ history.late, pages[q].updatedAt > 0,
                        pages[q].updatedAt <= w.upTo, NEW ns \in pages[q].grant
                 PROVE  <<<<q, pages[q].updatedAt>>, ns>> \in history'.swept \cup w.left
      BY <1>1, <1>3 DEF Covered
    <3>1. <<<<q, pages[q].updatedAt>>, ns>> \in history.swept \cup sweep[s].left
      BY <1>2, <1>4 DEF TickCovers, Covered
    <3> QED  BY <1>3, <1>4, <3>1
  <2> QED  BY <1>2, <1>3, <1>4, <2>1, <2>2 DEF TickCovers
<1>7. PICK m : m = watermark  OBVIOUS
<1>8. m \in 0 .. history.queried /\ Covered(m, {})  BY <1>7 DEF Swept, Clocked
<1>9. history.queried \in 0 .. clock /\ clock \in Nat  BY DEF Swept, Clocked
<1>10. history.swept \subseteq history'.swept /\ history'.queried \in history.queried .. clock
  BY <1>3, <1>9
<1> QED  BY <1>1, <1>3, <1>4, <1>5, <1>6, <1>7, <1>8, <1>10, OneTick

LEMMA QuerySweeps ==
    ASSUME Swept, NEW s \in Sweeps, Query(s)
    PROVE  Swept'
<1> DEFINE found == Updated(sweep[s].from)
           stamps == {sweep[s].from} \cup {pages[q].updatedAt : q \in found}
           upTo == Max(stamps)
           left == UNION {{<<q, pages[q].updatedAt>>} \X pages[q].grant : q \in found}
           t == [at |-> "write", proc |-> sweep[s].proc, from |-> sweep[s].from,
                 upTo |-> upTo, left |-> left]
<1>1. /\ pages' = pages /\ saving' = saving /\ clock' = clock
      /\ watermark' = watermark /\ sweep[s].at = "query"
      /\ history' = [history EXCEPT !.queried = Max({history.queried, upTo})]
  BY DEF Query, SweepElsewhere, docs
<1>2. IsTick(sweep[s]) /\ TickCovers(sweep[s])  BY <1>1 DEF Swept, Idle, Over
<1>3. history.queried \in 0 .. clock /\ clock \in Nat  BY DEF Swept, Clocked
<1>4. sweep[s].from \in 0 .. history.queried  BY <1>2 DEF TickCovers
<1>5. upTo \in 0 .. clock
  <2>1. \A q \in found : q \in Pages /\ pages[q].updatedAt \in 0 .. clock
    BY DEF Updated, Swept, Clocked, Stamps
  <2>2. sweep[s].from \in 0 .. clock  BY <1>3, <1>4
  <2>3. stamps \in SUBSET (0 .. clock) /\ stamps # {}  BY <2>1, <2>2
  <2> HIDE DEF stamps
  <2>4. Max(stamps) \in stamps  BY <1>3, <2>3, MaxIsGreatest
  <2> QED  BY <2>3, <2>4
<1>6. /\ HistoryShape' /\ history'.late = history.late /\ history'.swept = history.swept
      /\ history'.queried \in history.queried .. clock
      /\ upTo \in 0 .. history'.queried
  <2> HIDE DEF upTo
  <2>1. /\ HistoryShape' /\ history'.late = history.late
        /\ history'.swept = history.swept
        /\ history'.queried = Max({history.queried, upTo})
    BY <1>1 DEF Swept, HistoryShape
  <2>2. history.queried \in Nat /\ upTo \in Nat  BY <1>3, <1>5
  <2>3. /\ Max({history.queried, upTo}) \in {history.queried, upTo}
        /\ history.queried <= Max({history.queried, upTo})
        /\ upTo <= Max({history.queried, upTo})
    BY <2>2, MaxOfTwo
  <2> QED  BY <1>3, <1>5, <2>1, <2>2, <2>3
<1>7. PICK w : /\ sweep' = [sweep EXCEPT ![s] = w]
               /\ w = Over \/ w = t
  <2>1. [sweep[s] EXCEPT !.at = "write", !.upTo = upTo, !.left = left] = t
    <3> DEFINE u == [at |-> "write", proc |-> sweep[s].proc, from |-> sweep[s].from,
                     upTo |-> sweep[s].upTo, left |-> sweep[s].left]
               v == [at |-> "write", proc |-> sweep[s].proc, from |-> sweep[s].from,
                     upTo |-> upTo, left |-> sweep[s].left]
    <3> HIDE DEF upTo, left
    <3>1. [sweep[s] EXCEPT !.at = "write"] = u  BY <1>2 DEF IsTick
    <3>2. [u EXCEPT !.upTo = upTo] = v  OBVIOUS
    <3>3. [v EXCEPT !.left = left] = t  OBVIOUS
    <3>4. [sweep[s] EXCEPT !.at = "write", !.upTo = upTo, !.left = left]
            = [[[sweep[s] EXCEPT !.at = "write"] EXCEPT !.upTo = upTo] EXCEPT !.left = left]
      OBVIOUS
    <3> QED  BY <3>1, <3>2, <3>3, <3>4
  <2>2. \/ sweep' = [sweep EXCEPT ![s] = Over]
        \/ sweep' = [sweep EXCEPT ![s] =
                        [sweep[s] EXCEPT !.at = "write", !.upTo = upTo, !.left = left]]
    BY DEF Query
  <2> HIDE DEF t
  <2> QED  BY <2>1, <2>2
<1>8. Covered(upTo, left)
  <2> SUFFICES ASSUME NEW q \in Pages \ history.late, pages[q].updatedAt > 0,
                      NEW ns \in pages[q].grant
               PROVE  <<<<q, pages[q].updatedAt>>, ns>> \in history.swept \cup left
    BY DEF Covered
  <2>1. pages[q].updatedAt \in Nat /\ sweep[s].from \in Nat
    BY <1>3, <1>4 DEF Swept, Clocked, Stamps
  <2>2. CASE pages[q].updatedAt > sweep[s].from
    <3>1. q \in found  BY <2>2 DEF Updated
    <3>2. <<<<q, pages[q].updatedAt>>, ns>> \in {<<q, pages[q].updatedAt>>} \X pages[q].grant
      OBVIOUS
    <3>3. <<<<q, pages[q].updatedAt>>, ns>> \in left  BY <3>1, <3>2
    <3> QED  BY <3>3
  <2>3. CASE pages[q].updatedAt <= sweep[s].from
    <3>1. Covered(sweep[s].from, {})  BY <1>2 DEF TickCovers
    <3> QED  BY <2>3, <3>1 DEF Covered
  <2> QED  BY <2>1, <2>2, <2>3
<1>9. w = Over \/ (IsTick(w) /\ TickCovers(w)')
  <2> SUFFICES ASSUME w = t PROVE IsTick(w) /\ TickCovers(w)'  BY <1>7
  <2> HIDE DEF upTo, left
  <2>1. w.upTo = upTo /\ w.left = left /\ w.from = sweep[s].from  OBVIOUS
  <2>2. Covered(w.from, {})'
    BY <1>1, <1>2, <1>6, <2>1 DEF TickCovers, Covered
  <2>3. Covered(w.upTo, w.left)'  BY <1>1, <1>6, <1>8, <2>1 DEF Covered
  <2>4. w.from \in 0 .. history'.queried /\ w.upTo \in 0 .. history'.queried
    BY <1>3, <1>4, <1>6, <2>1
  <2>5. IsTick(w)  BY DEF IsTick
  <2> QED  BY <2>2, <2>3, <2>4, <2>5 DEF TickCovers
<1>10. PICK m : m = watermark  OBVIOUS
<1>11. m \in 0 .. history.queried /\ Covered(m, {})  BY <1>10 DEF Swept, Clocked
<1> HIDE DEF upTo, left, t
<1> QED  BY <1>1, <1>6, <1>7, <1>9, <1>10, <1>11, OneTick
-----------------------------------------------------------------------------
(* Processes, and what the sweeps do not read. *)

LEMMA RunSweeps ==
    ASSUME Swept, NEW r \in Requests, Run(r)
    PROVE  Swept'
<1>1. /\ pages' = pages /\ saving' = saving /\ clock' = clock
      /\ watermark' = watermark /\ sweep' = sweep
  BY DEF Run, Gate, LogOverLimit, LogPending, LogRefused, LogRunning, StreamPage,
         StreamOverCap, StreamEnds, Flush, LogCompleted, LogFailed, AwaitFails,
         Elsewhere, docs
<1>2. SameSweeps
  <2>1. CASE history' = history  BY <2>1 DEF Swept, HistoryShape, SameSweeps
  <2>2. ASSUME NEW s, history' = [history EXCEPT !.steady = s]  PROVE SameSweeps
    BY <2>2, SteadyChanges DEF Swept
  <2>3. ASSUME NEW s, NEW t, history' = [history EXCEPT !.repaired = t, !.steady = s]
        PROVE  SameSweeps
    BY <2>3, RepairedChanges DEF Swept
  <2>4. ASSUME NEW s, NEW u, history' = [history EXCEPT !.steady = s, !.unrecorded = u]
        PROVE  SameSweeps
    BY <2>4, UnrecordedGrows DEF Swept
  <2>5. LogRunning(r) \/ LogFailed(r) => \E s : history' = [history EXCEPT !.steady = s]
    BY DEF LogRunning, LogFailed
  <2>6. LogCompleted(r) =>
            \E s, t : history' = [history EXCEPT !.repaired = t, !.steady = s]
    BY DEF LogCompleted
  <2>7. AwaitFails(r) =>
            \/ history' = history
            \/ \E s, u : history' = [history EXCEPT !.steady = s, !.unrecorded = u]
    BY DEF AwaitFails
  <2>8. \/ history' = history
        \/ LogRunning(r) \/ LogFailed(r) \/ LogCompleted(r) \/ AwaitFails(r)
    BY DEF Run, Gate, LogOverLimit, LogPending, LogRefused, StreamPage,
           StreamOverCap, StreamEnds, Flush
  <2> QED  BY <2>1, <2>2, <2>3, <2>4, <2>5, <2>6, <2>7, <2>8
<1> QED  BY <1>1, <1>2, SweepsStay

LEMMA BootSweeps ==
    ASSUME Swept, NEW p, Boot(p)
    PROVE  Swept'
<1>1. PICK s : history' = [history EXCEPT !.unrecorded = {}, !.normalized = s]
  BY DEF Boot
<1>2. SameSweeps  BY <1>1, NormalizedGrows DEF Swept
<1> QED  BY <1>2, SweepsStay DEF Boot, docs

LEMMA CrashSweeps ==
    ASSUME Swept, NEW p, Crash(p)
    PROVE  Swept'
<1>1. /\ pages' = pages /\ saving' = saving /\ clock' = clock /\ watermark' = watermark
      /\ sweep' = [s \in Sweeps |->
            IF sweep[s].at \in {"query", "write"} /\ sweep[s].proc = p
            THEN Over ELSE sweep[s]]
  BY DEF Crash, docs
<1>2. PICK s, u : history' = [history EXCEPT !.steady = s, !.unrecorded = u]
  BY DEF Crash
<1>3. SameSweeps  BY <1>2, UnrecordedGrows DEF Swept
<1>4. Clocked'  BY <1>1, <1>3 DEF Swept, Clocked, SameSweeps, Stamps
<1>5. Covered(watermark, {})'  BY <1>1, <1>3 DEF Swept, Covered, SameSweeps
<1>6. ASSUME NEW o \in Sweeps
      PROVE  \/ sweep'[o] = Idle \/ sweep'[o] = Over
             \/ IsTick(sweep'[o]) /\ TickCovers(sweep[o])'
  <2>1. sweep'[o] = Over \/ sweep'[o] = sweep[o]  BY <1>1
  <2>2. CASE sweep'[o] = sweep[o]
    BY <1>1, <1>3, <2>2 DEF Swept, TickCovers, Covered, SameSweeps
  <2> QED  BY <2>1, <2>2
<1>7. sweep' = [o \in Sweeps |-> sweep'[o]]  BY <1>1
<1> QED  BY <1>3, <1>4, <1>5, <1>6, <1>7 DEF Swept, SameSweeps, IsTick

-----------------------------------------------------------------------------
LEMMA InitSwept ==
    ASSUME Init
    PROVE  Swept
<1>1. HistoryShape  BY DEF Init, HistoryShape
<1>2. /\ history.queried = 0 /\ clock = 0 /\ watermark = 0
      /\ \A q \in Pages : Stamps(q) = {0}
      /\ pages = [q \in Pages |-> pages[q]] /\ saving = [q \in Pages |-> saving[q]]
  BY DEF Init, Stamps, Absent
<1>3. Clocked  BY <1>2 DEF Clocked
<1>4. Covered(watermark, {})  BY <1>2 DEF Covered, Stamps
<1>5. sweep = [s \in Sweeps |-> Idle]  BY DEF Init
<1> QED  BY <1>1, <1>3, <1>4, <1>5 DEF Swept

LEMMA NextSwept ==
    ASSUME Swept, [Next]_vars
    PROVE  Swept'
<1>1. CASE history' = history /\ pages' = pages /\ saving' = saving /\ clock' = clock
           /\ watermark' = watermark /\ sweep' = sweep
  BY <1>1, SweepsStay DEF Swept, HistoryShape, SameSweeps
<1>2. CASE Environment
  <2>1. ASSUME NEW q \in Pages, NEW grant,
               Save(q, [rev |-> clock + 1, grant |-> grant, updatedAt |-> clock + 1])
        PROVE  Swept'
    BY <2>1, SaveSweeps
  <2>2. ASSUME NEW q \in Pages, Land(q)  PROVE Swept'  BY <2>2, LandSweeps
  <2>3. CASE CountDescendants \/ BootstrapChanges
    BY <1>1, <2>3 DEF CountDescendants, BootstrapChanges, docs
  <2> QED  BY <1>2, <2>1, <2>2, <2>3 DEF Environment
<1>3. ASSUME NEW r, NEW p, NEW u, NEW kind, Submit(r, p, u, kind)  PROVE Swept'
  BY <1>1, <1>3 DEF Submit, Elsewhere, docs
<1>4. CASE Reconcile  BY <1>4, RunSweeps DEF Reconcile
<1>5. ASSUME NEW s \in Sweeps, NEW p, Tick(s, p)  PROVE Swept'  BY <1>5, TickSweeps
<1>6. CASE Drift
  BY <1>6, QuerySweeps, SaveWatermarkSweeps, FailSweeps, WriteSweptSweeps DEF Drift
<1>7. ASSUME NEW p, Crash(p)  PROVE Swept'  BY <1>7, CrashSweeps
<1>8. ASSUME NEW p, Boot(p)  PROVE Swept'  BY <1>8, BootSweeps
<1>9. CASE UNCHANGED vars  BY <1>1, <1>9 DEF vars, docs
<1> QED  BY <1>2, <1>3, <1>4, <1>5, <1>6, <1>7, <1>8, <1>9 DEF Next

(* The drift detector's watermark, which a tick writes when all of its       *)
(* instructions are inserted, passes no update it has not sent, in none of   *)
(* the page's namespaces, whatever ticks overlap, fail or die.               *)
THEOREM NothingUnswept == Spec => []SweepMissesNothing
<1>1. Init => Swept  BY InitSwept
<1>2. Swept /\ [Next]_vars => Swept'  BY NextSwept
<1>3. Swept => SweepMissesNothing
  BY DEF Swept, Covered, SweepMissesNothing
<1> QED  BY <1>1, <1>2, <1>3, PTL DEF Spec

-----------------------------------------------------------------------------
(* What a reconcile reads and writes.                                        *)

Entry == [page : Pages, rev : Int]
Limit(u) == IF u \in Admins THEN AdminLimit ELSE UserLimit

DocTyped(doc) == doc.rev \in Int /\ doc.grant \subseteq Namespaces

(* Before it streams a run has read nothing; behind the gate it has planned  *)
(* what its role allows; it has never read more than it has planned.         *)
RunTyped(w) ==
    /\ w.seen \subseteq Pages
    /\ w.planned \in Nat
    /\ Cardinality(w.seen) <= w.planned
    /\ w.buf \in [Namespaces -> Seq(Entry)]
    /\ \A ns \in Namespaces : Len(w.buf[ns]) <= ChunkSize
    /\ w.at \notin {"stream", "drain", "cap", "catch"} =>
          w.seen = {} /\ \A ns \in Namespaces : w.buf[ns] = <<>>
    /\ w.at \notin {"gate", "limit"} => w.planned <= Limit(w.user)

(* The inductive invariant. *)
Typed ==
    /\ Booked /\ Swept
    /\ descendants \in Nat
    /\ \A q \in Pages : DocTyped(pages[q]) /\ DocTyped(saving[q])
    /\ \A r \in Requests : IsRun(work[r]) => RunTyped(work[r])
    /\ \A r \in Requests : log[r] \in {"none"} \cup Open \cup Terminal
    /\ vault = [ns \in Namespaces |-> vault[ns]]
    /\ \A ns \in Namespaces : vault[ns] = [q \in Pages |-> vault[ns][q]]

-----------------------------------------------------------------------------
(* Documents and the log. *)

LEMMA LogTyped ==
    ASSUME Typed, [Next]_vars, NEW r \in Requests
    PROVE  log'[r] \in {"none"} \cup Open \cup Terminal
<1>1. CASE log' = log  BY <1>1 DEF Typed
<1>2. ASSUME NEW o \in Requests, NEW status \in Open \cup Terminal, Record(o, status)
      PROVE  log'[r] \in {"none"} \cup Open \cup Terminal
  <2>1. log'[r] = status \/ log'[r] = log[r]  BY <1>2, RecordShape DEF Typed
  <2> QED  BY <2>1 DEF Typed
<1>3. ASSUME NEW p, Boot(p)  PROVE log'[r] \in {"none"} \cup Open \cup Terminal
  <2>1. log'[r] = "failed" \/ log'[r] = log[r]  BY <1>3 DEF Boot
  <2> QED  BY <2>1 DEF Typed, Terminal
<1>4. ASSUME NEW o \in Requests, Run(o)
      PROVE  log'[r] \in {"none"} \cup Open \cup Terminal
  <2>1. \/ log' = log
        \/ \E status \in Open \cup Terminal : Record(o, status)
    BY <1>4 DEF Run, Gate, LogOverLimit, LogPending, LogRefused, LogRunning, StreamPage,
       StreamOverCap, StreamEnds, Flush, LogCompleted, LogFailed, AwaitFails, Open, Terminal
  <2> QED  BY <1>1, <1>2, <2>1
<1>5. CASE Environment
  BY <1>1, <1>5 DEF Environment, Save, Land, CountDescendants, BootstrapChanges
<1>6. CASE Drift
  BY <1>1, <1>6 DEF Drift, Query, WriteSwept, SaveWatermark, SweepFails, SweepElsewhere
<1>7. ASSUME NEW p, Crash(p)  PROVE log' = log  BY <1>7 DEF Crash
<1>8. ASSUME NEW o, NEW p, NEW u, NEW kind, Submit(o, p, u, kind)  PROVE log' = log
  BY <1>8 DEF Submit
<1>9. ASSUME NEW s, NEW p, Tick(s, p)  PROVE log' = log  BY <1>9 DEF Tick, SweepElsewhere
<1>10. UNCHANGED vars => log' = log  BY DEF vars
<1> QED
  BY <1>1, <1>3, <1>4, <1>5, <1>6, <1>7, <1>8, <1>9, <1>10 DEF Next, Reconcile

LEMMA DocsTyped ==
    ASSUME Typed, [Next]_vars
    PROVE  /\ descendants' \in Nat
           /\ \A q \in Pages : DocTyped(pages'[q]) /\ DocTyped(saving'[q])
<1>1. CASE UNCHANGED docs  BY <1>1 DEF Typed, docs
<1>2. ASSUME NEW q \in Pages, NEW grant \in Grants,
             Save(q, [rev |-> clock + 1, grant |-> grant, updatedAt |-> clock + 1])
      PROVE  /\ descendants' \in Nat
             /\ \A p \in Pages : DocTyped(pages'[p]) /\ DocTyped(saving'[p])
  <2> DEFINE doc == [rev |-> clock + 1, grant |-> grant, updatedAt |-> clock + 1]
  <2>1. /\ saving' = [saving EXCEPT ![q] = doc]
        /\ pages' = pages /\ descendants' = descendants
    BY <1>2 DEF Save
  <2>2. clock \in Nat /\ grant \subseteq Namespaces
    BY RepairAssumption DEF RepairAssumption, Typed, Swept, Clocked
  <2>3. DocTyped(doc)  BY <2>2 DEF DocTyped
  <2>4. \A p \in Pages : saving'[p] = IF p = q THEN doc ELSE saving[p]
    BY <2>1 DEF Typed, Swept, Clocked
  <2> QED  BY <2>1, <2>3, <2>4 DEF Typed
<1>3. ASSUME NEW q \in Pages, Land(q)
      PROVE  /\ descendants' \in Nat
             /\ \A p \in Pages : DocTyped(pages'[p]) /\ DocTyped(saving'[p])
  <2>1. /\ pages' = [pages EXCEPT ![q] = saving[q]]
        /\ saving' = [saving EXCEPT ![q] = Absent] /\ descendants' = descendants
    BY <1>3 DEF Land
  <2>2. \A p \in Pages :
            /\ pages'[p] = IF p = q THEN saving[q] ELSE pages[p]
            /\ saving'[p] = IF p = q THEN Absent ELSE saving[p]
    BY <2>1 DEF Typed, Swept, Clocked
  <2>3. DocTyped(Absent)  BY DEF DocTyped, Absent, None
  <2> QED  BY <2>1, <2>2, <2>3 DEF Typed
<1>4. CASE CountDescendants
  <2>1. /\ descendants' = Cardinality({q \in Pages \ {Root} : pages[q] # Absent})
        /\ pages' = pages /\ saving' = saving
    BY <1>4 DEF CountDescendants
  <2>2. IsFiniteSet(Pages)  BY RepairAssumption DEF RepairAssumption
  <2>3. IsFiniteSet({q \in Pages \ {Root} : pages[q] # Absent})
    BY <2>2, FS_Subset
  <2> QED  BY <2>1, <2>3, FS_CardinalityType DEF Typed
<1>5. BootstrapChanges => UNCHANGED docs  BY DEF BootstrapChanges
<1>6. Reconcile => UNCHANGED docs
  BY DEF Reconcile, Run, Gate, LogOverLimit, LogPending, LogRefused, LogRunning,
     StreamPage, StreamOverCap, StreamEnds, Flush, LogCompleted, LogFailed, AwaitFails,
     Elsewhere
<1>7. Drift => UNCHANGED docs
  BY DEF Drift, Query, WriteSwept, SaveWatermark, SweepFails, SweepElsewhere
<1>8. \A p : Crash(p) \/ Boot(p) => UNCHANGED docs  BY DEF Crash, Boot
<1>9. \A r, p, u, kind : Submit(r, p, u, kind) => UNCHANGED docs  BY DEF Submit, Elsewhere
<1>10. \A s, p : Tick(s, p) => UNCHANGED docs  BY DEF Tick, SweepElsewhere
<1>11. UNCHANGED vars => UNCHANGED docs  BY DEF vars
<1> QED
  BY <1>1, <1>2, <1>3, <1>4, <1>5, <1>6, <1>7, <1>8, <1>9, <1>10, <1>11
  DEF Next, Environment
-----------------------------------------------------------------------------
(* The runs. *)

RunsTyped == \A r \in Requests : IsRun(work[r]) => RunTyped(work[r])

LEMMA OneRunTyped ==
    ASSUME Typed, NEW r \in Requests,
           \A o \in Requests \ {r} : work'[o] = work[o],
           IsRun(work'[r]) => RunTyped(work'[r])
    PROVE  RunsTyped'
<1>1. ASSUME NEW o \in Requests, IsRun(work'[o]) PROVE RunTyped(work'[o])
  BY <1>1 DEF Typed
<1> QED  BY <1>1 DEF RunsTyped, RunTyped, IsRun

LEMMA SameRunsTyped ==
    ASSUME Typed, work' = work
    PROVE  RunsTyped'
  BY DEF Typed, RunsTyped

(* A step of a run changes where it stands, and nothing else. *)
SameFields(v, w) ==
    /\ v.proc = w.proc /\ v.user = w.user /\ v.kind = w.kind
    /\ v.planned = w.planned /\ v.seen = w.seen /\ v.buf = w.buf

LEMMA StepFields ==
    ASSUME Typed, NEW r \in Requests, work[r].at \in Stages, NEW at \in Stages,
           Step(r, at)
    PROVE  /\ IsRun(work[r]) /\ IsRun(work'[r])
           /\ work'[r].at = at /\ SameFields(work[r], work'[r])
           /\ \A o \in Requests \ {r} : work'[o] = work[o]
<1>1. IsRun(work[r])  BY RunAt DEF Typed, Booked, Slotted
<1>2. /\ work'[r] = [work[r] EXCEPT !.at = at]
      /\ \A o \in Requests \ {r} : work'[o] = work[o]
  BY DEF Step, Typed, Booked, Slotted, WorkShape
<1>3. work'[r] = [at |-> at, proc |-> work[r].proc, user |-> work[r].user,
                  kind |-> work[r].kind, planned |-> work[r].planned,
                  seen |-> work[r].seen, buf |-> work[r].buf]
  BY <1>1, <1>2 DEF IsRun
<1>4. IsRun(work'[r])  BY <1>1, <1>3 DEF IsRun
<1> QED  BY <1>1, <1>2, <1>3, <1>4 DEF SameFields

LEMMA StepTyped ==
    ASSUME Typed, NEW r \in Requests, work[r].at \in Stages, NEW at \in Stages,
           Step(r, at),
           at \in {"gate", "limit"} => work[r].at \in {"gate", "limit"},
           work[r].at \in {"gate", "limit"} => at \in {"gate", "limit"},
           work[r].at \in Working => at \in Working
    PROVE  RunsTyped'
<1>1. /\ IsRun(work[r]) /\ work'[r].at = at /\ SameFields(work[r], work'[r])
      /\ \A o \in Requests \ {r} : work'[o] = work[o]
  BY StepFields
<1>2. RunTyped(work[r])  BY <1>1 DEF Typed
<1>3. RunTyped(work'[r])
  BY <1>1, <1>2 DEF RunTyped, SameFields, Working
<1> QED  BY <1>1, <1>3, OneRunTyped

LEMMA EndTyped ==
    ASSUME Typed, NEW r \in Requests, End(r)
    PROVE  RunsTyped'
<1>1. work'[r] = Over /\ \A o \in Requests \ {r} : work'[o] = work[o]
  BY EndShape DEF Typed, Booked, Slotted
<1>2. ~IsRun(work'[r])  BY <1>1 DEF IsRun, Stages, Over
<1> QED  BY <1>1, <1>2, OneRunTyped

LEMMA SubmitTyped ==
    ASSUME Typed, NEW r \in Requests, NEW p, NEW u, NEW kind, Submit(r, p, u, kind)
    PROVE  RunsTyped'
<1> DEFINE w == [at |-> "gate", proc |-> p, user |-> u, kind |-> kind, planned |-> 0,
                 seen |-> {}, buf |-> [ns \in Namespaces |-> <<>>]]
<1>1. /\ work'[r] = w \/ work'[r] = Over
      /\ \A o \in Requests \ {r} : work'[o] = work[o]
  BY DEF Submit, Typed, Booked, Slotted, WorkShape
<1>2. RunTyped(w)
  <2>1. Cardinality({}) = 0  BY FS_EmptySet
  <2>2. <<>> \in Seq(Entry) /\ Len(<<>>) = 0  OBVIOUS
  <2>3. 0 <= ChunkSize  BY RepairAssumption DEF RepairAssumption
  <2>4. \A ns \in Namespaces : w.buf[ns] = <<>>  OBVIOUS
  <2>5. w.buf \in [Namespaces -> Seq(Entry)]  BY <2>2
  <2> QED  BY <2>1, <2>2, <2>3, <2>4, <2>5 DEF RunTyped
<1>3. ~IsRun(Over)  BY DEF IsRun, Stages, Over
<1> HIDE DEF w
<1> QED  BY <1>1, <1>2, <1>3, OneRunTyped

LEMMA GateFields ==
    ASSUME Typed, NEW r \in Requests, Gate(r)
    PROVE  /\ IsRun(work[r]) /\ work[r].at = "gate"
           /\ work'[r].at \in {"limit", "create"}
           /\ work'[r].planned \in Nat
           /\ work'[r].at = "create" => work'[r].planned <= Limit(work[r].user)
           /\ work'[r].proc = work[r].proc /\ work'[r].user = work[r].user
           /\ work'[r].kind = work[r].kind
           /\ work'[r].seen = work[r].seen /\ work'[r].buf = work[r].buf
           /\ \A o \in Requests \ {r} : work'[o] = work[o]
<1> DEFINE planned == IF work[r].kind = "page" THEN 1 ELSE 1 + descendants
           at == IF planned > Limit(work[r].user) THEN "limit" ELSE "create"
<1>1. work[r].at = "gate"  BY DEF Gate
<1>2. IsRun(work[r])  BY <1>1, RunAt DEF Typed, Booked, Slotted, Stages
<1>3. /\ work'[r] = [[work[r] EXCEPT !.at = at] EXCEPT !.planned = planned]
      /\ \A o \in Requests \ {r} : work'[o] = work[o]
  BY DEF Gate, Limit, Typed, Booked, Slotted, WorkShape
<1>4. [work[r] EXCEPT !.at = at]
        = [at |-> at, proc |-> work[r].proc, user |-> work[r].user,
           kind |-> work[r].kind, planned |-> work[r].planned,
           seen |-> work[r].seen, buf |-> work[r].buf]
  BY <1>2 DEF IsRun
<1>5. work'[r] = [at |-> at, proc |-> work[r].proc, user |-> work[r].user,
                  kind |-> work[r].kind, planned |-> planned,
                  seen |-> work[r].seen, buf |-> work[r].buf]
  BY <1>3, <1>4
<1>6. planned \in Nat /\ Limit(work[r].user) \in Nat
  BY RepairAssumption DEF Typed, RepairAssumption, Limit
<1>7. at \in {"limit", "create"} /\ (at = "create" => planned <= Limit(work[r].user))
  BY <1>6
<1> HIDE DEF at, planned
<1> QED  BY <1>1, <1>2, <1>3, <1>5, <1>6, <1>7

LEMMA GateTyped ==
    ASSUME Typed, NEW r \in Requests, Gate(r)
    PROVE  RunsTyped'
<1>1. RunTyped(work[r])  BY GateFields DEF Typed
<1>2. work[r].at = "gate" /\ work[r].seen = {}  BY <1>1, GateFields DEF RunTyped
<1>3. Cardinality({}) = 0  BY FS_EmptySet
<1>4. work'[r].seen = work[r].seen /\ work'[r].buf = work[r].buf  BY GateFields
<1>5. /\ work'[r].at \in {"limit", "create"} /\ work'[r].planned \in Nat
      /\ work'[r].user = work[r].user
      /\ work'[r].at = "create" => work'[r].planned <= Limit(work[r].user)
  BY GateFields
<1>6. \A ns \in Namespaces : work[r].buf[ns] = <<>>  BY <1>1, <1>2 DEF RunTyped
<1>7. /\ work'[r].seen \subseteq Pages
      /\ work'[r].buf \in [Namespaces -> Seq(Entry)]
      /\ \A ns \in Namespaces : Len(work'[r].buf[ns]) <= ChunkSize
  BY <1>1, <1>4 DEF RunTyped
<1>8. Cardinality(work'[r].seen) <= work'[r].planned
  <2>1. Cardinality(work'[r].seen) = 0  BY <1>2, <1>3, <1>4
  <2>2. work'[r].planned \in Nat  BY <1>5
  <2> QED  BY <2>1, <2>2
<1>9. work'[r].seen = {} /\ \A ns \in Namespaces : work'[r].buf[ns] = <<>>
  BY <1>2, <1>4, <1>6
<1>10. work'[r].at \notin {"gate", "limit"} => work'[r].planned <= Limit(work'[r].user)
  BY <1>5
<1>11. RunTyped(work'[r])  BY <1>5, <1>7, <1>8, <1>9, <1>10 DEF RunTyped
<1> QED  BY <1>11, GateFields, OneRunTyped

LEMMA StreamPageFields ==
    ASSUME Typed, NEW r \in Requests, NEW q \in Pages, StreamPage(r, q)
    PROVE  /\ IsRun(work[r]) /\ work[r].at = "stream" /\ work'[r].at = "stream"
           /\ work'[r].proc = work[r].proc /\ work'[r].user = work[r].user
           /\ work'[r].kind = work[r].kind /\ work'[r].planned = work[r].planned
           /\ work'[r].seen = work[r].seen \cup {q}
           /\ work'[r].buf = [ns \in Namespaces |->
                 IF ns \in pages[q].grant
                 THEN Append(work[r].buf[ns], [page |-> q, rev |-> pages[q].rev])
                 ELSE work[r].buf[ns]]
           /\ \A o \in Requests \ {r} : work'[o] = work[o]
<1> DEFINE seen == work[r].seen \cup {q}
           buf == [ns \in Namespaces |->
                     IF ns \in pages[q].grant
                     THEN Append(work[r].buf[ns], [page |-> q, rev |-> pages[q].rev])
                     ELSE work[r].buf[ns]]
<1>1. work[r].at = "stream"  BY DEF StreamPage
<1>2. IsRun(work[r])  BY <1>1, RunAt DEF Typed, Booked, Slotted, Stages
<1>3. work' = [work EXCEPT ![r].seen = seen, ![r].buf = buf]  BY DEF StreamPage
<1> HIDE DEF seen, buf
<1>4. /\ work'[r] = [[work[r] EXCEPT !.seen = seen] EXCEPT !.buf = buf]
      /\ \A o \in Requests \ {r} : work'[o] = work[o]
  BY <1>3 DEF Typed, Booked, Slotted, WorkShape
<1>5. [work[r] EXCEPT !.seen = seen]
        = [at |-> work[r].at, proc |-> work[r].proc, user |-> work[r].user,
           kind |-> work[r].kind, planned |-> work[r].planned,
           seen |-> seen, buf |-> work[r].buf]
  BY <1>2 DEF IsRun
<1>6. work'[r] = [at |-> work[r].at, proc |-> work[r].proc, user |-> work[r].user,
                  kind |-> work[r].kind, planned |-> work[r].planned,
                  seen |-> seen, buf |-> buf]
  BY <1>4, <1>5
<1> QED  BY <1>1, <1>2, <1>4, <1>6 DEF seen, buf

LEMMA StreamPageTyped ==
    ASSUME Typed, NEW r \in Requests, NEW q \in Pages, StreamPage(r, q)
    PROVE  RunsTyped'
<1> DEFINE entry == [page |-> q, rev |-> pages[q].rev]
<1>1. RunTyped(work[r])  BY StreamPageFields DEF Typed
<1>2. /\ Cardinality(work[r].seen) < work[r].planned /\ FullBuffers(r) = {}
      /\ q \notin work[r].seen
  BY DEF StreamPage, Unread
<1>3. Cardinality(work'[r].seen) <= work'[r].planned
  <2>1. IsFiniteSet(work[r].seen)
    BY <1>1, RepairAssumption, FS_Subset DEF RunTyped, RepairAssumption
  <2>2. Cardinality(work'[r].seen) = Cardinality(work[r].seen) + 1
    BY <1>2, <2>1, StreamPageFields, OneMore
  <2>3. Cardinality(work[r].seen) \in Nat  BY <2>1, FS_CardinalityType
  <2>4. work'[r].planned = work[r].planned  BY StreamPageFields
  <2>5. work[r].planned \in Nat  BY <1>1 DEF RunTyped
  <2> QED  BY <1>2, <2>2, <2>3, <2>4, <2>5
<1>4. entry \in Entry  BY DEF Entry, Typed, DocTyped
<1>5. ASSUME NEW ns \in Namespaces
      PROVE  work'[r].buf[ns] \in Seq(Entry) /\ Len(work'[r].buf[ns]) <= ChunkSize
  <2>1. work[r].buf[ns] \in Seq(Entry) /\ Len(work[r].buf[ns]) < ChunkSize
    <3>1. work[r].buf[ns] \in Seq(Entry)  BY <1>1 DEF RunTyped
    <3>2. Len(work[r].buf[ns]) \in Nat  BY <3>1
    <3>3. ChunkSize \in Nat  BY RepairAssumption DEF RepairAssumption
    <3>4. ~(Len(work[r].buf[ns]) >= ChunkSize)  BY <1>2 DEF FullBuffers
    <3> QED  BY <3>1, <3>2, <3>3, <3>4
  <2>2. ChunkSize \in Nat  BY RepairAssumption DEF RepairAssumption
  <2> HIDE DEF entry
  <2>3. /\ Append(work[r].buf[ns], entry) \in Seq(Entry)
        /\ Len(Append(work[r].buf[ns], entry)) = Len(work[r].buf[ns]) + 1
    BY <1>4, <2>1, AppendProperties
  <2>4. Len(work[r].buf[ns]) \in Nat  BY <2>1
  <2>5. Len(Append(work[r].buf[ns], entry)) <= ChunkSize  BY <2>1, <2>2, <2>3, <2>4
  <2>6. \/ work'[r].buf[ns] = Append(work[r].buf[ns], entry)
        \/ work'[r].buf[ns] = work[r].buf[ns]
    <3>1. work'[r].buf = [g \in Namespaces |->
                            IF g \in pages[q].grant
                            THEN Append(work[r].buf[g], [page |-> q, rev |-> pages[q].rev])
                            ELSE work[r].buf[g]]
      BY StreamPageFields
    <3>2. work'[r].buf[ns] = IF ns \in pages[q].grant
                             THEN Append(work[r].buf[ns], [page |-> q, rev |-> pages[q].rev])
                             ELSE work[r].buf[ns]
      BY <3>1
    <3> QED  BY <3>2 DEF entry
  <2>7. Len(work[r].buf[ns]) <= ChunkSize  BY <2>1, <2>2, <2>4
  <2>8. CASE work'[r].buf[ns] = Append(work[r].buf[ns], entry)  BY <2>3, <2>5, <2>8
  <2>9. CASE work'[r].buf[ns] = work[r].buf[ns]  BY <2>1, <2>7, <2>9
  <2> QED  BY <2>6, <2>8, <2>9
<1>6. work'[r].buf \in [Namespaces -> Seq(Entry)]
  <2>1. work'[r].buf = [ns \in Namespaces |-> work'[r].buf[ns]]  BY StreamPageFields
  <2> QED  BY <1>5, <2>1
<1>7. RunTyped(work'[r])
  BY <1>1, <1>3, <1>5, <1>6, StreamPageFields DEF RunTyped
<1> QED  BY <1>7, StreamPageFields, OneRunTyped

LEMMA FlushFields ==
    ASSUME Typed, NEW r \in Requests, NEW ns \in Namespaces, Flush(r, ns)
    PROVE  /\ IsRun(work[r]) /\ work[r].at \in {"stream", "drain"}
           /\ work'[r].at = work[r].at
           /\ work'[r].proc = work[r].proc /\ work'[r].user = work[r].user
           /\ work'[r].kind = work[r].kind /\ work'[r].planned = work[r].planned
           /\ work'[r].seen = work[r].seen
           /\ work'[r].buf = [work[r].buf EXCEPT ![ns] = <<>>]
           /\ \A o \in Requests \ {r} : work'[o] = work[o]
<1> DEFINE buf == [work[r].buf EXCEPT ![ns] = <<>>]
<1>1. work[r].at \in {"stream", "drain"}  BY DEF Flush
<1>2. IsRun(work[r])  BY <1>1, RunAt DEF Typed, Booked, Slotted, Stages
<1>3. /\ work'[r] = [work[r] EXCEPT !.buf = buf]
      /\ \A o \in Requests \ {r} : work'[o] = work[o]
  BY DEF Flush, Typed, Booked, Slotted, WorkShape
<1> HIDE DEF buf
<1>4. work'[r] = [at |-> work[r].at, proc |-> work[r].proc, user |-> work[r].user,
                  kind |-> work[r].kind, planned |-> work[r].planned,
                  seen |-> work[r].seen, buf |-> buf]
  BY <1>2, <1>3 DEF IsRun
<1> QED  BY <1>1, <1>2, <1>3, <1>4 DEF buf

LEMMA FlushTyped ==
    ASSUME Typed, NEW r \in Requests, NEW ns \in Namespaces, Flush(r, ns)
    PROVE  RunsTyped'
<1>1. RunTyped(work[r])  BY FlushFields DEF Typed
<1>2. <<>> \in Seq(Entry) /\ Len(<<>>) = 0  OBVIOUS
<1>3. 0 <= ChunkSize  BY RepairAssumption DEF RepairAssumption
<1>4. /\ work'[r].buf \in [Namespaces -> Seq(Entry)]
      /\ \A g \in Namespaces : Len(work'[r].buf[g]) <= ChunkSize
  <2>1. work'[r].buf = [work[r].buf EXCEPT ![ns] = <<>>]  BY FlushFields
  <2>2. /\ work[r].buf \in [Namespaces -> Seq(Entry)]
        /\ \A g \in Namespaces : Len(work[r].buf[g]) <= ChunkSize
    BY <1>1 DEF RunTyped
  <2>3. work'[r].buf \in [Namespaces -> Seq(Entry)]  BY <1>2, <2>1, <2>2
  <2>4. ASSUME NEW g \in Namespaces  PROVE Len(work'[r].buf[g]) <= ChunkSize
    <3>1. CASE g = ns
      <4>1. Len(work'[r].buf[g]) = 0  BY <1>2, <2>1, <2>2, <3>1
      <4> QED  BY <1>3, <4>1
    <3>2. CASE g # ns
      <4>1. work'[r].buf[g] = work[r].buf[g]  BY <2>1, <2>2, <3>2
      <4> QED  BY <2>2, <4>1
    <3> QED  BY <3>1, <3>2
  <2> QED  BY <2>3, <2>4
<1>5. RunTyped(work'[r])  BY <1>1, <1>4, FlushFields DEF RunTyped
<1> QED  BY <1>5, FlushFields, OneRunTyped

LEMMA RunStepTyped ==
    ASSUME Typed, NEW r \in Requests, Run(r)
    PROVE  RunsTyped'
<1>1. CASE Gate(r)  BY <1>1, GateTyped
<1>2. CASE LogOverLimit(r) \/ LogRefused(r) \/ LogCompleted(r) \/ LogFailed(r)
  BY <1>2, EndTyped DEF LogOverLimit, LogRefused, LogCompleted, LogFailed
<1>3. CASE LogPending(r)
  <2>1. work[r].at = "create" /\ (Step(r, "queued") \/ Step(r, "refused"))
    BY <1>3 DEF LogPending
  <2> QED  BY <2>1, StepTyped DEF Stages, Working
<1>4. CASE LogRunning(r)  BY <1>4, StepTyped DEF LogRunning, Stages, Working
<1>5. CASE StreamOverCap(r) \/ StreamEnds(r)
  BY <1>5, StepTyped DEF StreamOverCap, StreamEnds, Stages, Working
<1>6. ASSUME NEW q \in Pages, StreamPage(r, q)  PROVE RunsTyped'
  BY <1>6, StreamPageTyped
<1>7. ASSUME NEW ns \in Namespaces, Flush(r, ns)  PROVE RunsTyped'  BY <1>7, FlushTyped
<1>8. CASE AwaitFails(r)
  <2>1. \/ work[r].at \in {"stream", "drain", "cap"} /\ Step(r, "catch")
        \/ End(r)
    BY <1>8 DEF AwaitFails
  <2> QED  BY <2>1, EndTyped, StepTyped DEF Stages, Working
<1> QED  BY <1>1, <1>2, <1>3, <1>4, <1>5, <1>6, <1>7, <1>8 DEF Run

-----------------------------------------------------------------------------
(* What the vault holds. *)

VaultShape ==
    /\ vault = [ns \in Namespaces |-> vault[ns]]
    /\ \A ns \in Namespaces : vault[ns] = [q \in Pages |-> vault[ns][q]]

(* What a step makes of the file of a page in a namespace. *)
LEMMA LandVault ==
    ASSUME Typed, NEW q \in Pages, Land(q)
    PROVE  /\ VaultShape'
           /\ \A ns \in Namespaces, p \in Pages :
                 \/ vault'[ns][p] = vault[ns][p]
                 \/ p = q /\ vault'[ns][p] = saving[q].rev
<1>1. CASE vault' = vault  BY <1>1 DEF Typed, VaultShape
<1>2. CASE vault' = [ns \in Namespaces |->
                IF ns \in saving[q].grant
                THEN [vault[ns] EXCEPT ![q] = saving[q].rev] ELSE vault[ns]]
  <2>1. ASSUME NEW ns \in Namespaces
        PROVE  /\ vault'[ns] = [p \in Pages |-> vault'[ns][p]]
               /\ \A p \in Pages : \/ vault'[ns][p] = vault[ns][p]
                                   \/ p = q /\ vault'[ns][p] = saving[q].rev
    <3>1. vault[ns] = [p \in Pages |-> vault[ns][p]]  BY DEF Typed
    <3>2. CASE vault'[ns] = vault[ns]  BY <3>1, <3>2
    <3>3. CASE vault'[ns] = [vault[ns] EXCEPT ![q] = saving[q].rev]
      BY <3>1, <3>3
    <3>4. vault'[ns] = IF ns \in saving[q].grant
                       THEN [vault[ns] EXCEPT ![q] = saving[q].rev] ELSE vault[ns]
      BY <1>2
    <3> QED  BY <3>2, <3>3, <3>4
  <2>2. vault' = [ns \in Namespaces |-> vault'[ns]]  BY <1>2
  <2> QED  BY <2>1, <2>2 DEF VaultShape
<1> QED  BY <1>1, <1>2 DEF Land

LEMMA FlushVault ==
    ASSUME Typed, NEW r \in Requests, NEW ns \in Namespaces, Flush(r, ns)
    PROVE  /\ VaultShape'
           /\ \A g \in Namespaces \ {ns} : vault'[g] = vault[g]
           /\ \A q \in Pages :
                 \/ /\ vault'[ns][q] = vault[ns][q]
                    /\ \A k \in DOMAIN work[r].buf[ns] : work[r].buf[ns][k].page # q
                 \/ \E k \in DOMAIN work[r].buf[ns] :
                       /\ work[r].buf[ns][k].page = q
                       /\ vault'[ns][q] = work[r].buf[ns][k].rev
<1> DEFINE ks(q) == {k \in DOMAIN work[r].buf[ns] : work[r].buf[ns][k].page = q}
           files == [q \in Pages |-> IF ks(q) = {} THEN vault[ns][q]
                       ELSE work[r].buf[ns][CHOOSE k \in ks(q) : TRUE].rev]
<1>1. vault' = [vault EXCEPT ![ns] = files]  BY DEF Flush, Written
<1>2. \A q \in Pages : files[q] = IF ks(q) = {} THEN vault[ns][q]
                       ELSE work[r].buf[ns][CHOOSE k \in ks(q) : TRUE].rev
  OBVIOUS
<1>3. files = [q \in Pages |-> files[q]]  OBVIOUS
<1> HIDE DEF files, ks
<1>4. vault'[ns] = files /\ \A g \in Namespaces \ {ns} : vault'[g] = vault[g]
  BY <1>1 DEF Typed
<1>5. vault' = [g \in Namespaces |-> vault'[g]]  BY <1>1 DEF Typed
<1>6. \A g \in Namespaces : vault'[g] = [q \in Pages |-> vault'[g][q]]
  <2> SUFFICES ASSUME NEW g \in Namespaces
               PROVE  vault'[g] = [q \in Pages |-> vault'[g][q]]
    OBVIOUS
  <2>1. CASE g = ns  BY <1>3, <1>4, <2>1
  <2>2. CASE g # ns  BY <1>4, <2>2 DEF Typed
  <2> QED  BY <2>1, <2>2
<1>7. ASSUME NEW q \in Pages
      PROVE  \/ vault'[ns][q] = vault[ns][q] /\ ks(q) = {}
             \/ \E k \in ks(q) : vault'[ns][q] = work[r].buf[ns][k].rev
  <2>1. CASE ks(q) = {}  BY <1>2, <1>4, <2>1
  <2>2. CASE ks(q) # {}
    <3>1. (CHOOSE k \in ks(q) : TRUE) \in ks(q)  BY <2>2
    <3> QED  BY <1>2, <1>4, <2>2, <3>1
  <2> QED  BY <2>1, <2>2
<1>8. ASSUME NEW q \in Pages
      PROVE  \/ /\ vault'[ns][q] = vault[ns][q]
                /\ \A k \in DOMAIN work[r].buf[ns] : work[r].buf[ns][k].page # q
             \/ \E k \in DOMAIN work[r].buf[ns] :
                   /\ work[r].buf[ns][k].page = q
                   /\ vault'[ns][q] = work[r].buf[ns][k].rev
  BY <1>7 DEF ks
<1> QED  BY <1>4, <1>5, <1>6, <1>8 DEF VaultShape

LEMMA SweptVault ==
    ASSUME Typed, NEW s \in Sweeps, NEW x, WriteSwept(s, x)
    PROVE  /\ VaultShape'
           /\ \A ns \in Namespaces, q \in Pages :
                 (q # x[1][1] \/ ns # x[2]) => vault'[ns][q] = vault[ns][q]
<1> DEFINE page == x[1][1]
<1>1. vault' = [vault EXCEPT ![x[2]] = [vault[x[2]] EXCEPT ![page] = NoRevision]]
  BY DEF WriteSwept
<1>2. vault' = [ns \in Namespaces |-> vault'[ns]]  BY <1>1 DEF Typed
<1>3. ASSUME NEW ns \in Namespaces
      PROVE  /\ vault'[ns] = [q \in Pages |-> vault'[ns][q]]
             /\ \A q \in Pages : (q # page \/ ns # x[2]) => vault'[ns][q] = vault[ns][q]
  <2>1. vault[ns] = [q \in Pages |-> vault[ns][q]]  BY DEF Typed
  <2>2. CASE ns # x[2]
    <3>1. vault'[ns] = vault[ns]  BY <1>1, <2>2 DEF Typed
    <3> QED  BY <2>1, <3>1
  <2>3. CASE ns = x[2]
    <3>1. vault'[ns] = [vault[ns] EXCEPT ![page] = NoRevision]  BY <1>1, <2>3 DEF Typed
    <3> QED  BY <2>1, <2>3, <3>1
  <2> QED  BY <2>2, <2>3
<1> QED  BY <1>2, <1>3 DEF VaultShape

LEMMA VaultTyped ==
    ASSUME Typed, [Next]_vars
    PROVE  VaultShape'
<1>1. CASE vault' = vault  BY <1>1 DEF Typed, VaultShape
<1>2. ASSUME NEW q \in Pages, Land(q)  PROVE VaultShape'  BY <1>2, LandVault
<1>3. CASE Reconcile
  <2>1. \/ vault' = vault
        \/ \E r \in Requests, ns \in Namespaces : Flush(r, ns)
    BY <1>3
    DEF Reconcile, Run, Gate, LogOverLimit, LogPending, LogRefused, LogRunning, StreamPage,
        StreamOverCap, StreamEnds, LogCompleted, LogFailed, AwaitFails
  <2> QED  BY <1>1, <2>1, FlushVault
<1>4. CASE Drift
  <2>1. \/ vault' = vault
        \/ \E s \in Sweeps : \E x : WriteSwept(s, x)
    BY <1>4 DEF Drift, Query, SaveWatermark, SweepFails
  <2> QED  BY <1>1, <2>1, SweptVault
<1>5. CASE Environment
  BY <1>1, <1>2, <1>5 DEF Environment, Save, CountDescendants, BootstrapChanges
<1>6. \A p : Crash(p) \/ Boot(p) => vault' = vault  BY DEF Crash, Boot
<1>7. \A r, p, u, kind : Submit(r, p, u, kind) => vault' = vault  BY DEF Submit
<1>8. \A s, p : Tick(s, p) => vault' = vault  BY DEF Tick
<1>9. UNCHANGED vars => vault' = vault  BY DEF vars
<1> QED  BY <1>1, <1>3, <1>4, <1>5, <1>6, <1>7, <1>8, <1>9 DEF Next

LEMMA NextRunsTyped ==
    ASSUME Typed, [Next]_vars
    PROVE  RunsTyped'
<1>1. CASE work' = work  BY <1>1, SameRunsTyped
<1>2. CASE Reconcile  BY <1>2, RunStepTyped DEF Reconcile
<1>3. ASSUME NEW p, Crash(p)  PROVE RunsTyped'
  <2>1. ASSUME NEW r \in Requests, IsRun(work'[r])  PROVE RunTyped(work'[r])
    <3>1. work'[r] = Over \/ work'[r] = work[r]  BY <1>3 DEF Crash
    <3>2. ~IsRun(Over)  BY DEF IsRun, Stages, Over
    <3>3. work'[r] = work[r]  BY <2>1, <3>1, <3>2
    <3> QED  BY <2>1, <3>3 DEF Typed
  <2> QED  BY <2>1 DEF RunsTyped, RunTyped, IsRun
<1>4. ASSUME NEW r \in Requests, NEW p, NEW u, NEW kind, Submit(r, p, u, kind)
      PROVE  RunsTyped'
  BY <1>4, SubmitTyped
<1>5. Environment => work' = work
  BY DEF Environment, Save, Land, CountDescendants, BootstrapChanges
<1>6. Drift => work' = work
  BY DEF Drift, Query, WriteSwept, SaveWatermark, SweepFails, SweepElsewhere
<1>7. \A s, p : Tick(s, p) => work' = work  BY DEF Tick, SweepElsewhere
<1>8. \A p : Boot(p) => work' = work  BY DEF Boot
<1>9. UNCHANGED vars => work' = work  BY DEF vars
<1> QED  BY <1>1, <1>2, <1>3, <1>4, <1>5, <1>6, <1>7, <1>8, <1>9 DEF Next

LEMMA InitTyped ==
    ASSUME Init
    PROVE  Typed
<1>1. Booked /\ Swept  BY InitBooked, InitSwept
<1>2. descendants \in Nat  BY DEF Init
<1>3. \A q \in Pages : DocTyped(pages[q]) /\ DocTyped(saving[q])
  BY DEF Init, DocTyped, Absent, None, NoRevision
<1>4. \A r \in Requests : ~IsRun(work[r])  BY DEF Init, Idle, IsRun, Stages
<1>5. \A r \in Requests : log[r] = "none"  BY DEF Init
<1>6. VaultShape  BY DEF Init, VaultShape
<1> QED  BY <1>1, <1>2, <1>3, <1>4, <1>5, <1>6 DEF Typed, VaultShape

LEMMA NextTyped ==
    ASSUME Typed, [Next]_vars
    PROVE  Typed'
<1>1. Booked' /\ Swept'  BY NextBooked, NextSwept DEF Typed
<1>2. \A r \in Requests : log'[r] \in {"none"} \cup Open \cup Terminal  BY LogTyped
<1>3. /\ descendants' \in Nat
      /\ \A q \in Pages : DocTyped(pages'[q]) /\ DocTyped(saving'[q])
  BY DocsTyped
<1>4. RunsTyped'  BY NextRunsTyped
<1>5. VaultShape'  BY VaultTyped
<1> QED  BY <1>1, <1>2, <1>3, <1>4, <1>5 DEF Typed, RunsTyped, VaultShape, DocTyped

(* The types, and with them the caps of a run: it has never read more pages  *)
(* than it has planned, it has planned no more than its role allows, and no  *)
(* buffer holds more than a chunk; the watermark stays behind the saves.     *)
THEOREM TypesHold == Spec => []TypeOK
<1>1. Init => Typed  BY InitTyped
<1>2. Typed /\ [Next]_vars => Typed'  BY NextTyped
<1>3. Typed => TypeOK
  <2> SUFFICES ASSUME Typed PROVE TypeOK  OBVIOUS
  <2>1. DOMAIN vault = Namespaces  BY DEF Typed
  <2>2. ASSUME NEW r \in Requests, Holding(r)
        PROVE  /\ Cardinality(work[r].seen) <= work[r].planned
               /\ work[r].planned <=
                     IF work[r].user \in Admins THEN AdminLimit ELSE UserLimit
               /\ \A ns \in Namespaces : Len(work[r].buf[ns]) <= ChunkSize
    <3>1. work[r].at \in Stages \ {"gate", "limit"}
      BY <2>2 DEF Holding, Stages
    <3>2. IsRun(work[r])  BY <3>1, RunAt DEF Typed, Booked, Slotted
    <3>3. RunTyped(work[r])  BY <3>2 DEF Typed
    <3> QED  BY <3>1, <3>3 DEF RunTyped, Limit
  <2>3. watermark \in 0 .. clock
    <3>1. /\ clock \in Nat /\ history.queried \in 0 .. clock
          /\ watermark \in 0 .. history.queried
      BY DEF Typed, Swept, Clocked
    <3> QED  BY <3>1
  <2>4. \A r \in Requests : log[r] \in {"none"} \cup Open \cup Terminal  BY DEF Typed
  <2> QED  BY <2>1, <2>2, <2>3, <2>4 DEF TypeOK
<1> QED  BY <1>1, <1>2, <1>3, PTL DEF Spec

-----------------------------------------------------------------------------
(* What a completed run has repaired.                                        *)

Active == {"stream", "drain"}

Shown(x) == vault[x[2]][x[1]] = pages[x[1]].rev

Carried(r, x) ==
    \E k \in DOMAIN work[r].buf[x[2]] : work[r].buf[x[2]][k].page = x[1]

(* x is a page and one of its namespaces; no run carries the page in a       *)
(* revision that it no longer has.                                           *)
Clean(x) ==
    /\ x = <<x[1], x[2]>>
    /\ x[1] \in Pages /\ x[2] \in pages[x[1]].grant
    /\ \A o \in Requests : ~Stale(o, x[1])

(* A run still has to read the page, or has it in a buffer, or has written it. *)
OnCourse(r, x) ==
    /\ x[1] \in Eligible(r)
    /\ x[1] \in work[r].seen => Shown(x) \/ Carried(r, x)
    /\ work[r].at = "drain" => x[1] \in work[r].seen

MarksClean ==
    /\ history.steady = [r \in Requests |-> history.steady[r]]
    /\ \A r \in Requests : work[r].at \in Active =>
          \A x \in history.steady[r] : Clean(x) /\ OnCourse(r, x)
    /\ \A x \in history.repaired : Clean(x) /\ Shown(x)

(* The inductive invariant. *)
Mirrored == Typed /\ MarksClean

(* A page stays clean unless somebody gets an older revision of it.          *)
LEMMA CleanStays ==
    ASSUME NEW x, Clean(x), pages'[x[1]] = pages[x[1]],
           \A o \in Requests : ~Stale(o, x[1])'
    PROVE  Clean(x)'
  BY DEF Clean

LEMMA NotStaler ==
    ASSUME NEW o \in Requests, NEW q, ~Stale(o, q), pages'[q] = pages[q],
           work'[o] = work[o]
    PROVE  ~Stale(o, q)'
  BY DEF Stale

LEMMA InactiveIsClean ==
    ASSUME NEW o \in Requests, NEW q, work'[o].at \notin Active
    PROVE  ~Stale(o, q)'
  BY DEF Stale, Active

LEMMA StaysOnCourse ==
    ASSUME NEW r \in Requests, NEW x, OnCourse(r, x), x[1] \in Pages,
           work'[r] = work[r], pages'[x[1]] = pages[x[1]],
           Shown(x) => Shown(x)'
    PROVE  OnCourse(r, x)'
<1>1. x[1] \in Eligible(r)'  BY DEF OnCourse, Eligible
<1>2. Carried(r, x)' <=> Carried(r, x)  BY DEF Carried
<1> QED  BY <1>1, <1>2 DEF OnCourse

(* Nothing changes but where some runs stand, and these are not active.      *)
LEMMA OthersGoOn ==
    ASSUME Mirrored, pages' = pages, vault' = vault,
           \A o \in Requests : work'[o] = work[o] \/ work'[o].at \notin Active,
           history'.steady = [o \in Requests |-> history'.steady[o]],
           \A o \in Requests : history'.steady[o] \subseteq history.steady[o],
           history'.repaired \subseteq history.repaired
    PROVE  MarksClean'
<1>1. ASSUME NEW x, Clean(x)  PROVE Clean(x)'
  <2>1. ASSUME NEW o \in Requests  PROVE ~Stale(o, x[1])'
    <3>1. CASE work'[o] = work[o]  BY <1>1, <3>1, NotStaler DEF Clean
    <3>2. CASE work'[o].at \notin Active  BY <3>2, InactiveIsClean
    <3> QED  BY <3>1, <3>2
  <2> QED  BY <1>1, <2>1, CleanStays
<1>2. ASSUME NEW x, Shown(x)  PROVE Shown(x)'  BY <1>2 DEF Shown
<1>3. ASSUME NEW r \in Requests, work'[r].at \in Active, NEW x \in history'.steady[r]
      PROVE  Clean(x)' /\ OnCourse(r, x)'
  <2>1. work'[r] = work[r] /\ x \in history.steady[r]  BY <1>3
  <2>2. Clean(x) /\ OnCourse(r, x)  BY <1>3, <2>1 DEF Mirrored, MarksClean
  <2>3. x[1] \in Pages  BY <2>2 DEF Clean
  <2>4. OnCourse(r, x)'  BY <1>2, <2>1, <2>2, <2>3, StaysOnCourse
  <2> QED  BY <1>1, <2>2, <2>4
<1>4. ASSUME NEW x \in history'.repaired  PROVE Clean(x)' /\ Shown(x)'
  BY <1>1, <1>2, <1>4 DEF Mirrored, MarksClean
<1> QED  BY <1>3, <1>4 DEF MarksClean

(* The pages of some marks, and their files, stay as they are while all runs *)
(* stand still.                                                              *)
LEMMA MarksKept ==
    ASSUME Mirrored, work' = work,
           history'.steady = [o \in Requests |-> history'.steady[o]],
           \A o \in Requests : history'.steady[o] \subseteq history.steady[o],
           history'.repaired \subseteq history.repaired,
           \A x \in history'.repaired \cup UNION {history'.steady[o] : o \in Requests} :
              Clean(x) => /\ pages'[x[1]] = pages[x[1]]
                          /\ vault'[x[2]][x[1]] = vault[x[2]][x[1]]
    PROVE  MarksClean'
<1> DEFINE marks == history'.repaired \cup UNION {history'.steady[o] : o \in Requests}
<1>1. ASSUME NEW x \in marks, Clean(x)
      PROVE  /\ pages'[x[1]] = pages[x[1]] /\ x[1] \in Pages
             /\ Clean(x)' /\ (Shown(x) => Shown(x)')
  <2>1. /\ pages'[x[1]] = pages[x[1]] /\ x[1] \in Pages
        /\ vault'[x[2]][x[1]] = vault[x[2]][x[1]]
    BY <1>1 DEF Clean
  <2>2. \A o \in Requests : ~Stale(o, x[1])'
    BY <1>1, <2>1, NotStaler DEF Clean
  <2>3. Clean(x)'  BY <1>1, <2>1, <2>2, CleanStays
  <2> QED  BY <2>1, <2>3 DEF Shown
<1>2. ASSUME NEW r \in Requests, work'[r].at \in Active, NEW x \in history'.steady[r]
      PROVE  Clean(x)' /\ OnCourse(r, x)'
  <2>1. x \in history.steady[r] /\ x \in marks  BY <1>2
  <2>2. Clean(x) /\ OnCourse(r, x)  BY <1>2, <2>1 DEF Mirrored, MarksClean
  <2> HIDE DEF marks
  <2>3. /\ pages'[x[1]] = pages[x[1]] /\ x[1] \in Pages
        /\ Clean(x)' /\ (Shown(x) => Shown(x)')
    BY <1>1, <2>1, <2>2
  <2> QED  BY <2>2, <2>3, StaysOnCourse
<1>3. ASSUME NEW x \in history'.repaired  PROVE Clean(x)' /\ Shown(x)'
  <2>1. x \in marks /\ Clean(x) /\ Shown(x)  BY <1>3 DEF Mirrored, MarksClean
  <2> HIDE DEF marks
  <2> QED  BY <1>1, <2>1
<1> QED  BY <1>2, <1>3 DEF MarksClean

LEMMA LandMirrors ==
    ASSUME Mirrored, NEW q \in Pages, Land(q)
    PROVE  MarksClean'
<1> DEFINE steady == [r \in Requests |-> {x \in history.steady[r] : x[1] # q}]
           repaired == {x \in history.repaired : x[1] # q}
<1>1. PICK late : history' = [history EXCEPT
          !.steady = steady, !.repaired = repaired, !.late = late]
  BY DEF Land
<1>2. HistoryShape  BY DEF Mirrored, Typed, Swept
<1> HIDE DEF steady, repaired
<1>3. history'.steady = steady /\ history'.repaired = repaired
  BY <1>1, <1>2, LandKeepsMarks
<1>4. work' = work /\ pages' = [pages EXCEPT ![q] = saving[q]]  BY DEF Land
<1>5. ASSUME NEW x \in history'.repaired \cup UNION {history'.steady[o] : o \in Requests},
             Clean(x)
      PROVE  pages'[x[1]] = pages[x[1]] /\ vault'[x[2]][x[1]] = vault[x[2]][x[1]]
  <2>1. x[1] # q  BY <1>3 DEF steady, repaired
  <2>2. x[1] \in Pages /\ x[2] \in Namespaces
    BY <1>5 DEF Clean, Mirrored, Typed, DocTyped
  <2>3. pages'[x[1]] = pages[x[1]]
    BY <1>4, <2>1, <2>2 DEF Mirrored, Typed, Swept, Clocked
  <2>4. vault'[x[2]][x[1]] = vault[x[2]][x[1]]
    BY <2>1, <2>2, LandVault DEF Mirrored
  <2> QED  BY <2>3, <2>4
<1>6. /\ history'.steady = [o \in Requests |-> history'.steady[o]]
      /\ \A o \in Requests : history'.steady[o] \subseteq history.steady[o]
      /\ history'.repaired \subseteq history.repaired
  BY <1>3 DEF steady, repaired
<1> QED  BY <1>4, <1>5, <1>6, MarksKept

LEMMA WriteSweptMirrors ==
    ASSUME Mirrored, NEW s \in Sweeps, NEW x, WriteSwept(s, x)
    PROVE  MarksClean'
<1> DEFINE gone == <<x[1][1], x[2]>>
           steady == [r \in Requests |-> history.steady[r] \ {gone}]
           repaired == history.repaired \ {gone}
<1>1. history' = [history EXCEPT !.swept = history.swept \cup {x},
                                 !.steady = steady, !.repaired = repaired]
  BY DEF WriteSwept
<1>2. HistoryShape  BY DEF Mirrored, Typed, Swept
<1> HIDE DEF steady, repaired
<1>3. history'.steady = steady /\ history'.repaired = repaired
  BY <1>1, <1>2, SweepKeepsMarks
<1>4. work' = work /\ pages' = pages  BY DEF WriteSwept, SweepElsewhere, docs
<1>5. ASSUME NEW y \in history'.repaired \cup UNION {history'.steady[o] : o \in Requests},
             Clean(y)
      PROVE  pages'[y[1]] = pages[y[1]] /\ vault'[y[2]][y[1]] = vault[y[2]][y[1]]
  <2>1. y # gone  BY <1>3 DEF steady, repaired
  <2>2. y = <<y[1], y[2]>>  BY <1>5 DEF Clean
  <2>3. y[1] # x[1][1] \/ y[2] # x[2]  BY <2>1, <2>2
  <2>4. y[1] \in Pages /\ y[2] \in Namespaces
    BY <1>5 DEF Clean, Mirrored, Typed, DocTyped
  <2> QED  BY <1>4, <2>3, <2>4, SweptVault DEF Mirrored
<1>6. /\ history'.steady = [o \in Requests |-> history'.steady[o]]
      /\ \A o \in Requests : history'.steady[o] \subseteq history.steady[o]
      /\ history'.repaired \subseteq history.repaired
  BY <1>3 DEF steady, repaired
<1> QED  BY <1>4, <1>5, <1>6, MarksKept

(* History does not change, or only its other parts. *)
LEMMA QuietMirrors ==
    ASSUME Mirrored, pages' = pages, vault' = vault,
           history'.steady = history.steady, history'.repaired = history.repaired,
           \A o \in Requests : work'[o] = work[o] \/ work'[o].at \notin Active
    PROVE  MarksClean'
<1>1. history'.steady = [o \in Requests |-> history'.steady[o]]
  BY DEF Mirrored, MarksClean
<1> QED  BY <1>1, OthersGoOn

LEMMA SubmitMirrors ==
    ASSUME Mirrored, NEW r \in Requests, NEW p, NEW u, NEW kind, Submit(r, p, u, kind)
    PROVE  MarksClean'
<1>1. /\ pages' = pages /\ vault' = vault /\ history' = history
  BY DEF Submit, Elsewhere, docs
<1>2. /\ work'[r].at \in {"gate", "over"}
      /\ \A o \in Requests \ {r} : work'[o] = work[o]
  BY DEF Submit, Mirrored, Typed, Booked, Slotted, WorkShape, Over
<1> QED  BY <1>1, <1>2, QuietMirrors DEF Active

LEMMA CrashMirrors ==
    ASSUME Mirrored, NEW p, Crash(p)
    PROVE  MarksClean'
<1> DEFINE lost == {r \in Requests : work[r].at \notin {"idle", "over"} /\ work[r].proc = p}
           steady == [r \in Requests |-> IF r \in lost THEN {} ELSE history.steady[r]]
<1>1. history' = [history EXCEPT !.steady = steady,
                                 !.unrecorded = history.unrecorded \cup lost]
  BY DEF Crash
<1>2. HistoryShape  BY DEF Mirrored, Typed, Swept
<1>3. pages' = pages /\ vault' = vault  BY DEF Crash, docs
<1>4. \A o \in Requests : work'[o] = work[o] \/ work'[o] = Over  BY DEF Crash
<1>5. Over.at \notin Active  BY DEF Over, Active
<1>6. /\ steady = [o \in Requests |-> steady[o]]
      /\ \A o \in Requests : steady[o] \subseteq history.steady[o]
  OBVIOUS
<1> HIDE DEF lost, steady
<1>7. history'.steady = steady /\ history'.repaired = history.repaired
  BY <1>1, <1>2, UnrecordedGrows
<1> QED  BY <1>3, <1>4, <1>5, <1>6, <1>7, OthersGoOn

-----------------------------------------------------------------------------
(* The actions of a run that is active. *)

(* A run changes; it carries nothing that is stale, and keeps its own course. *)
LEMMA RunGoesOn ==
    ASSUME Mirrored, NEW r \in Requests, pages' = pages,
           \A o \in Requests \ {r} : work'[o] = work[o],
           \A q \in Pages : ~Stale(r, q) => ~Stale(r, q)',
           \A x : Clean(x) /\ Shown(x) => Shown(x)',
           history'.steady = [o \in Requests |-> history'.steady[o]],
           \A o \in Requests \ {r} : history'.steady[o] \subseteq history.steady[o],
           work'[r].at \in Active =>
              \A x \in history'.steady[r] : Clean(x) /\ OnCourse(r, x)',
           \A x \in history'.repaired : Clean(x) /\ Shown(x)
    PROVE  MarksClean'
<1>1. ASSUME NEW x, Clean(x)  PROVE Clean(x)'
  <2>1. ASSUME NEW o \in Requests  PROVE ~Stale(o, x[1])'
    <3>1. CASE o = r  BY <1>1, <3>1 DEF Clean
    <3>2. CASE o # r  BY <1>1, <3>2, NotStaler DEF Clean
    <3> QED  BY <3>1, <3>2
  <2> QED  BY <1>1, <2>1, CleanStays
<1>2. ASSUME NEW o \in Requests \ {r}, work'[o].at \in Active, NEW x \in history'.steady[o]
      PROVE  Clean(x)' /\ OnCourse(o, x)'
  <2>1. work'[o] = work[o] /\ x \in history.steady[o]  BY <1>2
  <2>2. Clean(x) /\ OnCourse(o, x)  BY <1>2, <2>1 DEF Mirrored, MarksClean
  <2>3. x[1] \in Pages  BY <2>2 DEF Clean
  <2> QED  BY <1>1, <2>1, <2>2, <2>3, StaysOnCourse
<1>3. ASSUME work'[r].at \in Active, NEW x \in history'.steady[r]
      PROVE  Clean(x)' /\ OnCourse(r, x)'
  BY <1>1, <1>3
<1>4. ASSUME NEW x \in history'.repaired  PROVE Clean(x)' /\ Shown(x)'
  BY <1>1, <1>4
<1> QED  BY <1>2, <1>3, <1>4 DEF MarksClean

LEMMA RunningMirrors ==
    ASSUME Mirrored, NEW r \in Requests, LogRunning(r)
    PROVE  MarksClean'
<1> DEFINE promised == UNION {{q} \X pages[q].grant :
                 q \in {x \in Eligible(r) : \A o \in Requests : ~Stale(o, x)}}
           steady == [history.steady EXCEPT ![r] = promised]
<1>1. /\ work[r].at = "queued" /\ Step(r, "stream") /\ vault' = vault /\ pages' = pages
      /\ history' = [history EXCEPT !.steady = steady]
  BY DEF LogRunning, Elsewhere, docs
<1>2. HistoryShape  BY DEF Mirrored, Typed, Swept
<1>3. /\ steady = [o \in Requests |-> steady[o]] /\ steady[r] = promised
      /\ \A o \in Requests \ {r} : steady[o] = history.steady[o]
  BY DEF Mirrored, MarksClean
<1>4. history'.steady = steady /\ history'.repaired = history.repaired
  <2> HIDE DEF steady
  <2> QED  BY <1>1, <1>2, SteadyChanges
<1>5. /\ IsRun(work[r]) /\ work'[r].at = "stream" /\ SameFields(work[r], work'[r])
      /\ \A o \in Requests \ {r} : work'[o] = work[o]
  BY <1>1, StepFields DEF Stages, Mirrored
<1>6. work[r].seen = {} /\ \A ns \in Namespaces : work[r].buf[ns] = <<>>
  BY <1>1, <1>5 DEF Mirrored, Typed, RunTyped
<1>7. \A q \in Pages : ~Stale(r, q)'
  BY <1>5, <1>6 DEF Stale, SameFields
<1>8. ASSUME NEW x \in promised  PROVE Clean(x) /\ OnCourse(r, x)'
  <2>1. PICK q \in Eligible(r) : x \in {q} \X pages[q].grant /\ \A o \in Requests : ~Stale(o, q)
    BY <1>8
  <2>2. x = <<x[1], x[2]>> /\ x[1] = q /\ x[2] \in pages[q].grant /\ q \in Pages
    BY <2>1 DEF Eligible
  <2>3. Clean(x)  BY <2>1, <2>2 DEF Clean
  <2>4. Eligible(r)' = Eligible(r)  BY <1>1, <1>5 DEF Eligible, SameFields
  <2>5. x[1] \notin work'[r].seen  BY <1>5, <1>6 DEF SameFields
  <2> QED  BY <1>5, <2>1, <2>2, <2>3, <2>4, <2>5 DEF OnCourse
<1>9. \A x \in history.repaired : Clean(x) /\ Shown(x)  BY DEF Mirrored, MarksClean
<1>10. \A x : Shown(x) => Shown(x)'  BY <1>1 DEF Shown
<1> HIDE DEF promised, steady
<1> QED  BY <1>1, <1>3, <1>4, <1>5, <1>7, <1>8, <1>9, <1>10, RunGoesOn

LEMMA StreamPageMirrors ==
    ASSUME Mirrored, NEW r \in Requests, NEW q \in Pages, StreamPage(r, q)
    PROVE  MarksClean'
<1> DEFINE entry == [page |-> q, rev |-> pages[q].rev]
<1>1. pages' = pages /\ vault' = vault /\ history' = history
  BY DEF StreamPage, Elsewhere, docs
<1>2. /\ IsRun(work[r]) /\ work[r].at = "stream" /\ work'[r].at = "stream"
      /\ work'[r].user = work[r].user /\ work'[r].kind = work[r].kind
      /\ work'[r].seen = work[r].seen \cup {q}
      /\ \A o \in Requests \ {r} : work'[o] = work[o]
  BY StreamPageFields DEF Mirrored
<1>3. work'[r].buf = [g \in Namespaces |->
          IF g \in pages[q].grant THEN Append(work[r].buf[g], entry) ELSE work[r].buf[g]]
  BY StreamPageFields DEF Mirrored
<1>4. \A ns \in Namespaces : work[r].buf[ns] \in Seq(Entry)
  BY <1>2 DEF Mirrored, Typed, RunTyped
<1>5. entry \in Entry /\ entry.page = q /\ entry.rev = pages[q].rev
  BY DEF Entry, Mirrored, Typed, DocTyped
<1> HIDE DEF entry
<1>6. ASSUME NEW ns \in Namespaces
      PROVE  LET old == work[r].buf[ns]  new == work'[r].buf[ns]
             IN  /\ \A k \in DOMAIN old : k \in DOMAIN new /\ new[k] = old[k]
                 /\ \A k \in DOMAIN new :
                       (k \in DOMAIN old /\ new[k] = old[k]) \/ new[k] = entry
                 /\ ns \in pages[q].grant => \E k \in DOMAIN new : new[k] = entry
  <2> DEFINE old == work[r].buf[ns]  new == work'[r].buf[ns]
  <2>1. old \in Seq(Entry)  BY <1>4
  <2>2. new = IF ns \in pages[q].grant THEN Append(old, entry) ELSE old  BY <1>3
  <2> HIDE DEF old, new
  <2>3. CASE new = old /\ ns \notin pages[q].grant  BY <2>3 DEF old, new
  <2>4. CASE new = Append(old, entry)
    <3>1. /\ Len(old) \in Nat /\ DOMAIN old = 1 .. Len(old)
          /\ DOMAIN new = 1 .. (Len(old) + 1)
          /\ new[Len(old) + 1] = entry
          /\ \A k \in 1 .. Len(old) : new[k] = old[k]
      BY <1>5, <2>1, <2>4
    <3>2. \A k \in DOMAIN new : k \in DOMAIN old \/ k = Len(old) + 1  BY <3>1
    <3>3. \A k \in DOMAIN old : k \in DOMAIN new  BY <3>1
    <3>4. Len(old) + 1 \in DOMAIN new  BY <3>1
    <3> QED  BY <3>1, <3>2, <3>3, <3>4 DEF old, new
  <2> QED  BY <2>2, <2>3, <2>4
<1>7. ASSUME NEW p \in Pages, ~Stale(r, p)  PROVE ~Stale(r, p)'
  <2> SUFFICES ASSUME NEW ns \in Namespaces, NEW k \in DOMAIN work'[r].buf[ns],
                      work'[r].buf[ns][k].page = p
               PROVE  work'[r].buf[ns][k].rev = pages[p].rev
    BY <1>1 DEF Stale
  <2>1. CASE work'[r].buf[ns][k] = entry  BY <1>5, <2>1
  <2>2. CASE k \in DOMAIN work[r].buf[ns] /\ work'[r].buf[ns][k] = work[r].buf[ns][k]
    BY <1>2, <1>7, <2>2 DEF Stale
  <2> QED  BY <1>6, <2>1, <2>2
<1>8. \A x : Shown(x) => Shown(x)'  BY <1>1 DEF Shown
<1>9. ASSUME NEW x \in history.steady[r]  PROVE Clean(x) /\ OnCourse(r, x)'
  <2>1. Clean(x) /\ OnCourse(r, x)  BY <1>2 DEF Mirrored, MarksClean, Active
  <2>2. x[1] \in Eligible(r)'
    BY <1>1, <1>2, <2>1 DEF Eligible, OnCourse
  <2>3. x[2] \in Namespaces /\ x[2] \in pages[x[1]].grant
    BY <2>1 DEF Clean, Mirrored, Typed, DocTyped
  <2>4. Carried(r, x) => Carried(r, x)'  BY <1>6, <2>3 DEF Carried
  <2>5. x[1] = q => Carried(r, x)'  BY <1>5, <1>6, <2>3 DEF Carried
  <2>6. x[1] \in work'[r].seen => Shown(x)' \/ Carried(r, x)'
    BY <1>2, <1>8, <2>1, <2>4, <2>5 DEF OnCourse
  <2> QED  BY <1>2, <2>1, <2>2, <2>6 DEF OnCourse
<1>10. /\ history'.steady = [o \in Requests |-> history'.steady[o]]
       /\ \A x \in history'.repaired : Clean(x) /\ Shown(x)
  BY <1>1 DEF Mirrored, MarksClean
<1> QED  BY <1>1, <1>2, <1>7, <1>8, <1>9, <1>10, RunGoesOn

LEMMA StreamEndsMirrors ==
    ASSUME Mirrored, NEW r \in Requests, StreamEnds(r)
    PROVE  MarksClean'
<1>1. /\ pages' = pages /\ vault' = vault /\ history' = history
      /\ work[r].at = "stream" /\ Step(r, "drain") /\ Unread(r) = {}
  BY DEF StreamEnds, Elsewhere, docs
<1>2. /\ work'[r].at = "drain" /\ SameFields(work[r], work'[r])
      /\ \A o \in Requests \ {r} : work'[o] = work[o]
  BY <1>1, StepFields DEF Stages, Mirrored
<1>3. \A q \in Pages : ~Stale(r, q) => ~Stale(r, q)'
  BY <1>1, <1>2 DEF Stale, SameFields
<1>4. \A x : Shown(x) => Shown(x)'  BY <1>1 DEF Shown
<1>5. ASSUME NEW x \in history.steady[r]  PROVE Clean(x) /\ OnCourse(r, x)'
  <2>1. Clean(x) /\ OnCourse(r, x)  BY <1>1 DEF Mirrored, MarksClean, Active
  <2>2. Eligible(r)' = Eligible(r)  BY <1>1, <1>2 DEF Eligible, SameFields
  <2>3. x[1] \in work[r].seen  BY <1>1, <2>1 DEF OnCourse, Unread
  <2>4. Carried(r, x)' <=> Carried(r, x)  BY <1>2 DEF Carried, SameFields
  <2> QED  BY <1>2, <1>4, <2>1, <2>2, <2>3, <2>4 DEF OnCourse, SameFields
<1>6. /\ history'.steady = [o \in Requests |-> history'.steady[o]]
      /\ \A x \in history'.repaired : Clean(x) /\ Shown(x)
  BY <1>1 DEF Mirrored, MarksClean
<1> QED  BY <1>1, <1>2, <1>3, <1>4, <1>5, <1>6, RunGoesOn

(* A buffer is written: what it holds of a page that is clean is its revision. *)
LEMMA FlushShows ==
    ASSUME Mirrored, NEW r \in Requests, NEW ns \in Namespaces, Flush(r, ns),
           NEW x, Clean(x)
    PROVE  /\ Shown(x) => Shown(x)'
           /\ (x[2] = ns /\ Carried(r, x)) => Shown(x)'
<1>1. pages' = pages  BY DEF Flush, Elsewhere, docs
<1>2. work[r].at \in Active  BY DEF Flush, Active
<1>3. x[1] \in Pages /\ x[2] \in Namespaces
  BY DEF Clean, Mirrored, Typed, DocTyped
<1>4. CASE x[2] # ns
  BY <1>1, <1>3, <1>4, FlushVault DEF Mirrored, Shown
<1>5. CASE x[2] = ns
  <2>1. \A k \in DOMAIN work[r].buf[ns] :
            work[r].buf[ns][k].page = x[1] => work[r].buf[ns][k].rev = pages[x[1]].rev
    BY <1>2 DEF Clean, Stale, Active
  <2>2. CASE /\ vault'[ns][x[1]] = vault[ns][x[1]]
             /\ \A k \in DOMAIN work[r].buf[ns] : work[r].buf[ns][k].page # x[1]
    BY <1>1, <1>5, <2>2 DEF Shown, Carried
  <2>3. CASE \E k \in DOMAIN work[r].buf[ns] :
                /\ work[r].buf[ns][k].page = x[1]
                /\ vault'[ns][x[1]] = work[r].buf[ns][k].rev
    BY <1>1, <1>5, <2>1, <2>3 DEF Shown
  <2> QED  BY <1>3, <2>2, <2>3, FlushVault DEF Mirrored
<1> QED  BY <1>4, <1>5

LEMMA FlushMirrors ==
    ASSUME Mirrored, NEW r \in Requests, NEW ns \in Namespaces, Flush(r, ns)
    PROVE  MarksClean'
<1>1. pages' = pages /\ history' = history  BY DEF Flush, Elsewhere, docs
<1>2. /\ IsRun(work[r]) /\ work[r].at \in Active /\ work'[r].at = work[r].at
      /\ work'[r].user = work[r].user /\ work'[r].kind = work[r].kind
      /\ work'[r].seen = work[r].seen
      /\ work'[r].buf = [work[r].buf EXCEPT ![ns] = <<>>]
      /\ \A o \in Requests \ {r} : work'[o] = work[o]
  BY FlushFields DEF Mirrored, Active
<1>3. work[r].buf \in [Namespaces -> Seq(Entry)]
  BY <1>2 DEF Mirrored, Typed, RunTyped
<1>4. /\ work'[r].buf[ns] = <<>>
      /\ \A g \in Namespaces \ {ns} : work'[r].buf[g] = work[r].buf[g]
  BY <1>2, <1>3
<1>5. ASSUME NEW q \in Pages, ~Stale(r, q)  PROVE ~Stale(r, q)'
  <2> SUFFICES ASSUME NEW g \in Namespaces, NEW k \in DOMAIN work'[r].buf[g],
                      work'[r].buf[g][k].page = q
               PROVE  work'[r].buf[g][k].rev = pages[q].rev
    BY <1>1 DEF Stale
  <2>1. g # ns  BY <1>4
  <2>2. work'[r].buf[g] = work[r].buf[g]  BY <1>4, <2>1
  <2> QED  BY <1>2, <1>5, <2>2 DEF Stale, Active
<1>6. \A x : Clean(x) /\ Shown(x) => Shown(x)'  BY FlushShows
<1>7. ASSUME NEW x \in history.steady[r]  PROVE Clean(x) /\ OnCourse(r, x)'
  <2>1. Clean(x) /\ OnCourse(r, x)  BY <1>2 DEF Mirrored, MarksClean
  <2>2. Eligible(r)' = Eligible(r)  BY <1>1, <1>2 DEF Eligible
  <2>3. x[2] \in Namespaces  BY <2>1 DEF Clean, Mirrored, Typed, DocTyped
  <2>4. Carried(r, x) => Shown(x)' \/ Carried(r, x)'
    <3>1. CASE x[2] = ns  BY <2>1, <3>1, FlushShows
    <3>2. CASE x[2] # ns
      <4>1. work'[r].buf[x[2]] = work[r].buf[x[2]]  BY <1>4, <2>3, <3>2
      <4> QED  BY <4>1 DEF Carried
    <3> QED  BY <3>1, <3>2
  <2> QED  BY <1>2, <1>6, <2>1, <2>2, <2>4 DEF OnCourse
<1>8. /\ history'.steady = [o \in Requests |-> history'.steady[o]]
      /\ \A x \in history'.repaired : Clean(x) /\ Shown(x)
  BY <1>1 DEF Mirrored, MarksClean
<1> QED  BY <1>1, <1>2, <1>5, <1>6, <1>7, <1>8, RunGoesOn

LEMMA CompletedMirrors ==
    ASSUME Mirrored, NEW r \in Requests, LogCompleted(r)
    PROVE  MarksClean'
<1> DEFINE steady == [history.steady EXCEPT ![r] = {}]
           repaired == history.repaired \cup history.steady[r]
<1>1. /\ work[r].at = "drain" /\ NonEmpty(r) = {} /\ End(r)
      /\ vault' = vault /\ pages' = pages
      /\ \E h, t : /\ history' = [history EXCEPT !.repaired = t, !.steady = h]
                   /\ h = steady /\ t = repaired
  BY DEF LogCompleted, Elsewhere, docs
<1>2. HistoryShape  BY DEF Mirrored, Typed, Swept
<1>3. history'.steady = steady /\ history'.repaired = repaired
  BY <1>1, <1>2, RepairedChanges
<1>4. /\ steady = [o \in Requests |-> steady[o]]
      /\ \A o \in Requests \ {r} : steady[o] = history.steady[o]
  BY DEF Mirrored, MarksClean
<1>5. work'[r].at \notin Active /\ \A o \in Requests \ {r} : work'[o] = work[o]
  BY <1>1, EndWork DEF Active, Mirrored, Typed
<1>6. ASSUME NEW x \in history.steady[r]  PROVE Clean(x) /\ Shown(x)
  <2>1. Clean(x) /\ OnCourse(r, x)  BY <1>1 DEF Mirrored, MarksClean, Active
  <2>2. x[2] \in Namespaces  BY <2>1 DEF Clean, Mirrored, Typed, DocTyped
  <2>3. work[r].buf[x[2]] = <<>>  BY <1>1, <2>2 DEF NonEmpty
  <2>4. ~Carried(r, x)  BY <2>3 DEF Carried
  <2> QED  BY <1>1, <2>1, <2>4 DEF OnCourse
<1>7. \A x \in repaired : Clean(x) /\ Shown(x)  BY <1>6 DEF Mirrored, MarksClean
<1>8. \A x : Shown(x) => Shown(x)'  BY <1>1 DEF Shown
<1>9. \A q \in Pages : ~Stale(r, q)'  BY <1>5, InactiveIsClean
<1> HIDE DEF steady, repaired
<1> QED  BY <1>1, <1>3, <1>4, <1>5, <1>7, <1>8, <1>9, RunGoesOn

LEMMA RunMirrors ==
    ASSUME Mirrored, NEW r \in Requests, Run(r)
    PROVE  MarksClean'
<1>1. CASE Gate(r)
  <2>1. pages' = pages /\ vault' = vault /\ history' = history
    BY <1>1 DEF Gate, Elsewhere, docs
  <2>2. work'[r].at \notin Active /\ \A o \in Requests \ {r} : work'[o] = work[o]
    BY <1>1, GateFields DEF Active, Mirrored
  <2> QED  BY <2>1, <2>2, QuietMirrors
<1>2. CASE LogOverLimit(r) \/ LogRefused(r)
  <2>1. pages' = pages /\ vault' = vault /\ history' = history /\ End(r)
    BY <1>2 DEF LogOverLimit, LogRefused, Elsewhere, docs
  <2>2. work'[r].at \notin Active /\ \A o \in Requests \ {r} : work'[o] = work[o]
    BY <2>1, EndWork DEF Active, Mirrored, Typed
  <2> QED  BY <2>1, <2>2, QuietMirrors
<1>3. CASE LogPending(r) \/ StreamOverCap(r)
  <2>1. pages' = pages /\ vault' = vault /\ history' = history
    BY <1>3 DEF LogPending, StreamOverCap, Elsewhere, docs
  <2>2. \E at \in {"queued", "refused", "cap"} : work[r].at \in Stages /\ Step(r, at)
    BY <1>3 DEF LogPending, StreamOverCap, Stages
  <2>3. work'[r].at \notin Active /\ \A o \in Requests \ {r} : work'[o] = work[o]
    BY <2>2, StepWork DEF Active, Mirrored, Typed, Stages
  <2> QED  BY <2>1, <2>3, QuietMirrors
<1>4. ASSUME NEW h, history' = [history EXCEPT !.steady = h] \/
                    \E u : history' = [history EXCEPT !.steady = h, !.unrecorded = u],
             h = [history.steady EXCEPT ![r] = {}],
             End(r), pages' = pages, vault' = vault
      PROVE  MarksClean'
  <2>1. HistoryShape  BY DEF Mirrored, Typed, Swept
  <2>2. history'.steady = h /\ history'.repaired = history.repaired
    BY <1>4, <2>1, SteadyChanges, UnrecordedGrows
  <2>3. /\ h = [o \in Requests |-> h[o]]
        /\ \A o \in Requests : h[o] \subseteq history.steady[o]
    BY <1>4 DEF Mirrored, MarksClean
  <2>4. work'[r].at \notin Active /\ \A o \in Requests \ {r} : work'[o] = work[o]
    BY <1>4, EndWork DEF Active, Mirrored, Typed
  <2> QED  BY <1>4, <2>2, <2>3, <2>4, OthersGoOn
<1>5. CASE LogFailed(r)
  <2>1. /\ End(r) /\ pages' = pages /\ vault' = vault
        /\ history' = [history EXCEPT !.steady = [history.steady EXCEPT ![r] = {}]]
    BY <1>5 DEF LogFailed, Elsewhere, docs
  <2> QED  BY <1>4, <2>1
<1>6. CASE AwaitFails(r)
  <2>1. pages' = pages /\ vault' = vault  BY <1>6 DEF AwaitFails, Elsewhere, docs
  <2>2. CASE /\ work[r].at \in {"stream", "drain", "cap"} /\ Step(r, "catch")
             /\ history' = history
    <3>1. work'[r].at \notin Active /\ \A o \in Requests \ {r} : work'[o] = work[o]
      BY <2>2, StepWork DEF Active, Mirrored, Typed, Stages
    <3> QED  BY <2>1, <2>2, <3>1, QuietMirrors
  <2>3. CASE /\ End(r)
             /\ history' = [history EXCEPT
                   !.steady = [history.steady EXCEPT ![r] = {}],
                   !.unrecorded = history.unrecorded \cup {r}]
    BY <1>4, <2>1, <2>3
  <2> QED  BY <1>6, <2>2, <2>3 DEF AwaitFails
<1> QED
  BY <1>1, <1>2, <1>3, <1>5, <1>6, RunningMirrors, StreamPageMirrors, StreamEndsMirrors,
     FlushMirrors, CompletedMirrors DEF Run

LEMMA NextMirrored ==
    ASSUME Mirrored, [Next]_vars
    PROVE  Mirrored'
<1>1. SUFFICES MarksClean'  BY NextTyped DEF Mirrored
<1>2. CASE work' = work /\ pages' = pages /\ vault' = vault
           /\ history'.steady = history.steady /\ history'.repaired = history.repaired
  BY <1>2, QuietMirrors
<1>3. CASE Environment
  <2>1. \/ work' = work /\ pages' = pages /\ vault' = vault /\ history' = history
        \/ \E q \in Pages : Land(q)
    BY <1>3 DEF Environment, Save, CountDescendants, BootstrapChanges, docs
  <2> QED  BY <1>2, <2>1, LandMirrors
<1>4. CASE Drift
  <2>1. ASSUME NEW s \in Sweeps, Query(s)  PROVE MarksClean'
    <3>1. PICK t : history' = [history EXCEPT !.queried = t]  BY <2>1 DEF Query
    <3>2. HistoryShape  BY DEF Mirrored, Typed, Swept
    <3>3. history'.steady = history.steady /\ history'.repaired = history.repaired
      BY <3>1, <3>2 DEF HistoryShape
    <3> QED  BY <1>2, <2>1, <3>3 DEF Query, SweepElsewhere, docs
  <2>2. \/ work' = work /\ pages' = pages /\ vault' = vault /\ history' = history
        \/ \E s \in Sweeps : Query(s) \/ \E x : WriteSwept(s, x)
    BY <1>4 DEF Drift, SaveWatermark, SweepFails, SweepElsewhere, docs
  <2> QED  BY <1>2, <2>1, <2>2, WriteSweptMirrors
<1>5. ASSUME NEW p, Boot(p)  PROVE MarksClean'
  <2>1. PICK t : history' = [history EXCEPT !.unrecorded = {}, !.normalized = t]
    BY <1>5 DEF Boot
  <2>2. HistoryShape  BY DEF Mirrored, Typed, Swept
  <2>3. history'.steady = history.steady /\ history'.repaired = history.repaired
    BY <2>1, <2>2, NormalizedGrows
  <2> QED  BY <1>2, <1>5, <2>3 DEF Boot, docs
<1>6. ASSUME NEW s, NEW p, Tick(s, p)  PROVE MarksClean'
  BY <1>2, <1>6 DEF Tick, SweepElsewhere, docs
<1>7. CASE UNCHANGED vars  BY <1>2, <1>7 DEF vars, docs
<1> QED
  BY <1>3, <1>4, <1>5, <1>6, <1>7, RunMirrors, SubmitMirrors, CrashMirrors
  DEF Next, Reconcile

(* A reconcile that has completed has repaired its pages: each that no save  *)
(* has reached since the run began shows its revision in each of its         *)
(* namespaces, however pages are saved, events are lost and runs interleave. *)
THEOREM RepairsHold == Spec => []RepairedMirrors
<1>1. Init => Mirrored
  <2> SUFFICES ASSUME Init PROVE Mirrored  OBVIOUS
  <2>1. history.steady = [r \in Requests |-> {}] /\ history.repaired = {}  BY DEF Init
  <2> QED  BY <2>1, InitTyped DEF Mirrored, MarksClean
<1>2. Mirrored /\ [Next]_vars => Mirrored'  BY NextMirrored
<1>3. Mirrored => RepairedMirrors
  BY DEF Mirrored, MarksClean, RepairedMirrors, Shown
<1> QED  BY <1>1, <1>2, <1>3, PTL DEF Spec
===============================================================================
