-------------------------- MODULE PageTreeNest_proofs --------------------------
(***************************************************************************)
(* Proofs about PageTree: as long as nothing disturbs the tree, the        *)
(* operations stay apart and what each has taken nests in it, so that a    *)
(* page that nobody moves or removes is below the page of its parent path; *)
(* and no page is lost that nobody asked to delete.  One lemma per action  *)
(* for the nesting (...Nests), one for the kinds (...Walks).               *)
(***************************************************************************)
EXTENDS PageTree_proofs

LEMMA RecordNests ==
    ASSUME Typed, Typed', Ordered, Ordered', NEW fam, NEW left, Nested(fam, left),
           NEW r \in Runs, Record(r)
    PROVE  Nested(fam, left)'
<1>1. Notes(r)  BY RecordNotes DEF Typed
<1>2. IsRun(work[r]) /\ work[r].at = "record"  BY <1>1 DEF Notes, Record, On
<1>3. Go(r, "takeOff") /\ pages' = pages  BY DEF Record
<1>4. work'[r].at = "takeOff"  BY <1>2, <1>3, GoAt DEF Typed
<1>5. work[r].kind = "rename"  BY <1>2 DEF IsRun, Early, Holding, Late
<1> QED  BY <1>1, <1>3, <1>4, <1>5, NotingNests

LEMMA RecordCreateNests ==
    ASSUME Typed, Typed', Ordered, Ordered', NEW fam, NEW left, Nested(fam, left),
           NEW r \in Runs, RecordCreate(r)
    PROVE  Nested(fam, left)'
<1>1. Notes(r)  BY RecordCreateNotes DEF Typed
<1>2. IsRun(work[r]) /\ work[r].at = "recordCreate"  BY <1>1 DEF Notes, RecordCreate, On
<1>3. Go(r, "grow") /\ pages' = pages  BY DEF RecordCreate
<1>4. work'[r].at = "grow"  BY <1>2, <1>3, GoAt DEF Typed
<1>5. work[r].kind = "create"  BY <1>2 DEF IsRun, Early, Holding, Late
<1> QED  BY <1>1, <1>3, <1>4, <1>5, NotingNests

LEMMA RecordDeleteNests ==
    ASSUME Typed, Typed', Ordered, Ordered', NEW fam, NEW left, Nested(fam, left),
           NEW r \in Runs, RecordDelete(r)
    PROVE  Nested(fam, left)'
<1>1. Notes(r)  BY RecordDeleteNotes DEF Typed
<1>2. IsRun(work[r]) /\ work[r].at = "recordDelete"  BY <1>1 DEF Notes, RecordDelete, On
<1>3. Go(r, "stream") /\ pages' = pages  BY DEF RecordDelete
<1>4. work'[r].at = "stream"  BY <1>2, <1>3, GoAt DEF Typed
<1>5. work[r].kind \in {"delete", "erase"}  BY <1>2 DEF IsRun, Early, Holding, Late
<1> QED  BY <1>1, <1>3, <1>4, <1>5, NotingNests

-----------------------------------------------------------------------------
(* Steps that write documents S and give parents P.                          *)
Alters(docs, new, S, P) ==
    /\ DOMAIN docs \subseteq DOMAIN new
    /\ \A j \in DOMAIN docs \ S : Stays(docs, new, j)
    /\ \A j \in DOMAIN docs \ LiveOf(docs) : j \notin LiveOf(new)
    /\ \A j \in DOMAIN new : \/ new[j].parent \in P \cup {NoId}
                             \/ j \in DOMAIN docs /\ new[j].parent = docs[j].parent

LEMMA AltersUntouched ==
    ASSUME NEW docs, NEW new, NEW c, NEW F, NEW L, NEW S, NEW P, Family(docs, c, F, L),
           Alters(docs, new, S, P), NoId \notin DOMAIN docs,
           \A j \in DOMAIN docs \ LiveOf(docs) : docs[j].parent = NoId,
           \A j \in S \cap LiveOf(docs) : j \notin HouseOf(c, F),
           \A j \in P : j \notin HouseOf(c, F)
    PROVE  Untouched(docs, new, c, F)
<1>1. HouseOf(c, F) \subseteq DOMAIN docs \ {Top}  BY HouseHasIds
<1>2. \A j \in HouseOf(c, F) : Dead(docs, new, j) \/ Stays(docs, new, j)
  BY <1>1 DEF Alters, Dead
<1>3. c.id \in HouseOf(c, F) /\ F \cup c.guests \subseteq HouseOf(c, F)  BY DEF HouseOf
<1>4. Rooted(docs, c.id) => Rooted(new, c.id)
  BY <1>1, <1>2, <1>3 DEF Rooted, Dead, Stays
<1>5. \A j \in DOMAIN new : new[j].parent \in HouseOf(c, F) =>
          j \in DOMAIN docs /\ docs[j].parent \in HouseOf(c, F)
  BY <1>1 DEF Alters
<1> QED  BY <1>2, <1>3, <1>4, <1>5 DEF Untouched, Stays

LEMMA AltersSpares ==
    ASSUME Typed, NEW fam, NEW left, Nested(fam, left), NEW S, NEW P, Alters(pages, pages', S, P),
           Recorded' \subseteq Recorded, NEW s \in Runs, Open(s), work'[s] = work[s],
           \A j \in LivePages \ Housed(fam) : pages'[j].kind = pages[j].kind,
           On(s, "adopt") => work[s].parent \notin P
    PROVE  Spared(s, fam)
<1>1. \A j \in LivePages \ Housed(fam) : j \in LivePages'
  BY DEF LivePages, LiveOf, Alters
<1>2. CASE On(s, "adopt")
  <2>0. PICK d, n : d = work[s].id /\ n = work[s].parent  OBVIOUS
  <2>1. Stands(s, fam, left)  BY DEF Nested, Open
  <2>2. /\ d \in LivePages \ Housed(fam) /\ n \in LivePages \ Housed(fam)
        /\ pages[d].kind = "page" /\ Children(n) = {}
    BY <1>2, <2>0, <2>1 DEF Stands, Adopting, Open
  <2>3. pages'[d].kind = "page"  BY <2>2
  <2>4. n # NoId  BY <2>2, IsCollectionHasNoId DEF Typed, LivePages, LiveOf
  <2>5. Children(n)' = {}
    BY <1>2, <2>0, <2>2, <2>4 DEF Children, Alters, Ids
  <2> QED  BY <1>1, <1>2, <2>0, <2>2, <2>3, <2>5 DEF Spared, On
<1> QED  BY <1>1, <1>2 DEF Spared

(* A step that leaves the house of its own operation alone.                  *)
LEMMA OwnFits ==
    ASSUME NEW fam, NEW left, Housings(fam, left), Ids \subseteq Ids',
           NEW o \in Runs, Keeps(o), Broad(o) => Matches(o),
           Broad(o) => Untouched(pages, pages', Claimed(o), fam[o])
    PROVE  Fits(o, fam, left) /\ (Broad(o)' => House(o, fam[o])' = House(o, fam[o]))
<1> SUFFICES ASSUME Broad(o)'
             PROVE  /\ Family(pages', Claimed(o)', fam[o], left[o])
                    /\ Housing(o, fam[o], left[o])'
                    /\ House(o, fam[o])' = House(o, fam[o])
  BY DEF Fits
<1>1. Broad(o) /\ Claiming(o)  BY DEF Keeps, Broad
<1>2. /\ Claim(o)'.id = Claim(o).id /\ Claim(o)'.to = Claim(o).to
      /\ (Renames(o)' <=> Renames(o)) /\ From(o)' = From(o) /\ (Deeper(o)' <=> Deeper(o))
  BY <1>1, KeptSame
<1>3. Matches(o)  BY <1>1
<1>4. (o \in Recorded)' <=> o \in Recorded  BY DEF Keeps
<1>5. Moving(o)' <=> Moving(o)  BY <1>3 DEF Matches
<1>6. Claimed(o)' = Claimed(o)  BY <1>2, <1>3, <1>5 DEF Claimed, Matches
<1>7. House(o, fam[o])' = House(o, fam[o])  BY <1>6 DEF House
<1>8. Family(pages, Claimed(o), fam[o], left[o]) /\ Housing(o, fam[o], left[o])
      /\ Untouched(pages, pages', Claimed(o), fam[o])
  BY <1>1 DEF Housings
<1>9. Family(pages', Claimed(o)', fam[o], left[o])
  BY <1>6, <1>8, FamilyStays DEF Ids
<1>10. /\ \A j \in fam[o] \cup {Claimed(o).id} : j \in LiveOf(pages') <=> j \in LiveOf(pages)
       /\ Rooted(pages, Claimed(o).id) => Rooted(pages', Claimed(o).id)
  BY <1>8, FamilyKinds DEF Ids
<1>20. Claimed(o).id = Claim(o).id  BY DEF Claimed
<1>21. /\ fam[o] \subseteq LivePages => fam[o] \subseteq LivePages'
       /\ Claim(o).id \in LivePages => Claim(o).id \in LivePages'
       /\ Rooted(pages, Claim(o).id) => Rooted(pages', Claim(o).id)
  BY <1>10, <1>20 DEF LivePages
<1>11. (~Moving(o) => left[o] = {})'  BY <1>5, <1>8 DEF Housing
<1>12. (Renames(o) =>
          /\ ~IsPrefix(Claim(o).to, From(o))
          /\ fam[o] \cup {Claim(o).id} \subseteq LivePages
          /\ ~Off(o) => Rooted(pages, Claim(o).id))'
  BY <1>2, <1>3, <1>8, <1>21 DEF Housing, Matches
<1>13. (Renames(o) /\ Deeper(o) /\ Is(o, {"bump", "redirect", "stage", "stream"})
          => left[o] = fam[o])'
  BY <1>2, <1>3, <1>8 DEF Housing, Matches
<1>14. (~Renames(o) /\ (o \notin Recorded \/ Is(o, {"stream"})) => fam[o] \subseteq LivePages)'
  BY <1>2, <1>3, <1>4, <1>8, <1>21 DEF Housing, Matches
<1>15. (o \notin Recorded /\ work[o].kind = "erase" /\ work[o].at \in {"shrink", "shrunk"} =>
          Claim(o).id \in LivePages /\ Rooted(pages, Claim(o).id))'
  BY <1>2, <1>3, <1>4, <1>8, <1>21 DEF Housing, Matches
<1> QED  BY <1>7, <1>9, <1>11, <1>12, <1>13, <1>14, <1>15 DEF Housing

LEMMA AwayNests ==
    ASSUME Typed, Typed', Ordered, Ordered', NEW fam, NEW left, Nested(fam, left),
           NEW r \in Runs, GoesOn(r), NEW o \in Runs, o = work[r].op, Ids \subseteq Ids',
           ~Late(work'[r].kind, work'[r].at),
           Broad(o) => AtsMatch(work[r].kind, work[r].at, work'[r].at),
           \A q \in Runs : Broad(q) => Untouched(pages, pages', Claimed(q), fam[q]),
           Steady(pages, pages', Housed(fam)), Coherent(pages', Housed(fam)),
           Housed(fam)' = Housed(fam) => Stands(r, fam, left)',
           \A s \in Runs \ {r} : Open(s) => Spared(s, fam),
           Open(r)' /\ On(r, "adopt")' => work'[r].parent \notin Ids \cup {NoId}
    PROVE  Nested(fam, left)' /\ Housed(fam)' = Housed(fam)
<1>2. /\ Keeps(o) /\ \A s \in Runs : Holds(s, o)' <=> Holds(s, o)
      /\ o \in Recorded => ops'[o].stage = ops[o].stage
      /\ \A q \in Runs \ {o} : Still(q)
  BY GoingIsStill, GoingKeepsClaim DEF Typed
<1>3. Fits(o, fam, left) /\ (Broad(o)' => House(o, fam[o])' = House(o, fam[o]))
  <2>1. Broad(o) => Matches(o)
    BY <1>2, PlacesMatch DEF Typed, GoesOn, Others, Broad
  <2> QED  BY <1>2, <2>1, OwnFits DEF Nested
<1>4. Broad(o)' <=> Broad(o)  BY <1>2 DEF Keeps
<1>5. Housed(fam)' = Housed(fam)  BY <1>2, <1>3, <1>4, QuietHoused
<1>6. Broad(o)' => House(o, fam[o])' \cap Ids \subseteq Housed(fam)
  BY <1>3, <1>4 DEF Housed
<1>7. Coherent(pages', Housed(fam)') /\ Stands(r, fam, left)'  BY <1>5
<1> QED  BY <1>3, <1>5, <1>6, <1>7, GoingNests

InsertedDoc(p) == [kind |-> "empty", path |-> p, parent |-> NoId, count |-> 0]

LEMMA InsertedPlaces ==
    ASSUME IsCollection(pages), NEW to \in Paths, NEW S \in SUBSET Ancestors(to),
           pages' = Inserted(S)
    PROVE  /\ Ids \subseteq Ids' /\ \A i \in Ids : pages'[i] = pages[i]
           /\ \A i \in Ids' \ Ids : \E p \in S : pages'[i] = InsertedDoc(p)
           /\ Alters(pages, pages', {}, {}) /\ \A H : Steady(pages, pages', H)
<1>1. /\ DOMAIN Inserted(S) = 0 .. Size + Cardinality(S) - 1 /\ Cardinality(S) \in Nat
      /\ \A i \in Ids : pages'[i] = pages[i]
      /\ \A i \in Ids' \ Ids : \E p \in S : pages'[i] = InsertedDoc(p)
  BY InsertedDocuments DEF InsertedDoc, Paths, Ids
<1>2. Size \in Nat \ {0} /\ Ids = 0 .. Size - 1  BY IdsAreCounted
<1>3. Ids \subseteq Ids'  BY <1>1, <1>2 DEF Ids
<1>4. Alters(pages, pages', {}, {})
  BY <1>1, <1>3 DEF Alters, Stays, LiveOf, Ids, InsertedDoc
<1>5. \A H : Steady(pages, pages', H)  BY <1>1 DEF Steady, LiveOf, Rooted, Ids
<1> QED  BY <1>1, <1>3, <1>4, <1>5

LEMMA InsertedCoheres ==
    ASSUME IsCollection(pages), NEW H, NEW H2, Coherent(pages, H), H \subseteq H2,
           NEW to \in Paths, IsPath(to),
           NEW S \in SUBSET Ancestors(to), pages' = Inserted(S), <<>> \notin S
    PROVE  Coherent(pages', H2)
<1>1. /\ Ids \subseteq Ids' /\ \A i \in Ids : pages'[i] = pages[i]
      /\ \A i \in Ids' \ Ids : \E p \in S : pages'[i] = InsertedDoc(p)
      /\ Steady(pages, pages', H)
  BY InsertedPlaces
<1>2. \A p \in S : IsPath(p) /\ p # <<>>
  BY AncestorsArePrefixes, PrefixOfPath DEF IsStrictPrefix
<1>3. \A i \in Ids' \ Ids : /\ i \in LiveOf(pages') /\ IsPath(pages'[i].path)
                            /\ pages'[i].path # <<>> /\ pages'[i].parent = NoId
  BY <1>1, <1>2 DEF InsertedDoc, LiveOf, Ids
<1>4. \A i \in Ids : i \in LiveOf(pages') <=> i \in LiveOf(pages)
  BY <1>1 DEF LiveOf, Ids
<1>5. \A j \in Ids' \ LiveOf(pages') : pages'[j].parent = NoId
  BY <1>1, <1>3, <1>4 DEF Coherent, Ids
<1>6. \A j \in LiveOf(pages') : IsPath(pages'[j].path) /\ (j # Top => pages'[j].path # <<>>)
  BY <1>1, <1>3, <1>4 DEF Coherent, LiveOf, Ids
<1>7. ASSUME NEW j \in LiveOf(pages') \ {Top}
      PROVE  \/ pages'[j].parent \in H2 \cup {NoId}
             \/ /\ j \in LiveOf(pages) /\ pages'[j].path = pages[j].path
                /\ pages'[j].parent = pages[j].parent
                /\ pages[j].parent \notin H \cup {NoId} /\ pages[j].parent \in LiveOf(pages')
  <2>1. CASE j \notin Ids  BY <1>3, <2>1 DEF LiveOf, Ids
  <2>2. CASE j \in Ids
    <3>1. j \in LiveOf(pages) /\ pages'[j] = pages[j]  BY <1>1, <1>4, <2>2
    <3>2. pages[j].parent \notin H \cup {NoId} => pages[j].parent \in LiveOf(pages)
      BY <3>1 DEF Coherent
    <3>3. LiveOf(pages) \subseteq LiveOf(pages')  BY <1>4 DEF LiveOf, Ids
    <3> QED  BY <3>1, <3>2, <3>3
  <2> QED  BY <2>1, <2>2
<1> QED  BY <1>1, <1>5, <1>6, <1>7, CoherentStays DEF Ids

LEMMA NestedDeads ==
    ASSUME Typed, NEW fam, NEW left, Nested(fam, left)
    PROVE  /\ NoId \notin Ids /\ \A j \in Ids \ LivePages : pages[j].parent = NoId
           /\ \A q \in Runs : Broad(q) => Family(pages, Claimed(q), fam[q], left[q])
  BY IsCollectionHasNoId DEF Typed, Nested, Coherent, Ids, LivePages, Housings

(* No house has any of the pages that a step writes.                         *)
LEMMA AllUntouched ==
    ASSUME Typed, NEW fam, NEW left, Nested(fam, left), NEW S, NEW P,
           Alters(pages, pages', S, P), NEW q \in Runs, Broad(q),
           \A i \in S \cap LivePages : i \notin House(q, fam[q]),
           \A i \in P : i \notin House(q, fam[q])
    PROVE  Untouched(pages, pages', Claimed(q), fam[q])
<1>1. /\ NoId \notin DOMAIN pages /\ Family(pages, Claimed(q), fam[q], left[q])
      /\ \A j \in DOMAIN pages \ LiveOf(pages) : pages[j].parent = NoId
  BY NestedDeads DEF Ids, LivePages
<1>2. /\ \A j \in S \cap LiveOf(pages) : j \notin HouseOf(Claimed(q), fam[q])
      /\ \A j \in P : j \notin HouseOf(Claimed(q), fam[q])
  BY DEF House, LivePages
<1> QED  BY <1>1, <1>2, AltersUntouched

LEMMA InsertNests ==
    ASSUME Typed, Typed', Ordered, Ordered', NEW fam, NEW left, Nested(fam, left),
           NEW r \in Runs, Insert(r), ~history'.doubled
    PROVE  Nested(fam, left)'
<1>0. GoesOn(r)  BY InsertGoes, SMTT(60) DEF Typed
<1>1. IsRun(work[r]) /\ work[r].at = "insert" /\ work[r].kind \in {"rename", "create"}
  BY RunsAreRuns, SMTT(60) DEF Typed, Held, Insert, On, IsRun, Early, Holding, Late
<1>2. PICK o \in Runs : o = work[r].op  BY <1>1 DEF IsRun
<1>3. pages' = Inserted(work[r].todo) /\ \A p \in work[r].todo : At(p) = {}
  <2>1. history' = [history EXCEPT !.doubled = @ \/ \E p \in work[r].todo : At(p) # {}]
    BY DEF Insert
  <2>2. history'.doubled = (history.doubled \/ \E p \in work[r].todo : At(p) # {})
    BY <2>1 DEF Typed, Held, HasHistory
  <2> QED  BY <2>2 DEF Insert
<1>4. work[r].to \in Paths /\ IsPath(work[r].to) /\ work[r].todo \subseteq Ancestors(work[r].to)
  BY <1>1 DEF Typed, RunTyped, StageTyped, IsPath, Paths
<1>5. <<>> \notin work[r].todo
  <2>1. Top \in At(<<>>)  BY DEF Typed, IsCollection, At, Ids
  <2> QED  BY <1>3, <2>1
<1>6. /\ Ids \subseteq Ids' /\ \A i \in Ids : pages'[i] = pages[i]
      /\ Alters(pages, pages', {}, {}) /\ Steady(pages, pages', Housed(fam))
  BY <1>3, <1>4, InsertedPlaces DEF Typed
<1>7. Coherent(pages', Housed(fam))
  BY <1>3, <1>4, <1>5, InsertedCoheres DEF Typed, Nested
<1>8. \A q \in Runs : Broad(q) => Untouched(pages, pages', Claimed(q), fam[q])
  BY <1>6, AllUntouched
<1>9. \A s \in Runs \ {r} : Open(s) => Spared(s, fam)
  <2>1. Recorded' \subseteq Recorded  BY <1>0 DEF GoesOn, OpsStay
  <2>2. \A j \in LivePages \ Housed(fam) : pages'[j].kind = pages[j].kind
    BY <1>6 DEF LivePages, LiveOf, Ids
  <2> QED  BY <1>0, <1>6, <2>1, <2>2, AltersSpares DEF GoesOn, Others
<1>10. /\ work'[r].at = "link" /\ work'[r].kind = work[r].kind /\ work'[r].id = work[r].id
       /\ work'[r].copy = work[r].copy /\ work'[r].to = work[r].to
       /\ work'[r].recursively = work[r].recursively
  <2>1. work'[r] = [work[r] EXCEPT !.at = "link", !.todo = {}]
    BY DEF Insert, Typed, Held, WorkShape
  <2> QED  BY <1>1, <2>1 DEF IsRun, HasFields
<1>11. ASSUME Housed(fam)' = Housed(fam)  PROVE Stands(r, fam, left)'
  <2>1. Creating(r, fam) /\ Treading(r)  BY <1>1, RunStands
  <2>2. Treading(r)'  BY <1>1, <1>10, <2>1 DEF Treading, Rename, Removes, Delete, Erase, On
  <2>3. NoId \notin Ids'  BY IsCollectionHasNoId DEF Typed, Ids
  <2> QED
    BY <1>0, <1>1, <1>6, <1>10, <1>11, <2>1, <2>2, <2>3, GoneStands DEF AfterBatches
<1>12. AtsMatch(work[r].kind, work[r].at, work'[r].at) /\ ~Late(work'[r].kind, work'[r].at)
  BY <1>1, <1>10 DEF AtsMatch, Late
<1>13. ~On(r, "adopt")'  BY <1>10 DEF On
<1> QED
  BY <1>0, <1>2, <1>6, <1>7, <1>8, <1>9, <1>11, <1>12, <1>13, AwayNests

Above(p) == Earliest(At(Dirname(p)))
Linked(to) == {i \in Ids : i # Top /\ \E p \in Ancestors(to) : i \in At(p)}

LEMMA AboveIsLive ==
    ASSUME Typed, NEW p, At(Dirname(p)) # {}
    PROVE  Above(p) \in LivePages /\ pages[Above(p)].path = Dirname(p) /\ Above(p) \in At(Dirname(p))
<1>1. At(Dirname(p)) \subseteq Ids /\ Ids \subseteq Nat
  BY IsCollectionHasNoId DEF At, Typed, Ids
<1>2. Above(p) \in At(Dirname(p))  BY <1>1, EarliestIsOne DEF Above
<1> QED  BY <1>2 DEF At, LivePages, LiveOf, Ids

LEMMA LinkNests ==
    ASSUME Typed, Typed', Ordered, Ordered', NEW fam, NEW left, Nested(fam, left),
           NEW r \in Runs, Link(r), ~history'.damaged
    PROVE  Nested(fam, left)'
<1>1. IsRun(work[r]) /\ work[r].at = "link" /\ work[r].kind \in {"rename", "create"}
  BY RunsAreRuns DEF Typed, Held, Link, On, IsRun, Early, Holding, Late
<1>2. CASE Throw(r)
  <2>1. up' = up  BY DEF Link, Unchanged
  <2> QED  BY <1>1, <1>2, <2>1, ThrowNests
<1>3. CASE ~Throw(r)
  <2>0. PICK o \in Runs : o = work[r].op  BY <1>1 DEF IsRun
  <2> DEFINE to == work[r].to
  <2>1. GoesOn(r)  BY <1>3, LinkGoes DEF Typed
  <2>2. to \in Paths /\ to # <<>>
    BY <1>1 DEF Typed, RunTyped, StageTyped, IsPath, Paths
  <2>3. /\ \A p \in Ancestors(to) : At(p) # {}
        /\ pages' = [i \in Ids |-> IF i \in Linked(to)
                        THEN [pages[i] EXCEPT !.parent = Above(pages[i].path)] ELSE pages[i]]
        /\ work' = [work EXCEPT ![r].at = IF Rename(r) THEN "put" ELSE "save",
                                ![r].parent = Above(to)]
    BY <1>3 DEF Link, Linked, Above
  <2>4. \A p \in Ancestors(to) \cup {to} :
           /\ Dirname(p) \in Ancestors(to) /\ Above(p) \in LivePages
           /\ pages[Above(p)].path = Dirname(p)
    <3>1. \A p \in Ancestors(to) \cup {to} : Dirname(p) \in Ancestors(to)
      BY <2>2, DirnameOfAncestor DEF Paths
    <3> QED  BY <2>3, <3>1, AboveIsLive
  <2>5. \A p \in Ancestors(to), i \in LivePages : pages[i].path = p => i \notin Housed(fam)
    <3>1. \/ Create(r) /\ Open(r)
          \/ /\ Rename(r) /\ Holding(work[r].kind, work[r].at)
             /\ ~UnderTarget(work[r].copy.path, work[r].to)
      <4>1. Treading(r)  BY <1>1, RunStands
      <4> QED  BY <1>1, <4>1 DEF Treading, Open, Create, Rename, Early, Holding
    <3> QED  BY <1>1, <3>1, AboveIsFree DEF Nested
  <2>6. \A p \in Ancestors(to) \cup {to} : Above(p) \notin Housed(fam)  BY <2>4, <2>5
  <2>7. \A i \in Linked(to) :
           /\ i \in LivePages \ Housed(fam) /\ i # Top /\ pages[i].path \in Ancestors(to)
    BY <2>5 DEF Linked, At, LivePages, LiveOf, Ids
  <2> DEFINE P == {Above(p) : p \in Ancestors(to) \cup {to}}
  <2>8. \A i \in Ids : IsDocument(pages[i], Ids)  BY DEF Typed, IsCollection, Ids
  <2>9. Ids' = Ids  BY <2>3 DEF Ids
  <2>10. \A i \in Ids : /\ pages'[i].kind = pages[i].kind /\ pages'[i].path = pages[i].path
                        /\ i \notin Linked(to) => pages'[i].parent = pages[i].parent
                        /\ i \in Linked(to) => pages'[i].parent = Above(pages[i].path)
    BY <2>3, <2>8 DEF IsDocument
  <2>11. LiveOf(pages') = LiveOf(pages)  BY <2>9, <2>10 DEF LiveOf, Ids
  <2>12. Alters(pages, pages', Linked(to), P)
    <3>1. \A j \in Ids' : \/ pages'[j].parent \in P \cup {NoId}
                          \/ j \in Ids /\ pages'[j].parent = pages[j].parent
      BY <2>7, <2>9, <2>10
    <3> QED  BY <2>9, <2>10, <2>11, <3>1 DEF Alters, Stays, Ids
  <2> HIDE DEF to
  <2>13. \A q \in Runs : Broad(q) => Untouched(pages, pages', Claimed(q), fam[q])
    <3> SUFFICES ASSUME NEW q \in Runs, Broad(q)
                 PROVE  Untouched(pages, pages', Claimed(q), fam[q])
      OBVIOUS
    <3>1. House(q, fam[q]) \subseteq Housed(fam)  BY DEF Housed
    <3>2. \A i \in P : i \notin House(q, fam[q])  BY <2>6, <3>1
    <3>3. \A i \in Linked(to) \cap LivePages : i \notin House(q, fam[q])  BY <2>7, <3>1
    <3> HIDE DEF P
    <3> QED  BY <2>12, <3>2, <3>3, AllUntouched
  <2>14. NoId \notin Ids  BY IsCollectionHasNoId DEF Typed, Ids
  <2>15. \A i \in Ids : Rooted(pages, i) => Rooted(pages', i)
    BY <2>4, <2>7, <2>10, <2>14 DEF Rooted, LivePages, LiveOf, Ids
  <2>16. Steady(pages, pages', Housed(fam))
    BY <2>10, <2>11, <2>15 DEF Steady, Ids
  <2>17. \A p \in Ancestors(to) \cup {to} : Rooted(pages', Above(p))
    <3> SUFFICES ASSUME NEW p \in Ancestors(to) \cup {to}  PROVE Rooted(pages', Above(p))
      OBVIOUS
    <3>1. CASE Above(p) = Top  BY <3>1 DEF Rooted
    <3>2. CASE Above(p) # Top
      <4>1. Above(p) \in Linked(to)
        BY <2>4, <3>2 DEF Linked, At, LivePages, LiveOf, Ids
      <4>2. pages'[Above(p)].parent \in LivePages
        BY <2>4, <2>7, <2>10, <4>1 DEF LivePages, LiveOf, Ids
      <4> QED  BY <2>14, <4>2 DEF Rooted, LivePages, LiveOf, Ids
    <3> QED  BY <3>1, <3>2
  <2>18. Coherent(pages', Housed(fam))
    <3>1. Coherent(pages, Housed(fam))  BY DEF Nested
    <3>2. \A j \in Ids' \ LiveOf(pages') : pages'[j].parent = NoId
      BY <2>7, <2>9, <2>10, <2>11, <3>1 DEF Coherent, Ids, LivePages
    <3>3. \A j \in LiveOf(pages') : IsPath(pages'[j].path) /\ (j # Top => pages'[j].path # <<>>)
      BY <2>10, <2>11, <3>1 DEF Coherent, LiveOf, Ids
    <3>4. ASSUME NEW j \in LiveOf(pages') \ {Top}
          PROVE  \/ pages'[j].parent \in Housed(fam) \cup {NoId}
                 \/ Hangs(pages', j)
                 \/ /\ j \in LiveOf(pages) /\ pages'[j].path = pages[j].path
                    /\ pages'[j].parent = pages[j].parent
                    /\ pages[j].parent \notin Housed(fam) \cup {NoId}
                    /\ pages[j].parent \in LiveOf(pages')
      <4>1. j \in LiveOf(pages) /\ j \in Ids  BY <2>11 DEF LiveOf, Ids
      <4>2. CASE j \in Linked(to)
        <5>1. pages[j].path \in Ancestors(to) /\ pages'[j].parent = Above(pages[j].path)
          BY <2>7, <2>10, <4>1, <4>2
        <5>2. PICK a : a = Above(pages[j].path)  OBVIOUS
        <5>3. /\ a \in LivePages /\ pages[a].path = Dirname(pages[j].path)
              /\ Rooted(pages', a)
          BY <2>4, <2>17, <5>1, <5>2
        <5>4. pages'[a].path = pages[a].path /\ pages'[j].path = pages[j].path
          BY <2>10, <4>1, <5>3 DEF LivePages, LiveOf, Ids
        <5> QED  BY <2>11, <5>1, <5>2, <5>3, <5>4 DEF Hangs, Dirname, LivePages
      <4>3. CASE j \notin Linked(to)
        <5>1. pages'[j].path = pages[j].path /\ pages'[j].parent = pages[j].parent
          BY <2>10, <4>1, <4>3
        <5>2. pages[j].parent \notin Housed(fam) \cup {NoId} => pages[j].parent \in LiveOf(pages)
          BY <3>1, <4>1 DEF Coherent
        <5> QED  BY <2>11, <4>1, <5>1, <5>2
      <4> QED  BY <4>2, <4>3
    <3> QED  BY <2>9, <2>16, <3>1, <3>2, <3>3, <3>4, CoherentStays DEF Ids
  <2>19. \A s \in Runs : Open(s) /\ On(s, "adopt") =>
            \A p \in Ancestors(to) \cup {to} : work[s].parent # Above(p)
    <3> SUFFICES ASSUME NEW s \in Runs, Open(s), On(s, "adopt"),
                        NEW p \in Ancestors(to) \cup {to}
                 PROVE  work[s].parent # Above(p)
      OBVIOUS
    <3>1. PICK q : q = Dirname(p)  OBVIOUS
    <3>2. At(q) # {}  BY <2>3, <2>4, <3>1 DEF to
    <3>3. At(q) \in SUBSET LivePages /\ \A i \in At(q) : pages[i].path = q
      BY DEF At, LivePages, LiveOf, Ids
    <3>4. \A i \in LivePages : Rooted(pages, i) /\ pages[i].path = q => i \in At(q)
      BY DEF At, LivePages, LiveOf, Ids
    <3>5. work[s].parent # Earliest(At(q))
      BY <3>2, <3>3, <3>4, EarliestIsNoReplacement DEF Typed
    <3> QED  BY <3>1, <3>5 DEF Above
  <2>20. \A s \in Runs \ {r} : Open(s) => Spared(s, fam)
    <3> SUFFICES ASSUME NEW s \in Runs \ {r}, Open(s)  PROVE Spared(s, fam)
      OBVIOUS
    <3>1. Recorded' \subseteq Recorded /\ work'[s] = work[s]
      BY <2>1 DEF GoesOn, OpsStay, Others
    <3>2. \A j \in LivePages \ Housed(fam) : pages'[j].kind = pages[j].kind
      BY <2>10 DEF LivePages, LiveOf, Ids
    <3>3. On(s, "adopt") => work[s].parent \notin P  BY <2>19
    <3> HIDE DEF P
    <3> QED  BY <2>12, <3>1, <3>2, <3>3, AltersSpares
  <2>21. /\ work'[r].at = (IF Rename(r) THEN "put" ELSE "save") /\ work'[r].parent = Above(to)
         /\ work'[r].id = work[r].id /\ work'[r].copy = work[r].copy /\ work'[r].to = to
    <3>1. work'[r] = [work[r] EXCEPT !.at = IF Rename(r) THEN "put" ELSE "save",
                                     !.parent = Above(to)]
      BY <2>3 DEF Typed, Held, WorkShape, to
    <3> QED  BY <1>1, <3>1 DEF IsRun, HasFields, to
  <2>22. ASSUME Housed(fam)' = Housed(fam)  PROVE Placing(r, fam)'
    <3>1. PICK a : a = Above(to)  OBVIOUS
    <3>2. /\ a \in LivePages /\ a \notin Housed(fam) /\ pages[a].path = Dirname(to)
          /\ Rooted(pages', a)
      BY <2>4, <2>6, <2>17, <3>1
    <3>3. pages'[a].path = Front(to)
      BY <2>10, <3>2 DEF Dirname, LivePages, LiveOf, Ids
    <3>4. Anchored(pages', Housed(fam)', a, Front(to))
      BY <2>22, <3>2, <3>3 DEF Anchored, Pinned
    <3>5. ASSUME NEW s \in Runs, Open(s)', On(s, "adopt")'  PROVE work'[s].parent # a
      <4>1. s # r  BY <2>21, <3>5 DEF On
      <4>2. work'[s] = work[s]  BY <2>1, <4>1 DEF GoesOn, Others
      <4>3. Open(s) /\ On(s, "adopt")  BY <3>5, <4>2 DEF Open, On
      <4> QED  BY <2>19, <3>1, <4>2, <4>3
    <3> QED  BY <2>21, <3>1, <3>4, <3>5 DEF Placing
  <2>23. ASSUME Housed(fam)' = Housed(fam)  PROVE Stands(r, fam, left)'
    <3>1. Creating(r, fam) /\ Treading(r)  BY <1>1, RunStands
    <3> QED
      BY <1>1, <2>1, <2>9, <2>14, <2>16, <2>21, <2>22, <2>23, <3>1, GoneStands DEF AfterBatches
  <2>24. AtsMatch(work[r].kind, work[r].at, work'[r].at) /\ ~Late(work'[r].kind, work'[r].at)
    BY <1>1, <2>21 DEF AtsMatch, Late, Rename
  <2>25. ~On(r, "adopt")'  BY <2>21 DEF On
  <2> QED
    BY <2>0, <2>1, <2>9, <2>13, <2>16, <2>18, <2>20, <2>23, <2>24, <2>25, AwayNests
<1> QED  BY <1>2, <1>3

LEMMA ParentsAreOut ==
    ASSUME NEW fam, NEW left, Housings(fam, left), NEW j \in Ids, j \notin Housed(fam)
    PROVE  pages[j].parent \notin Housed(fam)
<1> SUFFICES ASSUME pages[j].parent \in Housed(fam)  PROVE FALSE
  OBVIOUS
<1>1. PICK q \in Runs : Broad(q) /\ pages[j].parent \in House(q, fam[q])  BY DEF Housed
<1>2. Family(pages, Claimed(q), fam[q], left[q])  BY <1>1 DEF Housings
<1>3. j \in fam[q]  BY <1>1, <1>2 DEF Family, House, Ids
<1>4. j \in House(q, fam[q])  BY <1>3 DEF House, HouseOf
<1> QED  BY <1>1, <1>4 DEF Housed

LEMMA PagesAreBelow ==
    ASSUME NEW fam, NEW left, Nested(fam, left), NEW j \in LivePages \ {Top},
           j \notin Housed(fam), pages[j].parent # NoId
    PROVE  /\ pages[j].parent \in LivePages /\ Rooted(pages, pages[j].parent)
           /\ pages[j].parent \notin Housed(fam)
           /\ Front(pages[j].path) = pages[pages[j].parent].path
<1>1. pages[j].parent \notin Housed(fam)  BY ParentsAreOut DEF Nested, LivePages, LiveOf, Ids
<1>2. Coherent(pages, Housed(fam)) /\ j \in LiveOf(pages) \ {Top}  BY DEF Nested, LivePages
<1> QED  BY <1>1, <1>2 DEF Coherent, LivePages

(* Up from a page that nobody moves or removes there are such pages only, at *)
(* the paths above it.                                                       *)
LEMMA ChainIsOut ==
    ASSUME Typed, NEW fam, NEW left, Nested(fam, left), NEW p \in LivePages,
           p \notin Housed(fam), Rooted(pages, p)
    PROVE  Climbed(p) \subseteq {NoId} \cup
              {j \in LivePages : j \notin Housed(fam) /\ Rooted(pages, j)
                                   /\ IsPrefix(pages[j].path, pages[p].path)}
<1> DEFINE C == {NoId} \cup
              {j \in LivePages : j \notin Housed(fam) /\ Rooted(pages, j)
                                   /\ IsPrefix(pages[j].path, pages[p].path)}
<1>1. \A j \in LivePages : pages[j].path \in Paths /\ j \in Ids
  BY DEF Typed, IsCollection, IsDocument, LivePages, LiveOf, Paths, Ids
<1>2. p \in C  BY <1>1, PrefixReflexive
<1>3. ASSUME NEW j \in C \cap Ids  PROVE pages[j].parent \in C
  <2>1. NoId \notin Ids  BY IsCollectionHasNoId DEF Typed, Ids
  <2>2. /\ j \in LivePages /\ j \notin Housed(fam) /\ Rooted(pages, j)
        /\ IsPrefix(pages[j].path, pages[p].path)
    BY <1>3, <2>1
  <2>3. CASE pages[j].parent = NoId  BY <2>3
  <2>4. CASE pages[j].parent # NoId
    <3>0. PICK k : k = pages[j].parent  OBVIOUS
    <3>1. j # Top  BY <2>4 DEF Typed, IsCollection
    <3>2. /\ k \in LivePages /\ Rooted(pages, k) /\ k \notin Housed(fam)
          /\ Front(pages[j].path) = pages[k].path
      BY <2>2, <2>4, <3>0, <3>1, PagesAreBelow
    <3>3. pages[j].path # <<>>  BY <2>2, <3>1 DEF Nested, Coherent, LivePages
    <3>4. IsPrefix(pages[k].path, pages[j].path)
      BY <1>1, <2>2, <3>2, <3>3, FrontIsPath DEF IsStrictPrefix
    <3>5. IsPrefix(pages[k].path, pages[p].path)
      BY <1>1, <2>2, <3>2, <3>4, PrefixTransitive
    <3> QED  BY <3>0, <3>2, <3>5
  <2> QED  BY <2>3, <2>4
<1>4. Size \in Nat  BY IdsAreCounted DEF Typed
<1> HIDE DEF C
<1>5. Climbed(p) \subseteq C  BY <1>2, <1>3, <1>4, ClimbedIsClosed
<1> QED  BY <1>5 DEF C

(* What is pruned is none of what anybody moves or removes.                  *)
LEMMA PrunedAreOut ==
    ASSUME Typed, Ordered, NEW fam, NEW left, Nested(fam, left), NEW o \in Runs, Claiming(o),
           NEW j \in LeafEmpties(Claim(o).copy.parent)
    PROVE  /\ j \in LivePages /\ j \notin Housed(fam) /\ pages[j].kind = "empty"
           /\ IsPrefix(pages[j].path, Front(From(o)))
           /\ \A k \in Ids : pages[k].parent = j => k \in LeafEmpties(Claim(o).copy.parent)
           /\ j = Claim(o).copy.parent \/ Children(j) # {}
<1>0. PICK p : p = Claim(o).copy.parent  OBVIOUS
<1>1. /\ j \in Ids /\ pages[j].kind = "empty" /\ j \in Climbed(p) /\ Found(p)
      /\ \A k \in Ids : pages[k].parent = j => k \in LeafEmpties(p)
  BY <1>0, LeafEmptiesAreLeaves DEF Typed
<1>2. j \in LivePages  BY <1>1 DEF LivePages, LiveOf, Ids
<1>3. NoId \notin Ids  BY IsCollectionHasNoId DEF Typed, Ids
<1>4. Anchored(pages, Housed(fam), p, Front(From(o)))  BY <1>0 DEF Nested, Formers
<1>5. CASE p \in LivePages
  <2>1. p \notin Housed(fam) /\ Rooted(pages, p) /\ pages[p].path = Front(From(o))
    BY <1>4, <1>5 DEF Anchored, Pinned, LivePages
  <2>2. j \notin Housed(fam) /\ IsPrefix(pages[j].path, Front(From(o)))
    BY <1>1, <1>3, <1>5, <2>1, ChainIsOut
  <2>3. j = p \/ Children(j) # {}
    <3>1. CASE j = p  BY <3>1
    <3>2. CASE j # p /\ Children(j) = {}
      <4> DEFINE C == (Ids \cup {NoId}) \ {j}
      <4>1. p \in C /\ \A k \in C \cap Ids : pages[k].parent \in C
        BY <1>1, <3>2 DEF Children, Typed, IsCollection, IsDocument, Found, Ids
      <4>2. Size \in Nat  BY IdsAreCounted DEF Typed
      <4> HIDE DEF C
      <4>3. Climbed(p) \subseteq C  BY <4>1, <4>2, ClimbedIsClosed
      <4> QED  BY <1>1, <4>3 DEF C
    <3> QED  BY <3>1, <3>2
  <2> QED  BY <1>0, <1>1, <1>2, <2>2, <2>3
<1>6. CASE p \notin LivePages
  <2>1. p \in Ids /\ pages[p].parent = NoId
    BY <1>1, <1>6, NestedDeads DEF Found
  <2> DEFINE C == {p, NoId}
  <2>2. p \in C /\ \A k \in C \cap Ids : pages[k].parent \in C  BY <1>3, <2>1
  <2>3. Size \in Nat  BY IdsAreCounted DEF Typed
  <2> HIDE DEF C
  <2>4. Climbed(p) \subseteq C  BY <2>2, <2>3, ClimbedIsClosed
  <2>5. j = p  BY <1>1, <1>3, <2>4 DEF C
  <2> QED  BY <1>2, <1>6, <2>5
<1> QED  BY <1>5, <1>6

LEMMA PrunedNests ==
    ASSUME Typed, Typed', Ordered, Ordered', NEW fam, NEW left, Nested(fam, left),
           NEW r \in Runs, Pruned(r), ~history'.stale
    PROVE  Nested(fam, left)'
<1>0. GoesOn(r)  BY PrunedGoes, SMTT(60) DEF Typed
<1>1. IsRun(work[r]) /\ work[r].at = "pruned" /\ work[r].kind \in {"rename", "delete", "erase"}
  BY RunsAreRuns, SMTT(60) DEF Typed, Held, Pruned, On, IsRun, Early, Holding, Late
<1>2. PICK o \in Runs : o = work[r].op  BY <1>1 DEF IsRun
<1>3. Claiming(o) /\ Claim(o).copy = work[r].copy
  <2>1. CASE work[r].kind = "rename"
    <3>1. Holds(r, o)  BY <1>1, <1>2, <2>1 DEF Holds, Holding
    <3> QED  BY <3>1, <2>1, HolderClaims DEF Broad, Create
  <2>2. CASE work[r].kind # "rename"
    <3>1. Open(r)  BY <1>1, <2>2 DEF Open, Early
    <3>2. Passed(r)  BY <1>1, <2>2, <3>1 DEF Passed, On, Create
    <3> QED  BY <1>2, <3>1, <3>2, OpenClaims DEF Typed
  <2> QED  BY <2>1, <2>2
<1> DEFINE S == work[r].ids
<1>4. /\ S = LeafEmpties(Claim(o).copy.parent)
      /\ pages' = [i \in Ids |-> IF i \in S THEN NoPage ELSE pages[i]]
      /\ work' = [work EXCEPT ![r].ids = {}, ![r].at =
            IF Removes(r) /\ work[r].recursively THEN "recordDelete"
            ELSE IF Removes(r) THEN "answered" ELSE "done"]
  <2>1. history' = [history EXCEPT !.stale = @ \/ S # LeafEmpties(work[r].copy.parent)]
    BY DEF Pruned, Stale
  <2>2. history'.stale = (history.stale \/ S # LeafEmpties(work[r].copy.parent))
    BY <2>1 DEF Typed, Held, HasHistory
  <2> QED  BY <1>3, <2>2 DEF Pruned
<1>5. \A j \in S : /\ j \in LivePages /\ j \notin Housed(fam) /\ pages[j].kind = "empty"
                   /\ IsPrefix(pages[j].path, Front(From(o)))
                   /\ \A k \in Ids : pages[k].parent = j => k \in S
                   /\ j = Claim(o).copy.parent \/ Children(j) # {}
  BY <1>3, <1>4, PrunedAreOut
<1> HIDE DEF S
<1>6. Ids' = Ids  BY <1>4 DEF Ids
<1>7. /\ \A j \in Ids \ S : pages'[j] = pages[j]
      /\ \A j \in Ids \cap S : pages'[j] = NoPage
  BY <1>4
<1>8. LiveOf(pages') = LiveOf(pages) \ S
  BY <1>6, <1>7 DEF LiveOf, NoPage, Ids
<1>9. Alters(pages, pages', S, {})
  <2>1. \A j \in Ids' : pages'[j].parent = NoId \/ pages'[j].parent = pages[j].parent
    BY <1>6, <1>7 DEF NoPage
  <2> QED  BY <1>6, <1>7, <1>8, <2>1 DEF Alters, Stays, Ids
<1>10. \A q \in Runs : Broad(q) => Untouched(pages, pages', Claimed(q), fam[q])
  <2> SUFFICES ASSUME NEW q \in Runs, Broad(q)
               PROVE  Untouched(pages, pages', Claimed(q), fam[q])
    OBVIOUS
  <2>1. \A i \in S \cap LivePages : i \notin House(q, fam[q])  BY <1>5 DEF Housed
  <2> QED  BY <1>9, <2>1, AllUntouched
<1>11. Steady(pages, pages', Housed(fam))
  BY <1>7, <1>8 DEF Steady, Rooted, LiveOf, Ids
<1>12. Coherent(pages', Housed(fam))
  <2>1. Coherent(pages, Housed(fam))  BY DEF Nested
  <2>2. \A j \in Ids' \ LiveOf(pages') : pages'[j].parent = NoId
    BY <1>6, <1>7, <1>8, <2>1 DEF Coherent, Ids, NoPage
  <2>3. \A j \in LiveOf(pages') : /\ j \in Ids \ S /\ j \in LiveOf(pages)
                                  /\ pages'[j] = pages[j]
    BY <1>7, <1>8 DEF LiveOf, Ids
  <2>4. \A j \in LiveOf(pages') : IsPath(pages'[j].path) /\ (j # Top => pages'[j].path # <<>>)
    BY <2>1, <2>3 DEF Coherent
  <2>5. ASSUME NEW j \in LiveOf(pages') \ {Top}
        PROVE  \/ pages'[j].parent \in Housed(fam) \cup {NoId}
               \/ /\ j \in LiveOf(pages) /\ pages'[j].path = pages[j].path
                  /\ pages'[j].parent = pages[j].parent
                  /\ pages[j].parent \notin Housed(fam) \cup {NoId}
                  /\ pages[j].parent \in LiveOf(pages')
    <3>1. j \in LiveOf(pages) /\ pages'[j] = pages[j] /\ j \in Ids \ S  BY <2>3
    <3>2. pages[j].parent \notin S  BY <1>5, <3>1
    <3>3. pages[j].parent \notin Housed(fam) \cup {NoId} => pages[j].parent \in LiveOf(pages)
      BY <2>1, <3>1 DEF Coherent
    <3> QED  BY <1>8, <3>1, <3>2, <3>3
  <2> QED  BY <1>6, <1>11, <2>1, <2>2, <2>4, <2>5, CoherentStays DEF Ids
<1>13. \A s \in Runs \ {r} : Open(s) => Spared(s, fam)
  <2> SUFFICES ASSUME NEW s \in Runs \ {r}, Open(s)  PROVE Spared(s, fam)
    OBVIOUS
  <2>0. Recorded' \subseteq Recorded  BY <1>0 DEF GoesOn, OpsStay
  <2>1. ~Open(r)  BY DEF Ordered, OneOpen
  <2>2. work[r].kind = "rename"  BY <1>1, <2>1 DEF Open, Early
  <2>3. Broad(o)
    <3>1. Holds(r, o)  BY <1>1, <1>2, <2>2 DEF Holds, Holding
    <3> QED  BY <2>2, <3>1, HolderClaims DEF Create
  <2>4. CASE On(s, "adopt")
    <3>0. PICK d, n : d = work[s].id /\ n = work[s].parent  OBVIOUS
    <3>1. Stands(s, fam, left)  BY DEF Nested, Open
    <3>2. /\ d \in LivePages /\ n \in LivePages /\ pages[d].kind = "page" /\ Children(n) = {}
          /\ Claim(o).copy.parent # n
      BY <1>3, <2>4, <3>0, <3>1 DEF Stands, Adopting, Open
    <3>3. d \notin S /\ n \notin S  BY <1>5, <3>2
    <3>4. d \in LivePages' /\ n \in LivePages'  BY <1>8, <3>2, <3>3 DEF LivePages
    <3>5. pages'[d].kind = "page"  BY <1>7, <3>2, <3>3 DEF LivePages, LiveOf, Ids
    <3>6. n # NoId  BY <3>2, IsCollectionHasNoId DEF Typed, LivePages, LiveOf
    <3>7. Children(n)' = {}
      BY <1>6, <1>7, <3>2, <3>6 DEF Children, NoPage
    <3>8. work'[s] = work[s]  BY <1>0 DEF GoesOn, Others
    <3> QED  BY <2>0, <2>4, <3>0, <3>4, <3>5, <3>7, <3>8 DEF Spared, On
  <2>5. CASE On(s, "check")
    <3> SUFFICES ASSUME Free(work[s].copy.path), work[s].id \in LivePages \ Housed(fam),
                        pages[work[s].id].path = work[s].copy.path
                 PROVE  work[s].id \in LivePages'
      BY <2>0, <2>5 DEF Spared, On
    <3>1. From(o) \in PathsOf(o) /\ From(o) # <<>> /\ From(o) \in Paths
      BY <1>3, ClaimFits
    <3>2. ~EitherOverlap(From(o), work[s].copy.path)  BY <2>3, <3>1 DEF Free
    <3>3. Front(From(o)) \in Paths /\ IsPrefix(Front(From(o)), From(o))
      BY <3>1, FrontIsPath DEF IsStrictPrefix
    <3>4. work[s].copy.path \in Paths
      BY DEF Typed, IsCollection, IsDocument, LivePages, LiveOf, Paths
    <3>5. ~IsPrefix(work[s].copy.path, Front(From(o)))
      BY <3>1, <3>2, <3>3, <3>4, PrefixTransitive DEF EitherOverlap, AreaOverlap
    <3>6. work[s].id \notin S  BY <1>5, <3>5
    <3> QED  BY <1>8, <3>6 DEF LivePages
  <2>6. CASE ~On(s, "adopt") /\ ~On(s, "check")  BY <2>0, <2>6 DEF Spared
  <2> QED  BY <2>4, <2>5, <2>6
<1>14. /\ work'[r].at = (IF Removes(r) /\ work[r].recursively THEN "recordDelete"
                         ELSE IF Removes(r) THEN "answered" ELSE "done")
       /\ work'[r].id = work[r].id /\ work'[r].copy = work[r].copy
  <2>1. work'[r] = [work[r] EXCEPT !.ids = {}, !.at =
            IF Removes(r) /\ work[r].recursively THEN "recordDelete"
            ELSE IF Removes(r) THEN "answered" ELSE "done"]
    BY <1>4 DEF Typed, Held, WorkShape
  <2> QED  BY <1>1, <2>1 DEF IsRun, HasFields
<1>15. ASSUME Housed(fam)' = Housed(fam)  PROVE Stands(r, fam, left)'
  <2>1. Creating(r, fam) /\ Treading(r) /\ Batched(r, fam[work[r].op], left[work[r].op])
    BY <1>1, RunStands
  <2>2. NoId \notin Ids'  BY IsCollectionHasNoId DEF Typed, Ids
  <2>3. work[r].kind = "rename" => left[work[r].op] = {}
    BY <1>1, <2>1 DEF Batched, AfterBatches, Rename, Holding
  <2>4. Unwatched(work[r], work'[r].at)
    BY <1>1, <1>14 DEF Unwatched, Watched, Removes, Delete, Erase
  <2> QED
    BY <1>0, <1>1, <1>6, <1>11, <1>14, <1>15, <2>1, <2>2, <2>3, <2>4, PlainStands
<1>16. AtsMatch(work[r].kind, work[r].at, work'[r].at) /\ ~Late(work'[r].kind, work'[r].at)
  BY <1>1, <1>14 DEF AtsMatch, Late
<1>17. ~On(r, "adopt")'  BY <1>14 DEF On
<1> QED
  BY <1>0, <1>2, <1>6, <1>10, <1>11, <1>12, <1>13, <1>15, <1>16, <1>17, AwayNests

LEMMA PlacedThere ==
    ASSUME Typed, NEW path, NEW i \in At(path)
    PROVE  i \in LivePages /\ pages[i].path = path /\ i \in Ids /\ i # NoId
  BY IsCollectionHasNoId DEF Typed, At, LivePages, LiveOf, Ids

LEMMA SaveNests ==
    ASSUME Typed, Typed', Ordered, Ordered', NEW fam, NEW left, Nested(fam, left), KindsKept,
           NEW r \in Runs, Save(r), ~history'.stale
    PROVE  Nested(fam, left)'
<1>1. IsRun(work[r]) /\ work[r].at = "save" /\ work[r].kind = "create" /\ Open(r)
  BY RunsAreRuns DEF Typed, Held, Save, On, IsRun, Early, Holding, Late, Open
<1>a. CASE Throw(r)
  <2>1. up' = up  BY DEF Save, Unchanged
  <2>2. history'.damaged = (history.damaged \/ Dirty(r))
    <3>1. history' = [history EXCEPT !.damaged = @ \/ Dirty(r), !.stopped = @ \/ ~Cleaned(r)]
      BY <1>a DEF Throw
    <3> QED  BY <3>1 DEF Typed, Held, HasHistory
  <2>3. Leaves(r) /\ ops' = ops /\ pages' = pages
    <3>1. ~Cleaned(r)  BY <1>1 DEF Cleaned, Rename, Removes, Delete, Erase
    <3>2. End(r) /\ ops' = ops /\ pages' = pages  BY <1>a, <3>1 DEF Throw
    <3>3. Others(r) /\ work'[r] = Over
      BY <2>1, <3>2 DEF End, Others, Typed, Held, WorkShape
    <3> QED  BY <1>1, <3>2, <3>3 DEF Leaves
  <2>4. SamePlaces(pages, pages')  BY <2>3, KeptPlaces
  <2> QED  BY <1>1, <2>3, <2>4, EarlyLeavingNests DEF Open
<1>b. CASE ~Throw(r)
  <2>0. GoesOn(r)  BY <1>b, SaveGoes DEF Typed
  <2>1. PICK id, page :
              /\ id = (IF work[r].id = NoId THEN Size ELSE work[r].id)
              /\ id # Top /\ id \in Ids \cup {Size} /\ (work[r].id # NoId => Found(id))
              /\ page.kind = "page" /\ IsDocument(page, Ids)
              /\ page.path = (IF work[r].id = NoId THEN work[r].to ELSE pages[id].path)
              /\ \/ page.parent = work[r].parent
                 \/ work[r].id # NoId /\ page.parent = pages[id].parent
              /\ DOMAIN pages' = Ids \cup {id} /\ pages'[id] = page
              /\ \A i \in Ids \ {id} : pages'[i] = pages[i]
              /\ work' = [work EXCEPT ![r].at = "recordCreate", ![r].id = id, ![r].copy = page]
              /\ UNCHANGED <<ops, asked>> /\ history'.fresh = history.fresh \cup {id}
              /\ history'.stale = (history.stale
                                     \/ work[r].parent \notin At(Dirname(work[r].to)))
    BY <1>b, SaveWrites
  <2>2. PICK par, to : par = work[r].parent /\ to = work[r].to  OBVIOUS
  <2>3. IsPath(to) /\ to # <<>> /\ to \in Paths
    BY <1>1, <2>2 DEF Typed, RunTyped, IsPath, Paths
  <2>4. par \in LivePages /\ pages[par].path = Front(to) /\ par \in Ids /\ par # NoId
    <3>1. par \in At(Dirname(to))  BY <2>1, <2>2
    <3> QED  BY <3>1, PlacedThere DEF Dirname
  <2>5. par \notin Housed(fam) /\ Rooted(pages, par)
    <3>1. Placing(r, fam)  BY <1>1, RunStands
    <3> QED  BY <1>1, <2>2, <2>4, <3>1 DEF Placing, Anchored, Pinned, LivePages
  <2>6. work[r].id # NoId => id \in LivePages /\ id \notin Housed(fam) /\ pages[id].path = to
    <3> SUFFICES ASSUME work[r].id # NoId
                 PROVE  id \in LivePages /\ id \notin Housed(fam) /\ pages[id].path = to
      OBVIOUS
    <3>1. id = work[r].id /\ Found(id)  BY <2>1
    <3>2. Fills(r)  BY <1>1 DEF Fills, Create, On
    <3>3. pages[id].kind \notin {"trash", "none"}  BY <3>1, <3>2 DEF KindsKept, Found
    <3>4. id \in Ids  BY <3>1 DEF Found
    <3>5. id \in LivePages
      BY <3>3, <3>4 DEF LivePages, LiveOf, Typed, IsCollection, IsDocument, Ids
    <3>6. Creating(r, fam)  BY <1>1, RunStands
    <3> QED  BY <1>1, <2>2, <3>1, <3>5, <3>6 DEF Creating, Pinned, LivePages, Create, On
  <2>7. /\ Size \notin Ids /\ NoId \notin Ids
        /\ work[r].id = NoId => id \notin Ids
    BY <2>1, IdsAreCounted, IsCollectionHasNoId DEF Typed, Ids
  <2>8. page.path = to /\ (id \in Ids => id \in LivePages /\ id \notin Housed(fam) /\ pages[id].path = to)
    BY <2>1, <2>2, <2>6, <2>7
  <2>9. page.parent = par \/ (id \in Ids /\ page.parent = pages[id].parent)
    BY <2>1, <2>2, <2>6 DEF LivePages, LiveOf, Ids
  <2>10. /\ Ids \subseteq Ids' /\ LiveOf(pages') = LivePages \cup {id}
         /\ pages'[id] = page /\ \A i \in Ids \ {id} : pages'[i] = pages[i]
         /\ Ids' = Ids \cup {id} /\ page.kind = "page"
    BY <2>1 DEF LiveOf, LivePages, Ids
  <2> DEFINE S == {id}  P == {par}
  <2>11. Alters(pages, pages', S, P)
    BY <2>8, <2>9, <2>10 DEF Alters, Stays, LivePages, Ids
  <2>12. \A q \in Runs : Broad(q) => Untouched(pages, pages', Claimed(q), fam[q])
    <3> SUFFICES ASSUME NEW q \in Runs, Broad(q)
                 PROVE  Untouched(pages, pages', Claimed(q), fam[q])
      OBVIOUS
    <3>1. \A i \in S \cap LivePages : i \notin House(q, fam[q])
      BY <2>8 DEF Housed, LivePages, LiveOf, Ids
    <3>2. \A i \in P : i \notin House(q, fam[q])  BY <2>5 DEF Housed
    <3> HIDE DEF S, P
    <3> QED  BY <2>11, <3>1, <3>2, AllUntouched
  <2>13. Steady(pages, pages', Housed(fam))
    BY <2>4, <2>8, <2>9, <2>10 DEF Steady, Rooted, LivePages, Ids
  <2>14. (par # id /\ Hangs(pages', id)) \/ (id \in Ids /\ page.parent = pages[id].parent)
    <3> SUFFICES ASSUME page.parent = par  PROVE par # id /\ Hangs(pages', id)
      BY <2>9
    <3>1. Front(to) # to  BY <2>3, FrontIsPath
    <3>2. par # id  BY <2>4, <2>8, <3>1
    <3>3. pages'[par] = pages[par] /\ par \in LiveOf(pages')  BY <2>4, <2>10, <3>2
    <3>4. Rooted(pages', par)  BY <2>5, <3>3 DEF Rooted
    <3> QED  BY <2>4, <2>8, <2>10, <3>2, <3>3, <3>4 DEF Hangs
  <2>15. Coherent(pages', Housed(fam))
    <3>1. Coherent(pages, Housed(fam))  BY DEF Nested
    <3>2. \A j \in Ids' \ LiveOf(pages') : pages'[j].parent = NoId
      BY <2>10, <3>1 DEF Coherent, LivePages, Ids
    <3>3. \A j \in LiveOf(pages') :
              IsPath(pages'[j].path) /\ (j # Top => pages'[j].path # <<>>)
      BY <2>3, <2>8, <2>10, <3>1 DEF Coherent, LivePages, LiveOf, Ids
    <3>4. ASSUME NEW j \in LiveOf(pages') \ {Top}
          PROVE  \/ pages'[j].parent \in Housed(fam) \cup {NoId}
                 \/ Hangs(pages', j)
                 \/ /\ j \in LiveOf(pages) /\ pages'[j].path = pages[j].path
                    /\ pages'[j].parent = pages[j].parent
                    /\ pages[j].parent \notin Housed(fam) \cup {NoId}
                    /\ pages[j].parent \in LiveOf(pages')
      <4>1. \A i \in LiveOf(pages) \ {Top} : pages[i].parent \notin Housed(fam) \cup {NoId} =>
               pages[i].parent \in LivePages
        BY <3>1 DEF Coherent, LivePages
      <4>2. CASE j = id  BY <2>8, <2>10, <2>14, <4>1, <4>2 DEF LivePages
      <4>3. CASE j # id
        <5>1. j \in LivePages /\ j \in Ids /\ pages'[j] = pages[j]
          BY <2>10, <4>3 DEF LivePages, LiveOf, Ids
        <5> QED  BY <2>10, <4>1, <5>1 DEF LivePages
      <4> QED  BY <4>2, <4>3
    <3> QED  BY <2>10, <2>13, <3>1, <3>2, <3>3, <3>4, CoherentStays DEF Ids
  <2>16. \A s \in Runs \ {r} : ~Open(s)  BY <1>1 DEF Ordered, OneOpen
  <2>17. work'[r].at = "recordCreate" /\ work'[r].kind = "create"
    <3>1. work'[r] = [work[r] EXCEPT !.at = "recordCreate", !.id = id, !.copy = page]
      BY <2>1 DEF Typed, Held, WorkShape
    <3> QED  BY <1>1, <3>1 DEF IsRun, HasFields
  <2>18. Stands(r, fam, left)'
    <3>1. (Checking(r, fam) /\ Placing(r, fam) /\ Creating(r, fam) /\ Planting(r) /\ Adopting(r, fam))'
      BY <2>17 DEF Checking, Placing, Creating, Planting, Adopting, On
    <3>2. Treading(r)'  BY <2>17 DEF Treading, On, Removes, Delete, Erase, Rename
    <3>3. \A F, L : (Batching(r, F, L) /\ Batched(r, F, L))'
      BY <2>17 DEF Batching, Batched, On, AfterBatches, Rename, Removes, Delete, Erase
    <3> QED  BY <3>1, <3>2, <3>3 DEF Stands
  <2>19. PICK o \in Runs : o = work[r].op  BY <1>1 DEF IsRun
  <2>20. ~Broad(o) /\ ~Late(work'[r].kind, work'[r].at) /\ ~On(r, "adopt")'
    <3>1. o = r  BY <1>1, <2>19, OpenClaims DEF Typed
    <3> QED  BY <1>1, <2>17, <3>1, OpenClaims DEF Typed, Passed, Create, Late, On
  <2> QED
    BY <2>0, <2>10, <2>12, <2>13, <2>15, <2>16, <2>18, <2>19, <2>20, AwayNests
<1> QED  BY <1>a, <1>b, SMTT(60)

(* Whom a removal that is not recursive touches.                             *)
LEMMA TargetIsFree ==
    ASSUME Typed, Ordered, NEW fam, NEW left, Nested(fam, left), NEW r \in Runs, Passed(r),
           ~work[r].recursively, pages[work[r].id] = work[r].copy, work[r].kind # "create"
    PROVE  /\ work[r].id \in LivePages \ {Top} /\ work[r].id \notin Housed(fam)
           /\ work[r].copy.parent \notin Housed(fam) /\ work[r].copy.parent # NoId
           /\ work[r].copy.parent \in LivePages /\ Rooted(pages, work[r].copy.parent)
           /\ Front(work[r].copy.path) = pages[work[r].copy.parent].path
<1>1. IsRun(work[r]) /\ Open(r)  BY DEF Passed, Open
<1>2. /\ work[r].id \in Ids \ {Top} /\ work[r].copy.kind \in {"page", "empty"}
  BY <1>1, IsCollectionHasNoId DEF Typed, RunTyped, Ids
<1>3. work[r].id \in LivePages  BY <1>2 DEF LivePages, LiveOf, Ids
<1>4. work[r].id \notin Housed(fam)
  <2> SUFFICES ASSUME work[r].id \in Housed(fam)  PROVE FALSE
    OBVIOUS
  <2>1. PICK o \in Runs : Broad(o) /\ InArea(o, pages[work[r].id].path)
    BY <1>3, HousedInArea DEF Nested
  <2> QED  BY <2>1 DEF Ordered, Outside
<1>5. Claiming(r) /\ Claim(r) = work[r] /\ From(r) = work[r].copy.path
  BY <1>1, OpenClaims DEF Typed
<1>6. work[r].copy.parent \notin Housed(fam)
  BY <1>5 DEF Nested, Formers, Anchored, Pinned
<1>7. work[r].copy.parent # NoId  BY <1>5, ClaimFits DEF CopyFits
<1>8. Coherent(pages, Housed(fam))  BY DEF Nested
<1>9. pages[work[r].id].parent \notin Housed(fam) \cup {NoId}  BY <1>6, <1>7
<1>10. work[r].id \in LiveOf(pages) \ {Top}  BY <1>2, <1>3 DEF LivePages
<1>11. /\ pages[work[r].id].parent \in LiveOf(pages) /\ Rooted(pages, pages[work[r].id].parent)
       /\ Front(pages[work[r].id].path) = pages[pages[work[r].id].parent].path
  BY <1>8, <1>9, <1>10 DEF Coherent
<1> QED  BY <1>2, <1>3, <1>4, <1>6, <1>7, <1>11 DEF LivePages

LEMMA ReplaceNests ==
    ASSUME Typed, Typed', Ordered, Ordered', NEW fam, NEW left, Nested(fam, left),
           NEW r \in Runs, Replace(r), ~history'.stale, ~history'.damaged
    PROVE  Nested(fam, left)'
<1>1. IsRun(work[r]) /\ work[r].at = "replace" /\ work[r].kind \in {"delete", "erase"}
  BY RunsAreRuns DEF Typed, Held, Replace, On, IsRun, Early, Holding, Late
<1>2. CASE Throw(r)
  <2>1. up' = up  BY DEF Replace, Unchanged
  <2> QED  BY <1>1, <1>2, <2>1, ThrowNests
<1>3. CASE ~Throw(r)
  <2>0. GoesOn(r)  BY <1>3, ReplaceGoes DEF Typed
  <2>a. PICK d, n, copy : d = work[r].id /\ n = Size /\ copy = work[r].copy  OBVIOUS
  <2>b. Open(r) /\ Passed(r) /\ ~work[r].recursively
    BY <1>1 DEF Open, Early, Passed, On, Create, Ordered, RunsFit, RunFits
  <2>1. /\ pages' = Joined(pages, [i \in {NewId(0)} |-> [copy EXCEPT !.kind = "empty"]])
        /\ work' = [work EXCEPT ![r].at = "adopt", ![r].parent = NewId(0)]
        /\ pages[d] = copy
    <3>1. history' = [history EXCEPT !.stale = @ \/ (pages[work[r].id] # work[r].copy
                                                     \/ Children(work[r].id) = {})]
      BY <1>3 DEF Replace, Stale
    <3>2. history'.stale = (history.stale \/ (pages[work[r].id] # work[r].copy
                                                     \/ Children(work[r].id) = {}))
      BY <3>1 DEF Typed, Held, HasHistory
    <3> QED  BY <1>3, <2>a, <3>2 DEF Replace
  <2>2. NewId(0) = Size /\ Size \in Nat \ {0} /\ Size \notin Ids /\ Ids = 0 .. Size - 1 /\ NoId \notin Ids
    BY IdsAreCounted DEF Typed, NewId, Size
  <2>3. /\ d \in LivePages \ {Top} /\ d \notin Housed(fam) /\ d \in Ids
        /\ copy.parent \notin Housed(fam) /\ copy.parent # NoId
        /\ copy.parent \in LivePages /\ Rooted(pages, copy.parent) /\ copy.parent \in Ids
        /\ Front(copy.path) = pages[copy.parent].path
    BY <1>1, <2>a, <2>b, <2>1, TargetIsFree DEF LivePages, LiveOf, Ids
  <2>4. PICK doc : doc = [copy EXCEPT !.kind = "empty"]  OBVIOUS
  <2>5. doc.kind = "empty" /\ doc.path = copy.path /\ doc.parent = copy.parent
    BY <1>1, <2>a, <2>4 DEF Typed, RunTyped, IsDocument
  <2>6. /\ DOMAIN pages' = Ids \cup {n} /\ pages'[n] = doc /\ n \notin Ids
        /\ \A i \in Ids : pages'[i] = pages[i]
    BY <2>1, <2>2, <2>4, <2>a DEF Joined, Ids
  <2>7. /\ Ids \subseteq Ids' /\ Ids' = Ids \cup {n} /\ LiveOf(pages') = LivePages \cup {n}
    BY <2>5, <2>6 DEF LiveOf, LivePages, Ids
  <2> DEFINE S == {}  P == {copy.parent}
  <2>8. Alters(pages, pages', S, P)
    BY <2>5, <2>6, <2>7 DEF Alters, Stays, LivePages, Ids, LiveOf
  <2>9. \A q \in Runs : Broad(q) => Untouched(pages, pages', Claimed(q), fam[q])
    <3> SUFFICES ASSUME NEW q \in Runs, Broad(q)
                 PROVE  Untouched(pages, pages', Claimed(q), fam[q])
      OBVIOUS
    <3>1. \A i \in S \cap LivePages : i \notin House(q, fam[q])  OBVIOUS
    <3>2. \A i \in P : i \notin House(q, fam[q])  BY <2>3 DEF Housed
    <3> HIDE DEF S, P
    <3> QED  BY <2>8, <3>1, <3>2, AllUntouched
  <2>10. Steady(pages, pages', Housed(fam))
    BY <2>6, <2>7 DEF Steady, Rooted, LivePages, LiveOf, Ids
  <2>11. Hangs(pages', n)
    BY <2>3, <2>5, <2>6, <2>7 DEF Hangs, Rooted
  <2>12. IsPath(copy.path) /\ copy.path # <<>>
    BY <1>1, <2>a DEF Ordered, RunsFit, RunFits, CopyFits
  <2>13. Coherent(pages', Housed(fam))
    <3>1. Coherent(pages, Housed(fam))  BY DEF Nested
    <3>2. \A j \in Ids' \ LiveOf(pages') : pages'[j].parent = NoId
      BY <2>6, <2>7, <3>1 DEF Coherent, LivePages, Ids
    <3>3. \A j \in LiveOf(pages') :
              IsPath(pages'[j].path) /\ (j # Top => pages'[j].path # <<>>)
      BY <2>5, <2>6, <2>7, <2>12, <3>1 DEF Coherent, LivePages, LiveOf, Ids
    <3>4. ASSUME NEW j \in LiveOf(pages') \ {Top}
          PROVE  \/ pages'[j].parent \in Housed(fam) \cup {NoId}
                 \/ Hangs(pages', j)
                 \/ /\ j \in LiveOf(pages) /\ pages'[j].path = pages[j].path
                    /\ pages'[j].parent = pages[j].parent
                    /\ pages[j].parent \notin Housed(fam) \cup {NoId}
                    /\ pages[j].parent \in LiveOf(pages')
      <4>1. \A i \in LiveOf(pages) \ {Top} : pages[i].parent \notin Housed(fam) \cup {NoId} =>
               pages[i].parent \in LivePages
        BY <3>1 DEF Coherent, LivePages
      <4>2. CASE j = n  BY <2>11, <4>2
      <4>3. CASE j # n
        <5>1. j \in LivePages /\ j \in Ids /\ pages'[j] = pages[j]
          BY <2>6, <2>7, <4>3 DEF LivePages, LiveOf, Ids
        <5> QED  BY <2>7, <4>1, <5>1 DEF LivePages
      <4> QED  BY <4>2, <4>3
    <3> QED  BY <2>7, <2>10, <3>1, <3>2, <3>3, <3>4, CoherentStays DEF Ids
  <2>14. \A s \in Runs \ {r} : ~Open(s)  BY <2>b DEF Ordered, OneOpen
  <2>15. /\ work'[r].at = "adopt" /\ work'[r].kind = work[r].kind /\ work'[r].id = d
         /\ work'[r].copy = copy /\ work'[r].parent = n
    <3>1. work'[r] = [work[r] EXCEPT !.at = "adopt", !.parent = n]
      BY <2>1, <2>2, <2>a DEF Typed, Held, WorkShape
    <3> QED  BY <1>1, <2>a, <3>1 DEF IsRun, HasFields
  <2>16. ASSUME Housed(fam)' = Housed(fam)  PROVE Stands(r, fam, left)'
    <3>1. Creating(r, fam) /\ Treading(r)  BY <1>1, RunStands
    <3>2. NoId \notin Ids'  BY IsCollectionHasNoId DEF Typed, Ids
    <3>3. Adopting(r, fam)'
      <4>1. d < n  BY <2>2, <2>3, <2>a
      <4>2. copy.kind = "page"
        BY <1>1, <2>a, <2>b, <3>1 DEF Treading, Removes, Delete, Erase
      <4>3. d \in LivePages' /\ n \in LivePages'  BY <2>3, <2>7 DEF LivePages
      <4>4. d \notin Housed(fam)' /\ n \notin Housed(fam)'
        BY <2>3, <2>6, <2>16, HousedAreIds DEF Nested
      <4>5. Rooted(pages', d) /\ Rooted(pages', n)
        BY <2>1, <2>3, <2>5, <2>6 DEF Rooted
      <4>6. pages'[d].path = copy.path /\ pages'[n].path = copy.path /\ pages'[d].kind = "page"
        BY <2>1, <2>3, <2>5, <2>6, <4>2
      <4>7. Children(n)' = {}
        <5>1. \A j \in Ids : pages[j].parent \in Ids \cup {NoId}
          BY DEF Typed, IsCollection, IsDocument, Ids
        <5>2. n # NoId  BY <2>2, <2>a DEF NoId
        <5>3. \A j \in Ids' : pages'[j].parent # n
          BY <2>3, <2>5, <2>6, <2>7, <5>1, <5>2
        <5> QED  BY <5>3 DEF Children
      <4>8. ASSUME NEW o \in Runs, Claiming(o)'  PROVE Claim(o)'.copy.parent # n
        <5>1. Claiming(o) /\ SameClaim(Claim(o), Claim(o)')
          BY <2>0, <4>8, GoingOnSettles DEF Settled, Typed
        <5>2. Claim(o).copy.parent \in Ids \cup {NoId}  BY <5>1, ClaimTyped
        <5>3. n # NoId  BY <2>2, <2>a DEF NoId
        <5> QED  BY <2>6, <5>1, <5>2, <5>3 DEF SameClaim
      <4> QED
        BY <2>15, <4>1, <4>3, <4>4, <4>5, <4>6, <4>7, <4>8 DEF Adopting
    <3> QED
      BY <1>1, <2>0, <2>7, <2>10, <2>15, <2>16, <2>a, <3>1, <3>2, <3>3, GoneStands DEF AfterBatches
  <2>17. PICK o \in Runs : o = work[r].op  BY <1>1 DEF IsRun
  <2>18. ~Broad(o) /\ ~Late(work'[r].kind, work'[r].at)
    <3>1. o = r  BY <2>b, <2>17, OpenClaims DEF Typed
    <3> QED  BY <1>1, <2>b, <2>15, <3>1, OpenClaims DEF Typed, Late
  <2>19. work'[r].parent \notin Ids \cup {NoId}  BY <2>2, <2>6, <2>15, <2>a DEF NoId
  <2> QED
    BY <2>0, <2>7, <2>9, <2>10, <2>13, <2>14, <2>16, <2>17, <2>18, <2>19, AwayNests
<1> QED  BY <1>2, <1>3

LEMMA AdoptNests ==
    ASSUME Typed, Typed', Ordered, Ordered', NEW fam, NEW left, Nested(fam, left),
           NEW r \in Runs, Adopt(r)
    PROVE  Nested(fam, left)'
<1>0. GoesOn(r)  BY AdoptGoes DEF Typed
<1>1. IsRun(work[r]) /\ work[r].at = "adopt" /\ work[r].kind \in {"delete", "erase"}
  BY RunsAreRuns DEF Typed, Held, Adopt, On, IsRun, Early, Holding, Late
<1>2. Open(r) /\ Passed(r) /\ ~work[r].recursively
  BY <1>1 DEF Open, Early, Passed, On, Create, Ordered, RunsFit, RunFits
<1>3. PICK d, n : d = work[r].id /\ n = work[r].parent  OBVIOUS
<1>4. /\ d < n /\ d \in LivePages \ Housed(fam) /\ n \in LivePages \ Housed(fam)
      /\ Rooted(pages, d) /\ Rooted(pages, n) /\ pages[d].path = pages[n].path
  <2>1. Adopting(r, fam)  BY <1>1, RunStands
  <2> QED  BY <1>1, <1>3, <2>1 DEF Adopting, On
<1>5. /\ NoId \notin Ids /\ d \in Ids \cap Nat /\ n \in Ids \cap Nat /\ n # NoId /\ d # NoId
      /\ n # Top
  BY <1>4, IsCollectionHasNoId DEF Typed, Ids, LivePages, LiveOf, Top
<1>6. pages' = [i \in Ids |-> IF pages[i].parent = d THEN [pages[i] EXCEPT !.parent = n]
                              ELSE pages[i]]
  BY <1>3 DEF Adopt
<1>7. \A i \in Ids : /\ pages[i].parent # d => pages'[i] = pages[i]
                     /\ pages[i].parent = d => pages'[i].parent = n
                     /\ pages'[i].kind = pages[i].kind /\ pages'[i].path = pages[i].path
  <2> SUFFICES ASSUME NEW i \in Ids
               PROVE  /\ pages[i].parent # d => pages'[i] = pages[i]
                      /\ pages[i].parent = d => pages'[i].parent = n
                      /\ pages'[i].kind = pages[i].kind /\ pages'[i].path = pages[i].path
    OBVIOUS
  <2>1. IsDocument(pages[i], Ids)  BY DEF Typed, IsCollection, Ids
  <2> QED  BY <1>6, <2>1 DEF IsDocument
<1>8. Ids' = Ids /\ LiveOf(pages') = LiveOf(pages)
  BY <1>6, <1>7 DEF Ids, LiveOf
<1>9. Coherent(pages, Housed(fam))  BY DEF Nested
<1>10. \A i \in LivePages \ {Top} : pages[i].parent = d =>
          Front(pages[i].path) = pages[n].path
  BY <1>4, <1>5, <1>9 DEF Coherent, LivePages
<1>11. pages[n].parent # d
  <2> SUFFICES ASSUME pages[n].parent = d  PROVE FALSE
    OBVIOUS
  <2>1. Front(pages[n].path) = pages[n].path  BY <1>4, <1>5, <1>10
  <2>2. pages[n].path \in Paths /\ pages[n].path # <<>>
    BY <1>4, <1>5, <1>9 DEF Coherent, IsPath, Paths, LivePages
  <2> QED  BY <2>1, <2>2, FrontIsPath
<1>12. \A q \in Runs : Broad(q) => Untouched(pages, pages', Claimed(q), fam[q])
  <2> SUFFICES ASSUME NEW q \in Runs, Broad(q)
               PROVE  Untouched(pages, pages', Claimed(q), fam[q])
    OBVIOUS
  <2>1. Family(pages, Claimed(q), fam[q], left[q])  BY DEF Nested, Housings
  <2>2. PICK c, F : c = Claimed(q) /\ F = fam[q]  OBVIOUS
  <2>3. HouseOf(c, F) \subseteq Housed(fam)  BY <2>2 DEF Housed, House
  <2>4. HouseOf(c, F) \subseteq Ids  BY <2>1, <2>2, HouseHasIds DEF Ids
  <2>5. \A j \in F \cup c.guests : pages[j].parent # d
    <3>1. \A j \in F \cap LiveOf(pages) : pages[j].parent \in F \cup {c.id}
      BY <2>1, <2>2 DEF Family
    <3>2. \A j \in F \ LiveOf(pages) : pages[j].parent = NoId
      BY <1>9, <2>3, <2>4 DEF Coherent, HouseOf, Ids
    <3>3. \A j \in c.guests : pages[j].parent = NoId  BY <2>1, <2>2 DEF Family
    <3> QED  BY <1>4, <1>5, <2>3, <3>1, <3>2, <3>3 DEF HouseOf
  <2>6. \A j \in F \cup c.guests : Stays(pages, pages', j)
    BY <1>7, <1>8, <2>4, <2>5 DEF Stays, HouseOf, Ids
  <2>7. /\ c.id \in Ids' /\ pages'[c.id].kind = pages[c.id].kind
        /\ pages'[c.id].path = pages[c.id].path
        /\ Rooted(pages, c.id) => Rooted(pages', c.id)
    BY <1>5, <1>7, <1>8, <2>4 DEF HouseOf, Rooted
  <2>8. \A j \in Ids' : pages'[j].parent \in HouseOf(c, F) =>
            j \in Ids /\ pages[j].parent \in HouseOf(c, F)
    BY <1>4, <1>7, <1>8, <2>3
  <2> QED  BY <2>2, <2>6, <2>7, <2>8 DEF Untouched, Ids
<1>13. Steady(pages, pages', Housed(fam))
  BY <1>5, <1>7, <1>8 DEF Steady, Rooted, LiveOf, Ids
<1>14. Coherent(pages', Housed(fam))
  <2>2. \A j \in Ids' \ LiveOf(pages') : pages'[j].parent = NoId
    BY <1>5, <1>7, <1>8, <1>9 DEF Coherent, Ids
  <2>3. \A j \in LiveOf(pages') :
            IsPath(pages'[j].path) /\ (j # Top => pages'[j].path # <<>>)
    BY <1>7, <1>8, <1>9 DEF Coherent, LiveOf, Ids
  <2>4. ASSUME NEW j \in LiveOf(pages') \ {Top}
        PROVE  \/ pages'[j].parent \in Housed(fam) \cup {NoId}
               \/ Hangs(pages', j)
               \/ /\ j \in LiveOf(pages) /\ pages'[j].path = pages[j].path
                  /\ pages'[j].parent = pages[j].parent
                  /\ pages[j].parent \notin Housed(fam) \cup {NoId}
                  /\ pages[j].parent \in LiveOf(pages')
    <3>1. j \in LivePages /\ j \in Ids  BY <1>8 DEF LivePages, LiveOf, Ids
    <3>2. CASE pages[j].parent = d
      <4>1. pages'[j].parent = n /\ Front(pages'[j].path) = pages[n].path
        BY <1>7, <1>10, <3>1, <3>2
      <4>2. pages'[n] = pages[n] /\ n \in LiveOf(pages')
        BY <1>4, <1>5, <1>7, <1>8, <1>11 DEF LivePages
      <4> QED  BY <1>4, <4>1, <4>2 DEF Hangs, Rooted
    <3>3. CASE pages[j].parent # d
      BY <1>7, <1>8, <1>9, <3>1, <3>3 DEF Coherent, LivePages
    <3> QED  BY <3>2, <3>3
  <2> QED  BY <1>8, <1>9, <1>13, <2>2, <2>3, <2>4, CoherentStays DEF Ids
<1>15. \A s \in Runs \ {r} : ~Open(s)  BY <1>2 DEF Ordered, OneOpen
<1>16. /\ work'[r].at \in {"trash", "shrink"} /\ work'[r].kind = work[r].kind
       /\ work'[r].id = work[r].id /\ work'[r].copy = work[r].copy
  <2>1. PICK at \in {"trash", "shrink"} : Go(r, at)  BY DEF Adopt
  <2>2. work'[r] = [work[r] EXCEPT !.at = at]  BY <2>1 DEF Go, Typed, Held, WorkShape
  <2> QED  BY <1>1, <2>2 DEF IsRun, HasFields
<1>17. ASSUME Housed(fam)' = Housed(fam)  PROVE Stands(r, fam, left)'
  <2>1. Creating(r, fam) /\ Treading(r)  BY <1>1, RunStands
  <2>2. NoId \notin Ids'  BY <1>5, <1>8
  <2>3. Unwatched(work[r], work'[r].at)  BY <1>16 DEF Unwatched, Watched
  <2> QED
    BY <1>0, <1>1, <1>8, <1>13, <1>16, <1>17, <2>1, <2>2, <2>3, PlainStands
<1>18. PICK o \in Runs : o = work[r].op  BY <1>1 DEF IsRun
<1>19. ~Broad(o) /\ ~Late(work'[r].kind, work'[r].at) /\ ~On(r, "adopt")'
  <2>1. o = r  BY <1>2, <1>18, OpenClaims DEF Typed
  <2> QED  BY <1>1, <1>2, <1>16, <2>1, OpenClaims DEF Typed, Late, On
<1> QED
  BY <1>0, <1>8, <1>12, <1>13, <1>14, <1>15, <1>17, <1>18, <1>19, AwayNests

(* The target of a removal goes. *)
LEMMA TargetNests ==
    ASSUME Typed, Typed', Ordered, Ordered', NEW fam, NEW left, Nested(fam, left),
           NEW r \in Runs, GoesOn(r), IsRun(work[r]), Passed(r), work[r].kind \in {"delete", "erase"},
           pages[work[r].id] = work[r].copy,
           ~work[r].recursively => Children(work[r].id) = {},
           Ids' = Ids, \A i \in Ids \ {work[r].id} : pages'[i] = pages[i],
           work[r].id \notin LiveOf(pages'), pages'[work[r].id].parent = NoId,
           \/ work[r].at = "trash" /\ work'[r].at = "signpost"
           \/ work[r].at = "trash" /\ work'[r].at = "shrink" /\ work[r].kind = "delete"
           \/ work[r].at = "erase" /\ work'[r].at = "erase"
    PROVE  Nested(fam, left)'
<1>1. PICK d : d = work[r].id  OBVIOUS
<1>2. Open(r)  BY DEF Passed
<1>3. /\ d \in LivePages /\ d # Top /\ d \in Ids /\ NoId \notin Ids /\ d # NoId
  BY <1>1, IsCollectionHasNoId DEF Typed, RunTyped, LivePages, LiveOf, Ids
<1>4. LiveOf(pages') = LivePages \ {d}
  BY <1>1 DEF LiveOf, LivePages, Ids
<1>5. Alters(pages, pages', {d}, {})
  BY <1>1, <1>3, <1>4 DEF Alters, Stays, LivePages, LiveOf, Ids
<1>6. \A H : Steady(pages, pages', H)
  BY <1>1, <1>4 DEF Steady, Rooted, LivePages, LiveOf, Ids
<1>7. PICK o \in Runs : o = r  OBVIOUS
<1>8. /\ o = work[r].op /\ o \notin Recorded /\ Claim(o) = work[r] /\ Claiming(o)
      /\ Broad(o) <=> work[r].recursively
      /\ ~Renames(o)
  BY <1>2, <1>7, OpenClaims DEF Typed, Rename
<1>9. Coherent(pages, Housed(fam))  BY DEF Nested
<1>10. ASSUME \A j \in LivePages \ {Top} : pages[j].parent = d => d \in Housed(fam)
       PROVE  Coherent(pages', Housed(fam))
  <2>1. \A j \in Ids' \ LiveOf(pages') : pages'[j].parent = NoId
    BY <1>1, <1>4, <1>9 DEF Coherent, LivePages, Ids
  <2>2. \A j \in LiveOf(pages') : j \in LiveOf(pages) /\ pages'[j] = pages[j]
    BY <1>1, <1>4 DEF LivePages, LiveOf, Ids
  <2>3. \A j \in LiveOf(pages') :
            IsPath(pages'[j].path) /\ (j # Top => pages'[j].path # <<>>)
    BY <1>9, <2>2 DEF Coherent
  <2>4. ASSUME NEW j \in LiveOf(pages') \ {Top}
        PROVE  \/ pages'[j].parent \in Housed(fam) \cup {NoId}
               \/ /\ j \in LiveOf(pages) /\ pages'[j].path = pages[j].path
                  /\ pages'[j].parent = pages[j].parent
                  /\ pages[j].parent \notin Housed(fam) \cup {NoId}
                  /\ pages[j].parent \in LiveOf(pages')
    BY <1>4, <1>9, <1>10, <2>2 DEF Coherent, LivePages
  <2> QED  BY <1>6, <1>9, <2>1, <2>3, <2>4, CoherentStays DEF Ids
<1>11. \A s \in Runs \ {r} : ~Open(s)  BY <1>2 DEF Ordered, OneOpen
<1>12. ASSUME Housed(fam)' = Housed(fam)  PROVE Stands(r, fam, left)'
  <2>1. Creating(r, fam) /\ Treading(r)  BY RunStands
  <2>2. NoId \notin Ids'  BY <1>3
  <2>3. Unwatched(work[r], work'[r].at)  BY DEF Unwatched, Watched
  <2>4. work'[r].id = work[r].id /\ work'[r].copy = work[r].copy  BY DEF GoesOn
  <2> QED
    BY <1>6, <1>12, <2>1, <2>2, <2>3, <2>4, PlainStands
<1>13. ~Late(work'[r].kind, work'[r].at) /\ ~On(r, "adopt")'  BY DEF Late, On
<1>14. CASE ~work[r].recursively
  <2>1. d \notin Housed(fam)  BY <1>1, <1>14, TargetIsFree
  <2>2. \A j \in LivePages \ {Top} : pages[j].parent # d
    BY <1>1, <1>14 DEF Children, LivePages, LiveOf, Ids
  <2>3. \A q \in Runs : Broad(q) => Untouched(pages, pages', Claimed(q), fam[q])
    <3> SUFFICES ASSUME NEW q \in Runs, Broad(q)
                 PROVE  Untouched(pages, pages', Claimed(q), fam[q])
      OBVIOUS
    <3>1. \A i \in {d} \cap LivePages : i \notin House(q, fam[q])  BY <2>1 DEF Housed
    <3> QED  BY <1>5, <3>1, AllUntouched
  <2>4. ~Broad(o)  BY <1>8, <1>14
  <2> QED
    BY <1>6, <1>8, <1>10, <1>11, <1>12, <1>13, <2>2, <2>3, <2>4, AwayNests
<1>15. CASE work[r].recursively
  <2>1. Broad(o)  BY <1>8, <1>15
  <2>2. PICK F, L, c : F = fam[o] /\ L = left[o] /\ c = Claimed(o)  OBVIOUS
  <2>3. Family(pages, c, F, L) /\ Housing(o, F, L)  BY <2>1, <2>2 DEF Nested, Housings
  <2>4. c.id = d /\ House(o, F) = HouseOf(c, F) /\ d \in House(o, F)
    BY <1>1, <1>8, <2>2 DEF Claimed, House, HouseOf
  <2>5. d \in Housed(fam)  BY <2>1, <2>2, <2>4 DEF Housed
  <2>6. \A q \in Runs \ {o} : Broad(q) => Untouched(pages, pages', Claimed(q), fam[q])
    <3> SUFFICES ASSUME NEW q \in Runs \ {o}, Broad(q)
                 PROVE  Untouched(pages, pages', Claimed(q), fam[q])
      OBVIOUS
    <3>1. Housings(fam, left)  BY DEF Nested
    <3>2. d \notin House(q, fam[q])  BY <1>3, <2>1, <2>2, <2>4, <3>1, LiveInOneHouse
    <3> QED  BY <1>5, <3>2, AllUntouched
  <2>7. /\ Keeps(o) /\ \A s \in Runs : Holds(s, o)' <=> Holds(s, o)
        /\ o \in Recorded => ops'[o].stage = ops[o].stage
    BY <1>8, <1>13, GoingKeepsClaim DEF Typed
  <2>8. AtsMatch(work[r].kind, work[r].at, work'[r].at)  BY DEF AtsMatch
  <2>9. Matches(o)
    BY <1>8, <2>7, <2>8, PlacesMatch DEF GoesOn, Others, Typed
  <2>10. Claimed(o)' = c /\ House(o, F)' = House(o, F) /\ c.guests = {}
    BY <1>8, <2>2, <2>7, <2>9, KeptSame DEF Claimed, House, HouseOf, Matches
  <2>11. Family(pages', c, F, L)
    <3>1. \A j \in Ids : pages'[j].parent \in HouseOf(c, F) => j \in F
      <4>1. NoId \notin HouseOf(c, F)  BY <1>3, <2>3, HouseHasIds DEF Ids
      <4> QED  BY <1>1, <2>3, <4>1 DEF Family, Ids
    <3>2. \A j \in F \cap LiveOf(pages') : /\ j \in F \cap LiveOf(pages) /\ pages'[j] = pages[j]
      BY <1>1, <1>4 DEF LivePages, LiveOf, Ids
    <3>3. \A j \in LiveOf(pages') : pages'[j] = pages[j] /\ j \in LiveOf(pages)
      BY <1>1, <1>4 DEF LivePages, LiveOf, Ids
    <3>4. ASSUME NEW j \in F \cap LiveOf(pages')
          PROVE  /\ pages'[j].parent \in F \cup {c.id}
                 /\ IsStrictPrefix(IF j \in L THEN c.from ELSE c.now, pages'[j].path)
                 /\ pages'[j].parent \in LiveOf(pages') =>
                      Front(Named(pages', c, L, j)) = Named(pages', c, L, pages'[j].parent)
      <4>1. /\ pages[j].parent \in F \cup {c.id}
            /\ IsStrictPrefix(IF j \in L THEN c.from ELSE c.now, pages[j].path)
            /\ pages[j].parent \in LiveOf(pages) =>
                 Front(Named(pages, c, L, j)) = Named(pages, c, L, pages[j].parent)
        BY <2>3, <3>2 DEF Family
      <4> QED  BY <3>2, <3>3, <4>1 DEF Named
    <3> QED
      BY <1>1, <1>3, <1>4, <2>3, <2>4, <2>10, <3>1, <3>4 DEF Family, Ids, LivePages
  <2>12. Housing(o, F, L)'
    <3>1. L = {} /\ F \subseteq LivePages /\ ~Moving(o)
      BY <1>8, <2>3 DEF Housing, Moving
    <3>2. F \subseteq LivePages'
      BY <1>4, <2>3, <2>4, <3>1 DEF Family, LivePages
    <3>3. ~Renames(o)'  BY <1>8, <2>7, KeptSame
    <3>4. work'[o].kind = "erase" => work'[o].at = "erase" \/ work'[o].at = "signpost"
      BY <1>7 DEF GoesOn
    <3> QED  BY <3>1, <3>2, <3>3, <3>4 DEF Housing
  <2>13. Fits(o, fam, left)  BY <2>2, <2>10, <2>11, <2>12 DEF Fits
  <2>14. Housed(fam)' = Housed(fam)
    <3>1. \A q \in Runs \ {o} : Still(q)  BY <1>8, GoingIsStill DEF Typed
    <3>2. Broad(o)' <=> Broad(o)  BY <2>7 DEF Keeps
    <3> QED  BY <2>2, <2>10, <3>1, <3>2, QuietHoused
  <2>15. House(o, fam[o])' \cap Ids \subseteq Housed(fam)
    BY <2>1, <2>2, <2>10 DEF Housed
  <2>16. Coherent(pages', Housed(fam)')  BY <1>10, <2>5, <2>14
  <2> QED
    BY <1>6, <1>8, <1>11, <1>12, <1>13, <2>6, <2>13, <2>14, <2>15, <2>16, GoingNests
<1> QED  BY <1>14, <1>15

LEMMA TrashTargetNests ==
    ASSUME Typed, Typed', Ordered, Ordered', NEW fam, NEW left, Nested(fam, left),
           NEW r \in Runs, TrashTarget(r), ~history'.stale
    PROVE  Nested(fam, left)'
<1>0. GoesOn(r)  BY TrashTargetGoes DEF Typed
<1>1. IsRun(work[r]) /\ work[r].at = "trash" /\ work[r].kind = "delete"
  BY RunsAreRuns, ZenonT(60) DEF Typed, Held, TrashTarget, On, IsRun, Early, Holding, Late, Ordered, RunsFit, RunFits
<1>2. Passed(r)  BY <1>1 DEF Open, Early, Passed, On, Create
<1>3. PICK d, copy : d = work[r].id /\ copy = work[r].copy  OBVIOUS
<1>4. /\ pages[d] = copy
      /\ ~work[r].recursively => Children(d) = {}
  <2>1. history'.stale = (history.stale \/ pages[work[r].id] # work[r].copy
          \/ (~work[r].recursively /\ Children(work[r].id) # {}))
    BY DEF TrashTarget, Typed, Held, HasHistory
  <2> QED  BY <1>3, <2>1
<1>5. copy.kind \in {"page", "empty"} /\ d \in Ids /\ Found(d)
  BY <1>1, <1>3, <1>4, IsCollectionHasNoId DEF Typed, RunTyped, Found, Ids
<1>6. pages' = [pages EXCEPT ![d] =
          CASE copy.kind = "page" -> [NoPage EXCEPT !.kind = "trash", !.path = TrashPath]
            [] copy.kind = "empty" -> IF @.kind = "empty" THEN NoPage ELSE @]
  BY <1>3, <1>5 DEF TrashTarget
<1>7. /\ Ids' = Ids /\ \A i \in Ids \ {d} : pages'[i] = pages[i]
      /\ pages'[d] = IF copy.kind = "page"
                     THEN [NoPage EXCEPT !.kind = "trash", !.path = TrashPath] ELSE NoPage
  BY <1>4, <1>5, <1>6 DEF Ids
<1>8. d \notin LiveOf(pages') /\ pages'[d].parent = NoId
  <2>2. /\ pages'[d].kind = "trash" \/ pages'[d].kind = "none"
        /\ pages'[d].parent = NoId
    <3>1. CASE copy.kind = "page"
      <4>1. PICK doc : doc = pages'[d]  OBVIOUS
      <4>2. doc = [NoPage EXCEPT !.kind = "trash", !.path = TrashPath]  BY <1>7, <3>1, <4>1
      <4>3. doc = [kind |-> "trash", path |-> TrashPath, parent |-> NoId, count |-> 0]
        BY <4>2 DEF NoPage
      <4> QED  BY <4>1, <4>3
    <3>2. CASE copy.kind # "page"  BY <1>7, <3>2 DEF NoPage
    <3> QED  BY <3>1, <3>2
  <2> QED  BY <2>2 DEF LiveOf
<1>9. work'[r].at \in {"signpost", "shrink"}
  <2>1. PICK at \in {"signpost", "shrink"} : Go(r, at)
    BY DEF TrashTarget
  <2> QED  BY <1>1, <2>1, GoAt DEF Typed
<1> QED  BY <1>0, <1>1, <1>2, <1>3, <1>4, <1>7, <1>8, <1>9, TargetNests

LEMMA ErasePageNests ==
    ASSUME Typed, Typed', Ordered, Ordered', NEW fam, NEW left, Nested(fam, left),
           NEW r \in Runs, ErasePage(r), ~history'.stale
    PROVE  Nested(fam, left)'
<1>0. GoesOn(r)  BY ErasePageGoes DEF Typed
<1>1. IsRun(work[r]) /\ work[r].at = "erase" /\ work[r].kind = "erase"
  BY RunsAreRuns, ZenonT(60) DEF Typed, Held, ErasePage, On, IsRun, Early, Holding, Late, Ordered, RunsFit, RunFits
<1>2. Passed(r)  BY <1>1 DEF Open, Early, Passed, On, Create
<1>3. PICK d, copy : d = work[r].id /\ copy = work[r].copy  OBVIOUS
<1>4. /\ pages[d] = copy
      /\ ~work[r].recursively => Children(d) = {}
  <2>1. history'.stale = (history.stale \/ pages[work[r].id] # work[r].copy
          \/ (~work[r].recursively /\ Children(work[r].id) # {}))
    BY DEF ErasePage, Typed, Held, HasHistory
  <2> QED  BY <1>3, <2>1
<1>5. d \in Ids  BY <1>1, <1>3, IsCollectionHasNoId DEF Typed, RunTyped, Ids
<1>6. pages' = [pages EXCEPT ![d] = NoPage]
  BY <1>3 DEF ErasePage
<1>7. /\ Ids' = Ids /\ \A i \in Ids \ {d} : pages'[i] = pages[i]
      /\ pages'[d] = NoPage
  BY <1>5, <1>6 DEF Ids
<1>8. d \notin LiveOf(pages') /\ pages'[d].parent = NoId
  BY <1>7 DEF LiveOf, NoPage
<1>9. work'[r].at = "erase"
  <2>1. work'[r] = [work[r] EXCEPT !.todo = @ \ {"page"}]
    BY DEF ErasePage, Typed, Held, WorkShape
  <2> QED  BY <1>1, <2>1 DEF IsRun, HasFields
<1> QED  BY <1>0, <1>1, <1>2, <1>3, <1>4, <1>7, <1>8, <1>9, TargetNests

(* The house of a run that has recorded its operation, before and after.     *)
LEMMA OwnHouse ==
    ASSUME Typed, Ordered, Ordered', NEW r \in Runs, GoesOn(r), NEW o \in Runs, Holds(r, o),
           ~Create(r)
    PROVE  /\ o = work[r].op /\ o \in Recorded /\ Holds(r, o)' /\ Broad(o) /\ Broad(o)' /\ Keeps(o)
           /\ Claiming(o) /\ ~Late(work'[r].kind, work'[r].at)
           /\ Claim(o).copy = work[r].copy /\ Claim(o).id = work[r].id
           /\ Claim(o)'.copy = work[r].copy /\ Claim(o)'.id = work[r].id
           /\ Rename(r) => Claim(o).to = work[r].to /\ Claim(o)'.to = work[r].to
           /\ (Renames(o) <=> Rename(r)) /\ (Renames(o)' <=> Rename(r))
           /\ From(o) = work[r].copy.path /\ From(o)' = work[r].copy.path
           /\ Deeper(o)' <=> Deeper(o)
           /\ Rename(r) => (Deeper(o) <=> UnderTarget(work[r].copy.path, work[r].to))
           /\ ops'[o].stage = ops[o].stage
           /\ (o \in Recorded)'
           /\ Rename(r) => (ops[o].stage = "Main" <=> work[r].at \in MainAts)
           /\ \A ats : Is(o, ats) <=> work[r].at \in ats
           /\ \A ats : Is(o, ats)' <=> work'[r].at \in ats
           /\ Guests(o) = IF On(r, "graft") THEN work[r].ids ELSE {}
           /\ Guests(o)' = IF On(r, "graft")' THEN work'[r].ids ELSE {}
           /\ Claimed(o) = [from |-> work[r].copy.path,
                            now |-> IF Moving(o) THEN work[r].to ELSE work[r].copy.path,
                            id |-> work[r].id, guests |-> Guests(o)]
           /\ Claimed(o)' = [from |-> work[r].copy.path,
                             now |-> IF Moving(o)' THEN work[r].to ELSE work[r].copy.path,
                             id |-> work[r].id, guests |-> Guests(o)']
<1>1. /\ o \in Recorded /\ work[r].op = o /\ Claim(o) = ops[o] /\ IsRun(work[r])
      /\ Claim(o).kind = work[r].kind /\ Claim(o).copy = work[r].copy
      /\ Claim(o).id = work[r].id
      /\ Renames(o) <=> Rename(r)
      /\ Rename(r) => Claim(o).to = work[r].to
      /\ Rename(r) => (ops[o].stage = "Main" <=> work[r].at \in MainAts)
      /\ Broad(o) /\ From(o) = work[r].copy.path
  BY HolderClaims
<1>2. Claiming(o)  BY <1>1 DEF Broad
<1>3. Holding(work[r].kind, work'[r].at) /\ work'[r].kind = work[r].kind
  BY DEF GoesOn, Holds
<1>4. ~Late(work'[r].kind, work'[r].at)  BY <1>3 DEF Late, Holding
<1>5. /\ Keeps(o) /\ \A s \in Runs : Holds(s, o)' <=> Holds(s, o)
      /\ o \in Recorded => ops'[o].stage = ops[o].stage
  BY <1>1, <1>4, GoingKeepsClaim DEF Typed
<1>6. Holds(r, o)' /\ Broad(o)' /\ (o \in Recorded)'  BY <1>1, <1>5 DEF Keeps
<1>7. /\ Claim(o)'.copy = work[r].copy /\ Claim(o)'.id = work[r].id
      /\ Rename(r) => Claim(o)'.to = work[r].to
      /\ Renames(o)' <=> Rename(r)
      /\ From(o)' = work[r].copy.path /\ (Deeper(o)' <=> Deeper(o))
  BY <1>1, <1>2, <1>5, KeptSame
<1>8. \A ats : Is(o, ats) <=> work[r].at \in ats  BY HolderIsOne
<1>9. \A ats : Is(o, ats)' <=> work'[r].at \in ats  BY <1>6 DEF Is, Ordered, OneHolds
<1>10. Guests(o) = IF On(r, "graft") THEN work[r].ids ELSE {}
  <2>1. \A s \in Runs : Holds(s, o) <=> s = r  BY DEF Ordered, OneHolds
  <2>2. {s \in Runs : Holds(s, o) /\ On(s, "graft")} = IF On(r, "graft") THEN {r} ELSE {}
    BY <2>1
  <2> QED  BY <2>2 DEF Guests
<1>11. Guests(o)' = IF On(r, "graft")' THEN work'[r].ids ELSE {}
  <2>1. \A s \in Runs : Holds(s, o)' <=> s = r  BY <1>6 DEF Ordered, OneHolds
  <2>2. {s \in Runs : Holds(s, o)' /\ On(s, "graft")'} = IF On(r, "graft")' THEN {r} ELSE {}
    BY <2>1
  <2>3. Guests(o)' = UNION {work'[s].ids : s \in {s \in Runs : Holds(s, o)' /\ On(s, "graft")'}}
    BY DEF Guests
  <2> QED  BY <2>2, <2>3
<1>12. /\ Moving(o) => Rename(r)
       /\ Moving(o)' => Rename(r)
  BY <1>1, <1>7 DEF Moving
<1>13. Claimed(o) = [from |-> work[r].copy.path,
                     now |-> IF Moving(o) THEN work[r].to ELSE work[r].copy.path,
                     id |-> work[r].id, guests |-> Guests(o)]
  <2>1. (IF Moving(o) THEN Claim(o).to ELSE From(o))
           = (IF Moving(o) THEN work[r].to ELSE work[r].copy.path)
    BY <1>1, <1>12
  <2> QED  BY <1>1, <2>1 DEF Claimed
<1>14. Claimed(o)' = [from |-> work[r].copy.path,
                      now |-> IF Moving(o)' THEN work[r].to ELSE work[r].copy.path,
                      id |-> work[r].id, guests |-> Guests(o)']
  <2>1. (IF Moving(o)' THEN Claim(o)'.to ELSE From(o)')
           = (IF Moving(o)' THEN work[r].to ELSE work[r].copy.path)
    BY <1>7, <1>12
  <2>2. Claimed(o)' = [from |-> From(o)', now |-> IF Moving(o)' THEN Claim(o)'.to ELSE From(o)',
                       id |-> Claim(o)'.id, guests |-> Guests(o)']
    BY DEF Claimed
  <2> QED  BY <1>7, <2>1, <2>2
<1>15. Rename(r) => (Deeper(o) <=> UnderTarget(work[r].copy.path, work[r].to))
  BY <1>1 DEF Deeper, UnderTarget
<1> QED
  BY <1>1, <1>2, <1>4, <1>5, <1>6, <1>7, <1>8, <1>9, <1>10, <1>11, <1>13, <1>14, <1>15

LEMMA TakeOffNests ==
    ASSUME Typed, Typed', Ordered, Ordered', NEW fam, NEW left, Nested(fam, left),
           NEW r \in Runs, TakeOff(r), ~history'.damaged
    PROVE  Nested(fam, left)'
<1>1. IsRun(work[r]) /\ work[r].at = "takeOff" /\ work[r].kind = "rename"
  BY RunsAreRuns DEF Typed, Held, TakeOff, On, IsRun, Early, Holding, Late
<1>2. CASE Throw(r)
  <2>1. up' = up  BY DEF TakeOff, Unchanged
  <2> QED  BY <1>1, <1>2, <2>1, ThrowNests
<1>3. CASE ~Throw(r)
  <2>0. GoesOn(r)  BY <1>3, TakeOffGoes DEF Typed
  <2>1. PICK o \in Runs : o = work[r].op  BY <1>1 DEF IsRun
  <2>2. PICK d : d = work[r].id  OBVIOUS
  <2>3. /\ pages' = [pages EXCEPT ![d].parent = NoId] /\ Go(r, "find")
    BY <1>3, <2>2 DEF TakeOff
  <2>4. work'[r].at = "find"  BY <1>1, <2>3, GoAt DEF Typed
  <2>5. Holds(r, o) /\ ~Create(r) /\ Rename(r)
    BY <1>1, <2>1 DEF Holds, Holding, Create, Rename
  <2>6. PICK c, F, L : c = Claimed(o) /\ F = fam[o] /\ L = left[o]  OBVIOUS
  <2>7. ~Moving(o) /\ ~Moving(o)' /\ Off(o)' /\ Broad(o) /\ Broad(o)' /\ Renames(o) /\ Renames(o)'
    BY <1>1, <2>0, <2>4, <2>5, OwnHouse DEF Moving, Off, MainAts, RenameMain
  <2>8. /\ Claimed(o)' = c /\ c.guests = {} /\ c.id = d
        /\ House(o, F) = HouseOf(c, F) /\ House(o, F)' = HouseOf(c, F)
    <3>1. Guests(o) = {} /\ Guests(o)' = {}
      BY <1>1, <2>0, <2>4, <2>5, OwnHouse DEF On
    <3>2. /\ Claimed(o) = [from |-> work[r].copy.path, now |-> work[r].copy.path, id |-> d,
                           guests |-> {}]
          /\ Claimed(o)' = [from |-> work[r].copy.path, now |-> work[r].copy.path, id |-> d,
                            guests |-> {}]
      BY <2>0, <2>2, <2>5, <2>7, <3>1, OwnHouse
    <3> QED  BY <2>6, <3>2 DEF House
  <2>9. Family(pages, c, F, L) /\ Housing(o, F, L)  BY <2>6, <2>7 DEF Nested, Housings
  <2>10. L = {} /\ F \cup {d} \subseteq LivePages
    BY <2>0, <2>2, <2>5, <2>7, <2>9, OwnHouse DEF Housing
  <2>11. d \in Ids /\ d \in House(o, F) /\ d \in Housed(fam) /\ NoId \notin Ids /\ d \notin F /\ d # Top
         /\ NoId \notin HouseOf(c, F)
    <3>1. NoId \notin Ids  BY IsCollectionHasNoId DEF Typed, Ids
    <3>2. HouseOf(c, F) \subseteq Ids  BY <2>9, HouseHasIds DEF Ids
    <3> QED  BY <2>6, <2>7, <2>8, <2>9, <2>10, <3>1, <3>2 DEF Family, House, HouseOf, Housed, LivePages, LiveOf, Ids
  <2>12. /\ Ids' = Ids /\ \A i \in Ids \ {d} : pages'[i] = pages[i]
         /\ pages'[d].kind = pages[d].kind /\ pages'[d].path = pages[d].path
         /\ pages'[d].parent = NoId
    <3>1. IsDocument(pages[d], Ids)  BY <2>11 DEF Typed, IsCollection, Ids
    <3> QED  BY <2>3, <2>11, <3>1 DEF Ids, IsDocument
  <2>13. LiveOf(pages') = LivePages  BY <2>12 DEF LiveOf, LivePages, Ids
  <2>14. Alters(pages, pages', {d}, {})
    BY <2>12, <2>13 DEF Alters, Stays, LivePages, Ids
  <2>15. \A q \in Runs \ {o} : Broad(q) => Untouched(pages, pages', Claimed(q), fam[q])
    <3> SUFFICES ASSUME NEW q \in Runs \ {o}, Broad(q)
                 PROVE  Untouched(pages, pages', Claimed(q), fam[q])
      OBVIOUS
    <3>1. d \notin House(q, fam[q])
      BY <2>6, <2>7, <2>10, <2>11, LiveInOneHouse DEF Nested
    <3> QED  BY <2>14, <3>1, AllUntouched
  <2>16. Steady(pages, pages', Housed(fam))
    BY <2>11, <2>12, <2>13 DEF Steady, Rooted, LivePages, Ids
  <2>17. Family(pages', c, F, L)
    <3>1. \A j \in Ids : pages'[j].parent \in HouseOf(c, F) => j \in F
      BY <2>9, <2>11, <2>12 DEF Family, Ids
    <3>2. \A j \in F : pages'[j] = pages[j]  BY <2>9, <2>11, <2>12 DEF Family, Ids
    <3>3. \A j \in F \cap LiveOf(pages') :
              /\ pages'[j].parent \in F \cup {c.id}
              /\ IsStrictPrefix(IF j \in L THEN c.from ELSE c.now, pages'[j].path)
              /\ pages'[j].parent \in LiveOf(pages') =>
                    Front(Named(pages', c, L, j)) = Named(pages', c, L, pages'[j].parent)
      BY <2>8, <2>9, <2>10, <2>12, <2>13, <3>2 DEF Family, Named, LivePages
    <3> QED
      BY <2>8, <2>9, <2>11, <2>12, <2>13, <3>1, <3>3 DEF Family, Ids, LivePages
  <2>18. Housing(o, F, L)'
    BY <2>0, <2>2, <2>4, <2>5, <2>7, <2>9, <2>10, <2>13, OwnHouse DEF Housing, LivePages
  <2>19. Fits(o, fam, left)  BY <2>6, <2>8, <2>17, <2>18 DEF Fits
  <2>20. Housed(fam)' = Housed(fam)
    <3>1. \A q \in Runs \ {o} : Still(q)  BY <2>0, <2>1, GoingIsStill DEF Typed
    <3> QED  BY <2>6, <2>7, <2>8, <3>1, QuietHoused
  <2>21. Coherent(pages', Housed(fam)')
    <3>1. Coherent(pages, Housed(fam))  BY DEF Nested
    <3>2. \A j \in Ids' \ LiveOf(pages') : pages'[j].parent = NoId
      BY <2>12, <2>13, <3>1 DEF Coherent, LivePages, Ids
    <3>3. \A j \in LiveOf(pages') :
              IsPath(pages'[j].path) /\ (j # Top => pages'[j].path # <<>>)
      BY <2>12, <2>13, <3>1 DEF Coherent, LivePages, LiveOf, Ids
    <3>4. ASSUME NEW j \in LiveOf(pages') \ {Top}
          PROVE  \/ pages'[j].parent \in Housed(fam) \cup {NoId}
                 \/ /\ j \in LiveOf(pages) /\ pages'[j].path = pages[j].path
                    /\ pages'[j].parent = pages[j].parent
                    /\ pages[j].parent \notin Housed(fam) \cup {NoId}
                    /\ pages[j].parent \in LiveOf(pages')
      BY <2>12, <2>13, <3>1 DEF Coherent, LivePages, LiveOf, Ids
    <3> QED  BY <2>12, <2>16, <2>20, <3>1, <3>2, <3>3, <3>4, CoherentStays DEF Ids
  <2>22. \A s \in Runs \ {r} : Open(s) => Spared(s, fam)
    <3>1. Recorded' \subseteq Recorded /\ \A s \in Runs \ {r} : work'[s] = work[s]
      BY <2>0 DEF GoesOn, OpsStay, Others
    <3>2. \A j \in LivePages \ Housed(fam) : pages'[j].kind = pages[j].kind
      BY <2>12 DEF LivePages, LiveOf, Ids
    <3> QED  BY <2>14, <3>1, <3>2, AltersSpares
  <2>23. Stands(r, fam, left)'
    <3>1. Creating(r, fam) /\ Treading(r)  BY <1>1, RunStands
    <3>2. NoId \notin Ids'  BY <2>11, <2>12
    <3>3. Unwatched(work[r], work'[r].at)  BY <2>4 DEF Unwatched, Watched
    <3>4. ~Early(work[r].kind, work[r].at)  BY <1>1 DEF Early
    <3> QED
      BY <1>1, <2>0, <2>4, <2>12, <2>16, <2>20, <3>1, <3>2, <3>3, <3>4, PlainStands DEF AfterBatches
  <2>24. House(o, fam[o])' \cap Ids \subseteq Housed(fam)
    BY <2>6, <2>7, <2>8 DEF Housed
  <2>25. ~Late(work'[r].kind, work'[r].at) /\ ~On(r, "adopt")'
    BY <2>4 DEF Late, On
  <2> QED
    BY <2>0, <2>1, <2>12, <2>15, <2>16, <2>19, <2>21, <2>22, <2>23, <2>24, <2>25, GoingNests
<1> QED  BY <1>2, <1>3

LEMMA PutNests ==
    ASSUME Typed, Typed', Ordered, Ordered', NEW fam, NEW left, Nested(fam, left),
           NEW r \in Runs, Put(r), ~history'.stale
    PROVE  \E left2 : Nested(fam, left2)'
<1>0. GoesOn(r)  BY PutGoes DEF Typed
<1>1. IsRun(work[r]) /\ work[r].at = "put" /\ work[r].kind = "rename"
  BY RunsAreRuns DEF Typed, Held, Put, On, IsRun, Early, Holding, Late
<1>2. PICK o \in Runs : o = work[r].op  BY <1>1 DEF IsRun
<1>3. PICK d, par, from, to :
          d = work[r].id /\ par = work[r].parent /\ from = work[r].copy.path /\ to = work[r].to
  OBVIOUS
<1>4. Holds(r, o) /\ ~Create(r) /\ Rename(r)
  BY <1>1, <1>2 DEF Holds, Holding, Create, Rename
<1>5. work'[r].at = "bump"
  <2>1. Go(r, "bump")  BY DEF Put
  <2> QED  BY <1>1, <2>1, GoAt DEF Typed
<1>6. PICK c, F, L : c = Claimed(o) /\ F = fam[o] /\ L = left[o]  OBVIOUS
<1>7. ~Moving(o) /\ Moving(o)' /\ Broad(o) /\ Broad(o)' /\ Renames(o) /\ Renames(o)'
  BY <1>0, <1>1, <1>4, <1>5, OwnHouse DEF Moving, MainAts, RenameMain
<1>8. PICK new : new = Claimed(o)'  OBVIOUS
<1>9. /\ c = [from |-> from, now |-> from, id |-> d, guests |-> {}]
      /\ new = [from |-> from, now |-> to, id |-> d, guests |-> {}]
  <2>1. Guests(o) = {} /\ Guests(o)' = {}
    BY <1>0, <1>1, <1>4, <1>5, OwnHouse DEF On
  <2> QED  BY <1>0, <1>3, <1>4, <1>6, <1>7, <1>8, <2>1, OwnHouse
<1>10. /\ House(o, F) = F \cup {d} /\ House(o, F)' = F \cup {d}
       /\ HouseOf(c, F) = F \cup {d} /\ HouseOf(new, F) = F \cup {d}
  BY <1>6, <1>8, <1>9 DEF House, HouseOf
<1>11. Family(pages, c, F, L) /\ Housing(o, F, L)  BY <1>6, <1>7 DEF Nested, Housings
<1>12. L = {} /\ F \cup {d} \subseteq LivePages /\ ~IsPrefix(to, from)
  BY <1>0, <1>3, <1>4, <1>7, <1>11, OwnHouse DEF Housing
<1>13. /\ d \in Ids /\ d \in Housed(fam) /\ NoId \notin Ids /\ d \notin F /\ d # Top
       /\ F \subseteq Ids
  <2>1. NoId \notin Ids  BY IsCollectionHasNoId DEF Typed, Ids
  <2>2. HouseOf(c, F) \subseteq Ids  BY <1>11, HouseHasIds DEF Ids
  <2> QED
    BY <1>6, <1>7, <1>9, <1>10, <1>11, <1>12, <2>1, <2>2 DEF Family, Housed, LivePages, LiveOf, Ids
<1>14. from \in Paths /\ to \in Paths /\ IsPath(to) /\ to # <<>>
  BY <1>1, <1>3 DEF Typed, RunTyped, IsDocument, IsPath, Paths
<1>15. /\ par \in LivePages /\ pages[par].path = Front(to) /\ par \in Ids /\ par # NoId
       /\ par \notin Housed(fam) /\ Rooted(pages, par) /\ par # d
       /\ \A s \in Runs : Open(s) /\ On(s, "adopt") => work[s].parent # par
  <2>1. history' = [history EXCEPT !.fresh = @ \ {work[r].id},
          !.stale = @ \/ work[r].parent \notin At(Dirname(work[r].to))]
    BY DEF Put
  <2>2. history'.stale = (history.stale \/ par \notin At(Dirname(to)))
    BY <1>3, <2>1 DEF Typed, Held, HasHistory
  <2>3. par \in At(Dirname(to))  BY <2>2
  <2>4. par \in LivePages /\ pages[par].path = Front(to) /\ par \in Ids /\ par # NoId
    BY <2>3, PlacedThere DEF Dirname
  <2>5. Placing(r, fam)  BY <1>1, RunStands
  <2>6. /\ Anchored(pages, Housed(fam), par, Front(to))
        /\ \A s \in Runs : Open(s) /\ On(s, "adopt") => work[s].parent # par
    BY <1>1, <1>3, <2>5 DEF Placing
  <2> QED  BY <1>13, <2>4, <2>6 DEF Anchored, Pinned, LivePages
<1>16. /\ Ids' = Ids /\ \A i \in Ids \ {d} : pages'[i] = pages[i]
       /\ pages'[d].kind = pages[d].kind /\ pages'[d].path = to /\ pages'[d].parent = par
  <2>1. IsDocument(pages[d], Ids)  BY <1>13 DEF Typed, IsCollection, Ids
  <2>2. Found(d)  BY <1>12, <1>13 DEF Found, LivePages, LiveOf
  <2>3. pages' = [pages EXCEPT ![d] = [@ EXCEPT !.path = to, !.parent = par]]
    BY <1>3, <2>2 DEF Put
  <2>4. pages'[d] = [pages[d] EXCEPT !.path = to, !.parent = par]  BY <1>13, <2>3 DEF Ids
  <2>5. pages'[d] = [kind |-> pages[d].kind, path |-> to, parent |-> par, count |-> pages[d].count]
    BY <2>1, <2>4 DEF IsDocument
  <2> QED  BY <1>13, <2>3, <2>5 DEF Ids
<1>17. LiveOf(pages') = LivePages  BY <1>16 DEF LiveOf, LivePages, Ids
<1>18. Alters(pages, pages', {d}, {par})
  BY <1>16, <1>17 DEF Alters, Stays, LivePages, Ids
<1>19. \A q \in Runs \ {o} : Broad(q) => Untouched(pages, pages', Claimed(q), fam[q])
  <2> SUFFICES ASSUME NEW q \in Runs \ {o}, Broad(q)
               PROVE  Untouched(pages, pages', Claimed(q), fam[q])
    OBVIOUS
  <2>1. d \notin House(q, fam[q])
    BY <1>6, <1>7, <1>10, <1>12, LiveInOneHouse DEF Nested
  <2>2. par \notin House(q, fam[q])  BY <1>15 DEF Housed
  <2> QED  BY <1>18, <2>1, <2>2, AllUntouched
<1>20. Steady(pages, pages', Housed(fam))
  BY <1>13, <1>16, <1>17 DEF Steady, Rooted, LivePages, Ids
<1>21. Family(pages', new, F, F)
  <2>1. \A j \in Ids : pages'[j].parent \in F \cup {d} => j \in F
    <3>1. par \notin F \cup {d}  BY <1>6, <1>7, <1>10, <1>15 DEF Housed
    <3> QED  BY <1>10, <1>11, <1>13, <1>16, <3>1 DEF Family, Ids
  <2>2. \A j \in F : pages'[j] = pages[j]  BY <1>13, <1>16
  <2>3. ASSUME NEW j \in F
        PROVE  /\ pages'[j].parent \in F \cup {d}
               /\ IsStrictPrefix(from, pages'[j].path)
               /\ Front(Named(pages', new, F, j)) = Named(pages', new, F, pages'[j].parent)
    <3>1. j \in LiveOf(pages) /\ pages'[j] = pages[j]  BY <1>12, <2>2 DEF LivePages
    <3>2. pages[j].parent \in F \cup {d} /\ IsStrictPrefix(from, pages[j].path)
      BY <1>9, <1>11, <1>12, <3>1 DEF Family
    <3>3. pages[j].parent \in LiveOf(pages)  BY <1>12, <3>2 DEF LivePages
    <3>4. Front(pages[j].path) = pages[pages[j].parent].path
      BY <1>9, <1>11, <1>12, <3>1, <3>3 DEF Family, Named
    <3>5. pages[j].path \in Paths /\ from \in Paths /\ to \in Paths
      BY <1>13, <1>14 DEF Typed, IsCollection, IsDocument, Ids, Paths
    <3>6. Front(Moved(pages[j].path, from, to)) = Moved(pages[pages[j].parent].path, from, to)
      BY <3>2, <3>4, <3>5, FrontOfMoved
    <3>7. Named(pages', new, F, j) = Moved(pages[j].path, from, to)
      BY <1>9, <3>1 DEF Named
    <3>8. Named(pages', new, F, pages[j].parent) = Moved(pages[pages[j].parent].path, from, to)
      <4>1. CASE pages[j].parent \in F  BY <1>9, <2>2, <4>1 DEF Named
      <4>2. CASE pages[j].parent = d
        <5>1. Named(pages', new, F, d) = to  BY <1>13, <1>16 DEF Named
        <5>2. pages[d].path = from
          BY <1>9, <1>11, <1>12 DEF Family, LivePages
        <5>3. Moved(from, from, to) = to  BY <1>14, MovedDeeper, PrefixReflexive
        <5> QED  BY <4>2, <5>1, <5>2, <5>3
      <4> QED  BY <3>2, <4>1, <4>2
    <3> QED  BY <3>1, <3>2, <3>6, <3>7, <3>8
  <2>4. new.from = from /\ new.now = to /\ new.id = d /\ new.guests = {}  BY <1>9
  <2>5. \A j \in F \cap LiveOf(pages') :
            /\ pages'[j].parent \in F \cup {new.id}
            /\ IsStrictPrefix(IF j \in F THEN new.from ELSE new.now, pages'[j].path)
            /\ pages'[j].parent \in LiveOf(pages') =>
                  Front(Named(pages', new, F, j)) = Named(pages', new, F, pages'[j].parent)
    BY <2>3, <2>4
  <2>6. \A j \in DOMAIN pages' : pages'[j].parent \in HouseOf(new, F) => j \in F
    BY <1>10, <1>16, <2>1 DEF Ids
  <2>7. d \in DOMAIN pages' \ {Top} /\ F \subseteq DOMAIN pages' \ {Top, d}
    BY <1>9, <1>11, <1>13, <1>16 DEF Family, Ids
  <2> HIDE DEF Named
  <2> QED
    BY <1>16, <2>4, <2>5, <2>6, <2>7 DEF Family
<1>22. Housing(o, F, F)'
  <2>1. Claim(o)'.to = to /\ From(o)' = from /\ Claim(o)'.id = d /\ (o \in Recorded)'
    BY <1>0, <1>3, <1>4, OwnHouse
  <2>2. Rooted(pages', d)  BY <1>15, <1>16 DEF Rooted
  <2>3. F \cup {d} \subseteq LivePages'  BY <1>12, <1>17 DEF LivePages
  <2> QED  BY <1>7, <1>12, <2>1, <2>2, <2>3 DEF Housing
<1>23. PICK left2 : left2 = [q \in Runs |-> IF q = o THEN F ELSE left[q]]  OBVIOUS
<1>24. left2[o] = F /\ \A q \in Runs \ {o} : left2[q] = left[q]  BY <1>23
<1>25. Fits(o, fam, left2)  BY <1>6, <1>8, <1>21, <1>22, <1>24 DEF Fits
<1>26. Housed(fam)' = Housed(fam)
  <2>1. \A q \in Runs \ {o} : Still(q)  BY <1>0, <1>2, GoingIsStill DEF Typed
  <2> QED  BY <1>6, <1>7, <1>10, <2>1, QuietHoused
<1>27. Coherent(pages', Housed(fam)')
  <2>1. Coherent(pages, Housed(fam))  BY DEF Nested
  <2>2. \A j \in Ids' \ LiveOf(pages') : pages'[j].parent = NoId
    BY <1>12, <1>16, <1>17, <2>1 DEF Coherent, LivePages, Ids
  <2>3. \A j \in LiveOf(pages') :
            IsPath(pages'[j].path) /\ (j # Top => pages'[j].path # <<>>)
    BY <1>14, <1>16, <1>17, <2>1 DEF Coherent, LivePages, LiveOf, Ids
  <2>4. ASSUME NEW j \in LiveOf(pages') \ {Top}
        PROVE  \/ pages'[j].parent \in Housed(fam) \cup {NoId}
               \/ Hangs(pages', j)
               \/ /\ j \in LiveOf(pages) /\ pages'[j].path = pages[j].path
                  /\ pages'[j].parent = pages[j].parent
                  /\ pages[j].parent \notin Housed(fam) \cup {NoId}
                  /\ pages[j].parent \in LiveOf(pages')
    <3>1. CASE j = d
      BY <1>15, <1>16, <1>17, <3>1 DEF Hangs, Rooted
    <3>2. CASE j # d
      BY <1>16, <1>17, <2>1, <3>2 DEF Coherent, LivePages, LiveOf, Ids
    <3> QED  BY <3>1, <3>2
  <2> QED  BY <1>16, <1>20, <1>26, <2>1, <2>2, <2>3, <2>4, CoherentStays DEF Ids
<1>28. \A s \in Runs \ {r} : Open(s) => Spared(s, fam)
  <2>1. Recorded' \subseteq Recorded /\ \A s \in Runs \ {r} : work'[s] = work[s]
    BY <1>0 DEF GoesOn, OpsStay, Others
  <2>2. \A j \in LivePages \ Housed(fam) : pages'[j].kind = pages[j].kind
    BY <1>13, <1>16 DEF LivePages, LiveOf, Ids
  <2> QED  BY <1>15, <1>18, <2>1, <2>2, AltersSpares
<1>29. Stands(r, fam, left2)'
  <2>1. Creating(r, fam) /\ Treading(r)  BY <1>1, RunStands
  <2>2. NoId \notin Ids'  BY <1>13, <1>16
  <2>3. Unwatched(work[r], work'[r].at)  BY <1>5 DEF Unwatched, Watched
  <2>4. ~Early(work[r].kind, work[r].at)  BY <1>1 DEF Early
  <2> QED
    BY <1>0, <1>1, <1>5, <1>16, <1>20, <1>26, <2>1, <2>2, <2>3, <2>4, PlainStands DEF AfterBatches
<1>30. House(o, fam[o])' \cap Ids \subseteq Housed(fam)
  BY <1>6, <1>7, <1>10 DEF Housed
<1>31. ~Late(work'[r].kind, work'[r].at) /\ ~On(r, "adopt")'
  BY <1>5 DEF Late, On
<1>32. Nested(fam, left2)'
  BY <1>0, <1>2, <1>16, <1>19, <1>20, <1>24, <1>25, <1>27, <1>28, <1>29, <1>30, <1>31, GoingNests
<1> QED  BY <1>32, SMTT(60)

LEMMA PrefixesCounted ==
    ASSUME NEW to \in Paths, NEW a \in Nat, NEW b \in Nat, a <= b, b <= Len(to)
    PROVE  Cardinality({SubSeq(to, 1, k) : k \in a .. b - 1}) = b - a
<1> DEFINE T == {SubSeq(to, 1, k) : k \in a .. b - 1}
           f == [k \in a .. b - 1 |-> SubSeq(to, 1, k)]
<1>1. \A k \in a .. b - 1 : Len(SubSeq(to, 1, k)) = k
  <2> SUFFICES ASSUME NEW k \in a .. b - 1  PROVE Len(SubSeq(to, 1, k)) = k
    OBVIOUS
  <2>1. to \in Seq(Names) /\ Len(to) \in Nat /\ k \in Nat /\ k <= Len(to)  BY DEF Paths
  <2> QED  BY <2>1, SubSeqProperties
<1>2. f \in Bijection(a .. b - 1, T)
  BY <1>1 DEF Bijection, Injection, Surjection, IsInjective
<1>3. IsFiniteSet(a .. b - 1) /\ Cardinality(a .. b - 1) = b - a
  <2>1. a \in Int /\ b - 1 \in Int /\ (IF a > b - 1 THEN 0 ELSE b - 1 - a + 1) = b - a  OBVIOUS
  <2>2. IsFiniteSet(a .. b - 1) /\ Cardinality(a .. b - 1) = IF a > b - 1 THEN 0 ELSE b - 1 - a + 1
    BY <2>1, FS_Interval
  <2> QED  BY <2>1, <2>2
<1>4. ExistsBijection(a .. b - 1, T)  BY <1>2 DEF ExistsBijection
<1> HIDE DEF T, f
<1>5. Cardinality(T) = b - a  BY <1>3, <1>4, FS_Bijection
<1> QED  BY <1>5 DEF T

(* The paths between two, and their places among each other.                 *)
LEMMA PathsBetween ==
    ASSUME NEW from \in Paths, NEW to \in Paths, IsStrictPrefix(from, to), NEW S,
           S = {p \in Ancestors(to) : IsPrefix(from, p)}
    PROVE  /\ Cardinality(S) = Len(to) - Len(from)
           /\ \A p \in S : /\ Shorter(S, p) = Len(p) - Len(from) /\ Len(p) \in Nat
                           /\ p = SubSeq(to, 1, Len(p))
<1> DEFINE n == Len(to)  m == Len(from)
<1>1. m \in Nat /\ n \in Nat /\ m < n
  BY PrefixLonger DEF IsStrictPrefix, Paths
<1>2. \A k \in 0 .. n : /\ SubSeq(to, 1, k) \in Paths /\ Len(SubSeq(to, 1, k)) = k
                        /\ \A l \in 1 .. k : SubSeq(to, 1, k)[l] = to[l]
  <2> SUFFICES ASSUME NEW k \in 0 .. n
               PROVE  /\ SubSeq(to, 1, k) \in Paths /\ Len(SubSeq(to, 1, k)) = k
                      /\ \A l \in 1 .. k : SubSeq(to, 1, k)[l] = to[l]
    OBVIOUS
  <2>1. to \in Seq(Names) /\ k \in Nat /\ k <= Len(to)  BY <1>1 DEF Paths
  <2> QED  BY <2>1, SubSeqProperties DEF Paths
<1>3. m <= n /\ \A l \in 1 .. m : from[l] = to[l]
  BY PrefixIsPointwise DEF IsStrictPrefix
<1>4. \A k \in 0 .. n - 1 : IsPrefix(from, SubSeq(to, 1, k)) <=> m <= k
  <2> SUFFICES ASSUME NEW k \in 0 .. n - 1
               PROVE  IsPrefix(from, SubSeq(to, 1, k)) <=> m <= k
    OBVIOUS
  <2>1. k \in 0 .. n  BY <1>1
  <2>2. SubSeq(to, 1, k) \in Paths /\ Len(SubSeq(to, 1, k)) = k
        /\ \A l \in 1 .. k : SubSeq(to, 1, k)[l] = to[l]
    BY <1>2, <2>1
  <2>3. IsPrefix(from, SubSeq(to, 1, k)) <=>
            m <= k /\ \A l \in 1 .. m : from[l] = SubSeq(to, 1, k)[l]
    BY <2>2, PrefixIsPointwise
  <2>4. m <= k => \A l \in 1 .. m : from[l] = SubSeq(to, 1, k)[l]
    BY <1>1, <1>3, <2>2
  <2> QED  BY <2>3, <2>4
<1>5. \A p : p \in S <=> \E k \in m .. n - 1 : p = SubSeq(to, 1, k)
  <2>1. \A p : p \in Ancestors(to) <=> \E k \in 0 .. n - 1 : p = SubSeq(to, 1, k)
    BY DEF Ancestors
  <2>2. ASSUME NEW p \in S  PROVE \E k \in m .. n - 1 : p = SubSeq(to, 1, k)
    <3>1. PICK k \in 0 .. n - 1 : p = SubSeq(to, 1, k)  BY <2>1
    <3>2. m <= k  BY <1>4, <3>1
    <3>3. k \in m .. n - 1  BY <1>1, <3>2
    <3> QED  BY <3>1, <3>3
  <2>3. ASSUME NEW k \in m .. n - 1  PROVE SubSeq(to, 1, k) \in S
    <3>1. k \in 0 .. n - 1 /\ m <= k  BY <1>1
    <3> QED  BY <1>4, <2>1, <3>1
  <2> QED  BY <2>2, <2>3
<1>6. S = {SubSeq(to, 1, k) : k \in m .. n - 1}  BY <1>5
<1>7. Cardinality(S) = n - m
  <2>1. m <= n /\ n <= Len(to)  BY <1>1
  <2> HIDE DEF n, m
  <2> QED  BY <1>1, <1>6, <2>1, PrefixesCounted
<1>8. ASSUME NEW p \in S
      PROVE  /\ Shorter(S, p) = Len(p) - m /\ Len(p) \in Nat
             /\ p = SubSeq(to, 1, Len(p))
  <2>1. PICK k \in m .. n - 1 : p = SubSeq(to, 1, k)  BY <1>5
  <2>2. Len(p) = k /\ k \in 0 .. n  BY <1>1, <1>2, <2>1
  <2>3. \A q : q \in S /\ Len(q) < k <=> \E l \in m .. k - 1 : q = SubSeq(to, 1, l)
    <3>1. ASSUME NEW q \in S, Len(q) < k  PROVE \E l \in m .. k - 1 : q = SubSeq(to, 1, l)
      <4>1. PICK l \in m .. n - 1 : q = SubSeq(to, 1, l)  BY <1>5
      <4>2. Len(q) = l  BY <1>1, <1>2, <4>1
      <4>3. l \in m .. k - 1  BY <1>1, <2>2, <3>1, <4>2
      <4> QED  BY <4>1, <4>3
    <3>2. ASSUME NEW l \in m .. k - 1  PROVE SubSeq(to, 1, l) \in S /\ Len(SubSeq(to, 1, l)) < k
      <4>1. l \in m .. n - 1 /\ l \in 0 .. n /\ l < k  BY <1>1, <2>2
      <4> QED  BY <1>2, <1>5, <4>1
    <3> QED  BY <3>1, <3>2
  <2>4. {q \in S : Len(q) < Len(p)} = {SubSeq(to, 1, l) : l \in m .. k - 1}
    BY <2>2, <2>3
  <2>5. Cardinality({SubSeq(to, 1, l) : l \in m .. k - 1}) = k - m
    <3>1. k \in Nat /\ m <= k /\ k <= Len(to)  BY <1>1, <2>2
    <3> HIDE DEF m
    <3> QED  BY <1>1, <3>1, PrefixesCounted
  <2>6. Shorter(S, p) = k - m  BY <2>4, <2>5 DEF Shorter
  <2>7. k \in Nat  BY <1>1, <2>2
  <2> QED  BY <2>1, <2>2, <2>6, <2>7
<1> QED  BY <1>7, <1>8

LEMMA EarliestOfMany ==
    ASSUME NEW a \in Int, NEW b \in Int, a <= b
    PROVE  Earliest(a .. b) = a
<1>1. a \in a .. b /\ \A j \in a .. b : a <= j  OBVIOUS
<1>2. \A i \in a .. b : (\A j \in a .. b : i <= j) => i = a  OBVIOUS
<1> QED  BY <1>1, <1>2 DEF Earliest

LEMMA HousedThen ==
    ASSUME NEW fam, NEW o \in Runs, \A q \in Runs \ {o} : Still(q), Broad(o), Broad(o)'
    PROVE  \A i : i \in Housed(fam)' <=>
              \/ i \in House(o, fam[o])'
              \/ \E q \in Runs \ {o} : Broad(q) /\ i \in House(q, fam[q])
<1>1. \A q \in Runs \ {o} : /\ Broad(q)' <=> Broad(q)
                            /\ Broad(q) => \A F : House(q, F)' = House(q, F)
  BY StillSame DEF Still, Broad
<1>2. \A i : i \in Housed(fam)' <=> \E q \in Runs : Broad(q)' /\ i \in House(q, fam[q])'
  BY DEF Housed
<1> QED  BY <1>1, <1>2

LEMMA PlantNests ==
    ASSUME Typed, Typed', Ordered, Ordered', NEW fam, NEW left, Nested(fam, left),
           NEW r \in Runs, Plant(r)
    PROVE  Nested(fam, left)'
<1>0. GoesOn(r)  BY PlantGoes DEF Typed
<1>1. IsRun(work[r]) /\ work[r].at = "plant" /\ work[r].kind = "rename"
  BY RunsAreRuns DEF Typed, Held, Plant, On, IsRun, Early, Holding, Late
<1>2. PICK o \in Runs : o = work[r].op  BY <1>1 DEF IsRun
<1>3. PICK d, from, to : d = work[r].id /\ from = work[r].copy.path /\ to = work[r].to
  OBVIOUS
<1>4. /\ from \in Paths /\ to \in Paths /\ IsPath(to) /\ to # <<>> /\ IsStrictPrefix(from, to)
      /\ from # <<>>
  <2>1. /\ work[r].to \in Paths /\ IsPath(work[r].to) /\ work[r].to # <<>>
        /\ work[r].copy.path \in Paths /\ IsStrictPrefix(work[r].copy.path, work[r].to)
    BY <1>1 DEF Typed, RunTyped, StageTyped, IsPath, IsDocument, UnderTarget, Paths
  <2>2. work[r].copy.path # <<>>  BY <1>1 DEF Ordered, RunsFit, RunFits, CopyFits
  <2> QED  BY <1>3, <2>1, <2>2
<1>5. PICK S : S = {p \in Ancestors(to) : IsPrefix(from, p)}  OBVIOUS
<1>6. PICK n, m : n = Len(to) /\ m = Len(from)  OBVIOUS
<1>7. PICK ids : ids = Size .. Size + (n - m) - 1  OBVIOUS
<1>8. /\ Cardinality(S) = n - m /\ m \in Nat /\ n \in Nat /\ m < n
      /\ \A p \in S : /\ Shorter(S, p) = Len(p) - m /\ Len(p) \in Nat
                      /\ p = SubSeq(to, 1, Len(p))
  <2>1. /\ Cardinality(S) = n - m
        /\ \A p \in S : /\ Shorter(S, p) = Len(p) - m /\ Len(p) \in Nat
                        /\ p = SubSeq(to, 1, Len(p))
    BY <1>4, <1>5, <1>6, PathsBetween
  <2>2. m \in Nat /\ n \in Nat  BY <1>4, <1>6 DEF Paths
  <2>3. m < n  BY <1>4, <1>6, PrefixLonger DEF IsStrictPrefix
  <2> QED  BY <2>1, <2>2, <2>3
<1>9. Size \in Nat \ {0} /\ Ids = 0 .. Size - 1 /\ NoId \notin Ids /\ Top \in Ids /\ Ids \subseteq Nat
  BY IdsAreCounted DEF Typed
<1>10. pages' = Inserted(S)
  BY <1>3, <1>5 DEF Plant, Plants
<1>11. /\ Ids' = 0 .. Size + (n - m) - 1
       /\ \A i \in Ids : pages'[i] = pages[i]
       /\ \A i \in Ids' \ Ids : \E p \in S :
             i = Size + Shorter(S, p) /\ pages'[i] = InsertedDoc(p)
  <2>1. S \in SUBSET Ancestors(to)  BY <1>5
  <2> QED  BY <1>4, <1>8, <1>10, <2>1, InsertedDocuments DEF InsertedDoc, Paths, Typed, Ids
<1>12. ids = Ids' \ Ids /\ Ids \subseteq Ids' /\ Ids' = Ids \cup ids
  BY <1>7, <1>8, <1>9, <1>11
<1>13. /\ work'[r].at = "graft" /\ work'[r].ids = ids /\ work'[r].kind = work[r].kind
       /\ work'[r].id = d /\ work'[r].copy = work[r].copy /\ work'[r].to = to
  <2>1. ids = NewId(0) .. NewId(Cardinality(S) - 1)
    <3>1. NewId(0) = Size /\ NewId(Cardinality(S) - 1) = Size + (n - m) - 1
      BY <1>8, <1>9 DEF NewId, Size
    <3> QED  BY <1>7, <3>1
  <2>2. work' = [work EXCEPT ![r].at = "graft", ![r].ids =
                    NewId(0) .. NewId(Cardinality(Plants(r)) - 1)]
    BY DEF Plant
  <2>3. Plants(r) = S  BY <1>3, <1>5 DEF Plants
  <2>4. work'[r] = [work[r] EXCEPT !.at = "graft", !.ids = ids]
    BY <2>1, <2>2, <2>3 DEF Typed, Held, WorkShape
  <2> QED  BY <1>1, <1>3, <2>4 DEF IsRun, HasFields
<1>14. Holds(r, o) /\ ~Create(r) /\ Rename(r)
  BY <1>1, <1>2 DEF Holds, Holding, Create, Rename
<1>15. PICK c, F, L : c = Claimed(o) /\ F = fam[o] /\ L = left[o]  OBVIOUS
<1>16. /\ ~Moving(o) /\ ~Moving(o)' /\ Off(o)' /\ Broad(o) /\ Broad(o)' /\ Renames(o)
       /\ Renames(o)'
  BY <1>0, <1>1, <1>13, <1>14, OwnHouse DEF Moving, Off, MainAts, RenameMain
<1>17. PICK new : new = Claimed(o)'  OBVIOUS
<1>18. /\ c = [from |-> from, now |-> from, id |-> d, guests |-> {}]
       /\ new = [from |-> from, now |-> from, id |-> d, guests |-> ids]
  <2>1. Guests(o) = {} /\ Guests(o)' = ids
    BY <1>0, <1>1, <1>13, <1>14, OwnHouse DEF On
  <2> QED  BY <1>0, <1>3, <1>14, <1>15, <1>16, <1>17, <2>1, OwnHouse
<1>19. House(o, F) = F \cup {d} /\ House(o, F)' = F \cup {d} \cup ids
       /\ HouseOf(c, F) = F \cup {d} /\ HouseOf(new, F) = F \cup {d} \cup ids
  BY <1>15, <1>17, <1>18 DEF House, HouseOf
<1>20. Family(pages, c, F, L) /\ Housing(o, F, L)  BY <1>15, <1>16 DEF Nested, Housings
<1>21. L = {} /\ F \cup {d} \subseteq LivePages /\ F \cup {d} \subseteq Ids
  BY <1>0, <1>3, <1>14, <1>16, <1>20, OwnHouse DEF Housing, LivePages, LiveOf, Ids
<1>22. /\ Alters(pages, pages', {}, {}) /\ \A H : Steady(pages, pages', H)
  <2>1. S \in SUBSET Ancestors(to)  BY <1>5
  <2> QED  BY <1>4, <1>10, <2>1, InsertedPlaces DEF Typed
<1>23. \A i \in ids : /\ pages'[i].kind = "empty" /\ pages'[i].parent = NoId
                      /\ pages'[i].path = SubSeq(to, 1, m + (i - Size))
                      /\ pages'[i].path \in S
  <2> SUFFICES ASSUME NEW i \in ids
               PROVE  /\ pages'[i].kind = "empty" /\ pages'[i].parent = NoId
                      /\ pages'[i].path = SubSeq(to, 1, m + (i - Size))
                      /\ pages'[i].path \in S
    OBVIOUS
  <2>1. PICK p \in S : i = Size + Shorter(S, p) /\ pages'[i] = InsertedDoc(p)  BY <1>11, <1>12
  <2>2. Len(p) = m + (i - Size) /\ p = SubSeq(to, 1, Len(p))  BY <1>8, <1>9, <2>1
  <2> QED  BY <2>1, <2>2 DEF InsertedDoc
<1>24. LivePages \subseteq LiveOf(pages')
  BY <1>11, <1>12 DEF LivePages, LiveOf, Ids
<1>25. Family(pages', new, F, L)
  <2>1. \A j \in Ids' : pages'[j].parent \in HouseOf(new, F) => j \in F
    <3>1. \A j \in Ids : pages[j].parent \in Ids \cup {NoId}
      BY DEF Typed, IsCollection, IsDocument, Ids
    <3>2. \A j \in Ids : pages[j].parent \in F \cup {d} => j \in F
      BY <1>19, <1>20 DEF Family, Ids
    <3>3. NoId \notin F \cup {d} \cup ids  BY <1>7, <1>9, <1>21 DEF NoId
    <3> QED  BY <1>11, <1>12, <1>19, <1>23, <3>1, <3>2, <3>3
  <2>2. \A j \in F : pages'[j] = pages[j] /\ j \in LiveOf(pages)  BY <1>11, <1>21 DEF LivePages
  <2>3. \A j \in F :
            /\ pages'[j].parent \in F \cup {d}
            /\ IsStrictPrefix(from, pages'[j].path)
            /\ Front(pages'[j].path) = pages'[pages'[j].parent].path
    <3>1. \A j \in F :
            /\ pages[j].parent \in F \cup {d}
            /\ IsStrictPrefix(from, pages[j].path)
            /\ Front(pages[j].path) = pages[pages[j].parent].path
      BY <1>18, <1>20, <1>21, <2>2 DEF Family, Named, LivePages
    <3>2. \A j \in F \cup {d} : pages'[j] = pages[j]  BY <1>11, <1>21
    <3> QED  BY <3>1, <3>2
  <2>4. new.from = from /\ new.now = from /\ new.id = d /\ new.guests = ids  BY <1>18
  <2>5. \A j \in F \cap LiveOf(pages') :
            /\ pages'[j].parent \in F \cup {new.id}
            /\ IsStrictPrefix(IF j \in L THEN new.from ELSE new.now, pages'[j].path)
            /\ pages'[j].parent \in LiveOf(pages') =>
                  Front(Named(pages', new, L, j)) = Named(pages', new, L, pages'[j].parent)
    BY <1>21, <2>3, <2>4 DEF Named
  <2>6. /\ d \in DOMAIN pages' \ {Top} /\ F \subseteq DOMAIN pages' \ {Top, d} /\ L \subseteq F
        /\ ids \subseteq DOMAIN pages' \ (F \cup {d, Top})
    BY <1>9, <1>12, <1>18, <1>20, <1>21 DEF Family, Ids
  <2>7. pages'[d].path = from
    BY <1>11, <1>18, <1>20, <1>21 DEF Family, LivePages
  <2>8. \A g \in ids : pages'[g].kind = "empty" /\ pages'[g].parent = NoId
                         /\ IsPrefix(from, pages'[g].path)
    BY <1>5, <1>23
  <2> HIDE DEF Named
  <2> QED  BY <2>1, <2>4, <2>5, <2>6, <2>7, <2>8 DEF Family, Ids
<1>26. Housing(o, F, L)'
  <2>1. F \cup {d} \subseteq LivePages'  BY <1>21, <1>24 DEF LivePages
  <2>2. Claim(o)'.to = to /\ From(o)' = from /\ Claim(o)'.id = d /\ (o \in Recorded)'
    BY <1>0, <1>3, <1>14, OwnHouse
  <2>3. ~IsPrefix(to, from)
    BY <1>0, <1>3, <1>14, <1>16, <1>20, OwnHouse DEF Housing
  <2>4. ~Is(o, {"bump", "redirect", "stage", "stream"})'
    BY <1>0, <1>13, <1>14, OwnHouse
  <2> QED  BY <1>16, <1>21, <2>1, <2>2, <2>3, <2>4 DEF Housing
<1>27. Fits(o, fam, left)  BY <1>15, <1>17, <1>25, <1>26 DEF Fits
<1>28. \A q \in Runs \ {o} : Still(q)  BY <1>0, <1>2, GoingIsStill DEF Typed
<1>29. \A i : i \in Housed(fam)' <=> i \in Housed(fam) \cup ids
  <2>1. \A i : i \in Housed(fam)' <=>
              \/ i \in House(o, F)'
              \/ \E q \in Runs \ {o} : Broad(q) /\ i \in House(q, fam[q])
    BY <1>15, <1>16, <1>28, HousedThen
  <2>2. \A i : i \in Housed(fam) <=>
              \/ i \in House(o, F)
              \/ \E q \in Runs \ {o} : Broad(q) /\ i \in House(q, fam[q])
    BY <1>15, <1>16 DEF Housed
  <2> QED  BY <1>19, <2>1, <2>2
<1>30. Coherent(pages', Housed(fam)')
  <2>1. Coherent(pages, Housed(fam))  BY DEF Nested
  <2>2. <<>> \notin S  BY <1>4, <1>5, EmptyPath
  <2>3. S \in SUBSET Ancestors(to) /\ Housed(fam) \subseteq Housed(fam)'  BY <1>5, <1>29
  <2> QED  BY <1>4, <1>10, <2>1, <2>2, <2>3, InsertedCoheres DEF Typed
<1>31. \A q \in Runs \ {o} : Broad(q) => Untouched(pages, pages', Claimed(q), fam[q])
  BY <1>22, AllUntouched
<1>32. \A s \in Runs \ {r} : Open(s) => Spared(s, fam)
  <2>1. Recorded' \subseteq Recorded /\ \A s \in Runs \ {r} : work'[s] = work[s]
    BY <1>0 DEF GoesOn, OpsStay, Others
  <2>2. \A j \in LivePages \ Housed(fam) : pages'[j].kind = pages[j].kind
    BY <1>11 DEF LivePages, LiveOf, Ids
  <2> QED  BY <1>22, <2>1, <2>2, AltersSpares
<1>33. Stands(r, fam, left)'
  <2>1. Creating(r, fam) /\ Treading(r)  BY <1>1, RunStands
  <2>2. NoId \notin Ids'  BY IsCollectionHasNoId DEF Typed, Ids
  <2>3. ~Early(work[r].kind, work[r].at)  BY <1>1 DEF Early
  <2>4. \A i \in Ids \cup {NoId} : i \in Housed(fam)' => i \in Housed(fam)
    BY <1>7, <1>9, <1>12, <1>29 DEF NoId
  <2>5. Planting(r)'
    <3>1. Earliest(ids) = Size
      <4>1. Size <= Size + (n - m) - 1 /\ Size + (n - m) - 1 \in Int /\ Size \in Int
        BY <1>8, <1>9
      <4> QED  BY <1>7, <4>1, EarliestOfMany
    <3> QED
      BY <1>3, <1>4, <1>6, <1>7, <1>13, <1>23, <3>1 DEF Planting, UnderTarget
  <2>6. Steady(pages, pages', Housed(fam))  BY <1>22
  <2> QED
    BY <1>0, <1>1, <1>13, <2>1, <2>2, <2>3, <2>4, <2>5, <2>6, GoneStands DEF AfterBatches
<1>34. House(o, fam[o])' \cap Ids \subseteq Housed(fam)
  BY <1>12, <1>15, <1>16, <1>19 DEF Housed
<1>35. ~Late(work'[r].kind, work'[r].at) /\ ~On(r, "adopt")'
  BY <1>13 DEF Late, On
<1> QED
  BY <1>0, <1>2, <1>12, <1>22, <1>27, <1>30, <1>31, <1>32, <1>33, <1>34, <1>35, GoingNests

LEMMA PrefixesOfPath ==
    ASSUME NEW to \in Paths, NEW k \in Nat, k <= Len(to)
    PROVE  /\ SubSeq(to, 1, k) \in Paths /\ Len(SubSeq(to, 1, k)) = k
           /\ \A l \in 1 .. k : SubSeq(to, 1, k)[l] = to[l]
           /\ k > 0 => Front(SubSeq(to, 1, k)) = SubSeq(to, 1, k - 1)
           /\ k = Len(to) => SubSeq(to, 1, k) = to
<1>1. \A i \in Nat : i <= Len(to) =>
          /\ SubSeq(to, 1, i) \in Paths /\ Len(SubSeq(to, 1, i)) = i
          /\ \A l \in 1 .. i : SubSeq(to, 1, i)[l] = to[l]
  <2> SUFFICES ASSUME NEW i \in Nat, i <= Len(to)
               PROVE  /\ SubSeq(to, 1, i) \in Paths /\ Len(SubSeq(to, 1, i)) = i
                      /\ \A l \in 1 .. i : SubSeq(to, 1, i)[l] = to[l]
    OBVIOUS
  <2>1. to \in Seq(Names) /\ Len(to) \in Nat  BY DEF Paths
  <2> QED  BY <2>1, SubSeqProperties DEF Paths
<1>2. /\ SubSeq(to, 1, k) \in Paths /\ Len(SubSeq(to, 1, k)) = k
      /\ \A l \in 1 .. k : SubSeq(to, 1, k)[l] = to[l]
  BY <1>1
<1>3. ASSUME k > 0  PROVE Front(SubSeq(to, 1, k)) = SubSeq(to, 1, k - 1)
  <2>0. PICK p, q : p = SubSeq(to, 1, k) /\ q = SubSeq(to, 1, k - 1)  OBVIOUS
  <2>1. k - 1 \in Nat /\ k - 1 <= Len(to)  BY <1>3 DEF Paths
  <2>2. q \in Paths /\ Len(q) = k - 1 /\ \A l \in 1 .. k - 1 : q[l] = to[l]  BY <1>1, <2>0, <2>1
  <2>3. p \in Paths /\ Len(p) = k /\ \A l \in 1 .. k : p[l] = to[l]  BY <1>2, <2>0
  <2>4. p # <<>>  BY <1>3, <2>3
  <2>5. Front(p) \in Paths /\ Len(Front(p)) = Len(p) - 1
        /\ \A l \in 1 .. Len(p) - 1 : Front(p)[l] = p[l]
    BY <2>3, <2>4, FrontIsPath
  <2>6. Len(Front(p)) = Len(q) /\ \A l \in 1 .. Len(Front(p)) : Front(p)[l] = q[l]
    BY <2>2, <2>3, <2>5
  <2> QED  BY <2>0, <2>2, <2>5, <2>6, PathsEqual
<1>4. ASSUME k = Len(to)  PROVE SubSeq(to, 1, k) = to
  <2>1. PICK p : p = SubSeq(to, 1, k)  OBVIOUS
  <2>2. p \in Paths /\ Len(p) = Len(to) /\ \A l \in 1 .. Len(p) : p[l] = to[l]
    BY <1>2, <1>4, <2>1
  <2> QED  BY <2>1, <2>2, PathsEqual
<1> QED  BY <1>2, <1>3, <1>4

LEMMA GraftNests ==
    ASSUME Typed, Typed', Ordered, Ordered', NEW fam, NEW left, Nested(fam, left),
           NEW r \in Runs, Graft(r), ~history'.stale
    PROVE  Nested(fam, left)'
<1>0. GoesOn(r)  BY GraftGoes DEF Typed
<1>1. IsRun(work[r]) /\ work[r].at = "graft" /\ work[r].kind = "rename"
  BY RunsAreRuns, ZenonT(60) DEF Typed, Held, Graft, On, IsRun, Early, Holding, Late
<1>2. PICK o \in Runs : o = work[r].op  BY <1>1 DEF IsRun
<1>3. PICK d, from, to, up0, ids : /\ d = work[r].id /\ from = work[r].copy.path
                                   /\ to = work[r].to /\ up0 = work[r].copy.parent
                                   /\ ids = work[r].ids
  OBVIOUS
<1>4. /\ from \in Paths /\ to \in Paths /\ IsPath(to) /\ to # <<>> /\ from # <<>>
  <2>1. /\ work[r].to \in Paths /\ IsPath(work[r].to) /\ work[r].to # <<>>
        /\ work[r].copy.path \in Paths
    BY <1>1, ZenonT(60) DEF Typed, RunTyped, StageTyped, IsPath, IsDocument, Paths
  <2>2. work[r].copy.path # <<>>  BY <1>1 DEF Ordered, RunsFit, RunFits, CopyFits
  <2> QED  BY <1>3, <2>1, <2>2
<1>5. PICK n, m : n = Len(to) /\ m = Len(from)  OBVIOUS
<1>6. PICK a : a = Earliest(ids)  OBVIOUS
<1>7. /\ IsStrictPrefix(from, to) /\ ids = a .. a + (n - m) - 1
      /\ \A i \in ids : pages[i].path = SubSeq(to, 1, m + (i - a))
  <2>1. Planting(r)  BY <1>1, RunStands
  <2> QED  BY <1>1, <1>3, <1>5, <1>6, <2>1 DEF Planting, On, UnderTarget
<1>8. m \in Nat /\ n \in Nat /\ m < n
  BY <1>4, <1>5, <1>7, PrefixLonger DEF IsStrictPrefix, Paths
<1>9. Size \in Nat \ {0} /\ Ids = 0 .. Size - 1 /\ NoId \notin Ids /\ Top \in Ids /\ Ids \subseteq Nat
  BY IdsAreCounted DEF Typed
<1>10. Holds(r, o) /\ ~Create(r) /\ Rename(r)
  BY <1>1, <1>2 DEF Holds, Holding, Create, Rename
<1>11. PICK c, F, L : c = Claimed(o) /\ F = fam[o] /\ L = left[o]  OBVIOUS
<1>12. work'[r].at = "put" /\ work'[r].kind = work[r].kind /\ work'[r].to = to
       /\ work'[r].id = d /\ work'[r].copy = work[r].copy
       /\ work'[r].parent = a + Cardinality(ids) - 1
  <2>1. work'[r] = [work[r] EXCEPT !.at = "put", !.parent = a + Cardinality(ids) - 1, !.ids = {}]
    BY <1>3, <1>6 DEF Graft, Typed, Held, WorkShape
  <2> QED  BY <1>1, <1>3, <2>1 DEF IsRun, HasFields
<1>13. /\ ~Moving(o) /\ ~Moving(o)' /\ Off(o)' /\ Broad(o) /\ Broad(o)' /\ Renames(o)
       /\ Renames(o)'
  BY <1>0, <1>1, <1>10, <1>12, OwnHouse DEF Moving, Off, MainAts, RenameMain
<1>14. PICK new : new = Claimed(o)'  OBVIOUS
<1>15. /\ c = [from |-> from, now |-> from, id |-> d, guests |-> ids]
       /\ new = [from |-> from, now |-> from, id |-> d, guests |-> {}]
  <2>1. Guests(o) = ids /\ Guests(o)' = {}
    BY <1>0, <1>1, <1>3, <1>10, <1>12, OwnHouse DEF On
  <2> QED  BY <1>0, <1>3, <1>10, <1>11, <1>13, <1>14, <2>1, OwnHouse
<1>16. House(o, F) = F \cup {d} \cup ids /\ House(o, F)' = F \cup {d}
       /\ HouseOf(c, F) = F \cup {d} \cup ids /\ HouseOf(new, F) = F \cup {d}
  BY <1>11, <1>14, <1>15 DEF House, HouseOf
<1>17. Family(pages, c, F, L) /\ Housing(o, F, L)  BY <1>11, <1>13 DEF Nested, Housings
<1>18. L = {} /\ F \cup {d} \subseteq LivePages /\ F \cup {d} \subseteq Ids
  BY <1>0, <1>3, <1>10, <1>13, <1>17, OwnHouse DEF Housing, LivePages, LiveOf, Ids
<1>19. /\ ids \subseteq Ids \ (F \cup {d, Top}) /\ ids \subseteq LivePages
       /\ \A i \in ids : pages[i].kind = "empty" /\ pages[i].parent = NoId
  BY <1>15, <1>17 DEF Family, LivePages, LiveOf, Ids
<1>20. a \in ids /\ ids \subseteq Nat
  <2>1. work[r].ids \in SUBSET Nat /\ work[r].ids # {}
    <3>1. PICK x \in Ids, y \in Ids : x <= y /\ work[r].ids = x .. y
      BY <1>1 DEF Typed, StageTyped
    <3> QED  BY <1>9, <3>1
  <2> QED  BY <1>3, <1>6, <2>1, EarliestIsOne
<1>21. Cardinality(ids) = n - m
  <2>0. PICK b : b = a + (n - m) - 1  OBVIOUS
  <2>1. a \in Int /\ b \in Int /\ (IF a > b THEN 0 ELSE b - a + 1) = n - m
    BY <1>8, <1>20, <2>0
  <2>2. Cardinality(a .. b) = IF a > b THEN 0 ELSE b - a + 1  BY <2>1, FS_Interval
  <2> QED  BY <1>7, <2>0, <2>1, <2>2
<1>22. PICK last : last = a + (n - m) - 1  OBVIOUS
<1>23. /\ last \in ids /\ work'[r].parent = last
       /\ \A i \in ids : i # a => i - 1 \in ids
  BY <1>7, <1>8, <1>12, <1>20, <1>21, <1>22
<1>24. /\ up0 \in LivePages /\ pages[up0].path = Front(from) /\ up0 \in Ids /\ up0 # NoId
       /\ up0 \notin Housed(fam) /\ Rooted(pages, up0)
  <2>1. Stale(work[r].copy.parent \notin At(Dirname(work[r].copy.path)))  BY DEF Graft
  <2>2. history'.stale = (history.stale \/ up0 \notin At(Dirname(from)))
    BY <1>3, <2>1 DEF Stale, Typed, Held, HasHistory
  <2>3. up0 \in At(Dirname(from))  BY <2>2
  <2>4. up0 \in LivePages /\ pages[up0].path = Front(from) /\ up0 \in Ids /\ up0 # NoId
    BY <2>3, PlacedThere DEF Dirname
  <2>5. Claiming(o) /\ Claim(o).copy = work[r].copy /\ From(o) = from
    BY <1>0, <1>3, <1>10, OwnHouse
  <2>6. Anchored(pages, Housed(fam), up0, Front(from))  BY <1>3, <2>5 DEF Nested, Formers
  <2> QED  BY <2>4, <2>6 DEF Anchored, Pinned, LivePages
<1>25. ids \subseteq Housed(fam)  BY <1>11, <1>13, <1>16 DEF Housed
<1>26. /\ Ids' = Ids /\ \A i \in Ids \ ids : pages'[i] = pages[i]
       /\ \A i \in ids : /\ pages'[i].kind = pages[i].kind /\ pages'[i].path = pages[i].path
                         /\ pages'[i].parent = IF i = a THEN up0 ELSE i - 1
  <2>1. \A i \in ids : Found(i)  BY <1>19 DEF Found
  <2>2. /\ Ids' = Ids
        /\ \A i \in Ids : pages'[i] = IF i \notin ids \/ ~Found(i) THEN pages[i]
                 ELSE [pages[i] EXCEPT !.parent = IF i = a THEN up0 ELSE i - 1]
    BY <1>3, <1>6 DEF Graft, Ids
  <2>3. ASSUME NEW i \in ids
        PROVE  /\ pages'[i].kind = pages[i].kind /\ pages'[i].path = pages[i].path
               /\ pages'[i].parent = IF i = a THEN up0 ELSE i - 1
    <3>1. IsDocument(pages[i], Ids)  BY <1>19 DEF Typed, IsCollection, Ids
    <3>2. PICK p : p = IF i = a THEN up0 ELSE i - 1  OBVIOUS
    <3>3. pages'[i] = [pages[i] EXCEPT !.parent = p]  BY <1>19, <2>1, <2>2, <3>2
    <3> QED  BY <3>1, <3>2, <3>3 DEF IsDocument
  <2> QED  BY <1>19, <2>1, <2>2, <2>3
<1>27. LiveOf(pages') = LivePages
  BY <1>19, <1>26 DEF LiveOf, LivePages, Ids
<1>28. /\ \A i \in ids : pages'[i].parent \in ids \cup {up0}
       /\ \A i \in ids : Rooted(pages', i)
  <2>1. \A i \in ids : pages'[i].parent \in ids \cup {up0}  BY <1>23, <1>26
  <2>2. NoId \notin ids \cup {up0}  BY <1>9, <1>19, <1>24
  <2> QED  BY <2>1, <2>2 DEF Rooted
<1>29. Alters(pages, pages', ids, ids \cup {up0})
  BY <1>26, <1>27, <1>28 DEF Alters, Stays, LivePages, Ids
<1>30. \A q \in Runs \ {o} : Broad(q) => Untouched(pages, pages', Claimed(q), fam[q])
  <2> SUFFICES ASSUME NEW q \in Runs \ {o}, Broad(q)
               PROVE  Untouched(pages, pages', Claimed(q), fam[q])
    OBVIOUS
  <2>1. \A i \in ids : i \notin House(q, fam[q])
    BY <1>11, <1>13, <1>16, <1>19, LiveInOneHouse DEF Nested
  <2>2. up0 \notin House(q, fam[q])  BY <1>24 DEF Housed
  <2>3. /\ \A i \in ids \cap LivePages : i \notin House(q, fam[q])
        /\ \A i \in ids \cup {up0} : i \notin House(q, fam[q])
    BY <2>1, <2>2
  <2> QED  BY <1>29, <2>3, AllUntouched
<1>31. Steady(pages, pages', Housed(fam))
  BY <1>25, <1>26, <1>27 DEF Steady, Rooted, LivePages, Ids
<1>32. Family(pages', new, F, L)
  <2>1. \A j \in Ids : pages'[j].parent \in F \cup {d} => j \in F
    <3>1. up0 \notin F \cup {d} /\ \A i \in ids : i \notin F \cup {d}
      BY <1>11, <1>13, <1>16, <1>19, <1>24 DEF Housed
    <3>2. \A j \in Ids : pages[j].parent \in F \cup {d} => j \in F
      BY <1>16, <1>17 DEF Family, Ids
    <3> QED  BY <1>26, <1>28, <3>1, <3>2
  <2>2. \A j \in F \cup {d} : pages'[j] = pages[j]  BY <1>18, <1>19, <1>26
  <2>3. \A j \in F :
            /\ pages'[j].parent \in F \cup {d}
            /\ IsStrictPrefix(from, pages'[j].path)
            /\ Front(pages'[j].path) = pages'[pages'[j].parent].path
    <3>1. \A j \in F :
            /\ pages[j].parent \in F \cup {d}
            /\ IsStrictPrefix(from, pages[j].path)
            /\ Front(pages[j].path) = pages[pages[j].parent].path
      BY <1>15, <1>17, <1>18 DEF Family, Named, LivePages
    <3> QED  BY <2>2, <3>1
  <2>4. new.from = from /\ new.now = from /\ new.id = d /\ new.guests = {}  BY <1>15
  <2>5. \A j \in F \cap LiveOf(pages') :
            /\ pages'[j].parent \in F \cup {new.id}
            /\ IsStrictPrefix(IF j \in L THEN new.from ELSE new.now, pages'[j].path)
            /\ pages'[j].parent \in LiveOf(pages') =>
                  Front(Named(pages', new, L, j)) = Named(pages', new, L, pages'[j].parent)
    BY <1>18, <2>3, <2>4 DEF Named
  <2>6. /\ d \in DOMAIN pages' \ {Top} /\ F \subseteq DOMAIN pages' \ {Top, d} /\ L \subseteq F
    BY <1>15, <1>17, <1>18, <1>26 DEF Family, Ids
  <2>7. pages'[d].path = from
    BY <1>15, <1>17, <1>18, <2>2 DEF Family, LivePages
  <2>8. \A j \in DOMAIN pages' : pages'[j].parent \in HouseOf(new, F) => j \in F
    BY <1>16, <1>26, <2>1 DEF Ids
  <2> HIDE DEF Named
  <2> QED  BY <2>4, <2>5, <2>6, <2>7, <2>8 DEF Family
<1>33. Housing(o, F, L)'
  <2>1. F \cup {d} \subseteq LivePages'  BY <1>18, <1>27 DEF LivePages
  <2>2. Claim(o)'.to = to /\ From(o)' = from /\ Claim(o)'.id = d /\ (o \in Recorded)'
    BY <1>0, <1>3, <1>10, OwnHouse
  <2>3. ~IsPrefix(to, from)
    BY <1>0, <1>3, <1>10, <1>13, <1>17, OwnHouse DEF Housing
  <2>4. ~Is(o, {"bump", "redirect", "stage", "stream"})'
    BY <1>0, <1>12, <1>10, OwnHouse
  <2> QED  BY <1>13, <1>18, <2>1, <2>2, <2>3, <2>4 DEF Housing
<1>34. Fits(o, fam, left)  BY <1>11, <1>14, <1>32, <1>33 DEF Fits
<1>35. \A q \in Runs \ {o} : Still(q)  BY <1>0, <1>2, GoingIsStill DEF Typed
<1>36. \A i : i \in Housed(fam) <=> i \in Housed(fam)' \cup ids
  <2>1. \A i : i \in Housed(fam)' <=>
              \/ i \in House(o, F)'
              \/ \E q \in Runs \ {o} : Broad(q) /\ i \in House(q, fam[q])
    BY <1>11, <1>13, <1>35, HousedThen
  <2>2. \A i : i \in Housed(fam) <=>
              \/ i \in House(o, F)
              \/ \E q \in Runs \ {o} : Broad(q) /\ i \in House(q, fam[q])
    BY <1>11, <1>13 DEF Housed
  <2> QED  BY <1>16, <2>1, <2>2
<1>37. \A i \in ids : i \notin Housed(fam)'
  <2> SUFFICES ASSUME NEW i \in ids  PROVE i \notin Housed(fam)'
    OBVIOUS
  <2>1. \A q \in Runs \ {o} : Broad(q) => i \notin House(q, fam[q])
    BY <1>11, <1>13, <1>16, <1>19, LiveInOneHouse DEF Nested
  <2>2. i \notin House(o, F)'  BY <1>16, <1>19
  <2> QED  BY <1>11, <1>13, <1>35, <2>1, <2>2, HousedThen
<1>38. Coherent(pages', Housed(fam)')
  <2>1. Coherent(pages, Housed(fam))  BY DEF Nested
  <2>2. \A j \in Ids' \ LiveOf(pages') : pages'[j].parent = NoId
    BY <1>19, <1>26, <1>27, <2>1 DEF Coherent, LivePages, Ids
  <2>3. \A j \in LiveOf(pages') :
            IsPath(pages'[j].path) /\ (j # Top => pages'[j].path # <<>>)
    BY <1>26, <1>27, <2>1 DEF Coherent, LivePages, LiveOf, Ids
  <2>4. ASSUME NEW j \in LiveOf(pages') \ {Top}
        PROVE  \/ pages'[j].parent \in Housed(fam)' \cup {NoId}
               \/ Hangs(pages', j)
               \/ /\ j \in LiveOf(pages) /\ pages'[j].path = pages[j].path
                  /\ pages'[j].parent = pages[j].parent
                  /\ pages[j].parent \notin Housed(fam) \cup {NoId}
                  /\ pages[j].parent \in LiveOf(pages')
    <3>1. CASE j = a
      <4>1. pages'[j].path = SubSeq(to, 1, m) /\ pages'[j].parent = up0
        BY <1>7, <1>8, <1>20, <1>26, <3>1
      <4>2. SubSeq(to, 1, m) = from
        <5>1. PICK p : p = SubSeq(to, 1, m)  OBVIOUS
        <5>2. p \in Paths /\ Len(p) = m /\ \A l \in 1 .. m : p[l] = to[l]
          BY <1>4, <1>5, <1>8, <5>1, PrefixesOfPath
        <5>3. \A l \in 1 .. m : from[l] = to[l]
          BY <1>4, <1>5, <1>7, PrefixIsPointwise DEF IsStrictPrefix
        <5>4. Len(p) = Len(from) /\ \A l \in 1 .. Len(p) : p[l] = from[l]
          BY <1>5, <5>2, <5>3
        <5> QED  BY <1>4, <5>1, <5>2, <5>4, PathsEqual
      <4>3. up0 \notin ids  BY <1>24, <1>25
      <4>4. pages'[up0] = pages[up0]  BY <1>24, <1>26, <4>3
      <4> QED  BY <1>24, <1>27, <4>1, <4>2, <4>4 DEF Hangs, Rooted
    <3>2. CASE j \in ids /\ j # a
      <4>1. j - 1 \in ids /\ pages'[j].parent = j - 1  BY <1>23, <1>26, <3>2
      <4>2. PICK k : k = m + (j - a)  OBVIOUS
      <4>3. /\ k \in Nat /\ k > 0 /\ k <= Len(to) /\ m + (j - 1 - a) = k - 1
        BY <1>5, <1>7, <1>8, <1>20, <3>2, <4>2
      <4>4. pages'[j].path = SubSeq(to, 1, k) /\ pages'[j - 1].path = SubSeq(to, 1, k - 1)
        BY <1>7, <1>26, <3>2, <4>1, <4>2, <4>3
      <4>5. Front(SubSeq(to, 1, k)) = SubSeq(to, 1, k - 1)
        BY <1>4, <4>3, PrefixesOfPath
      <4>6. j - 1 \in LiveOf(pages') /\ Rooted(pages', j - 1)
        BY <1>19, <1>27, <1>28, <4>1
      <4> QED  BY <4>1, <4>4, <4>5, <4>6 DEF Hangs
    <3>3. CASE j \notin ids
      <4>1. j \in LivePages /\ j \in Ids /\ pages'[j] = pages[j]
        BY <1>26, <1>27, <3>3 DEF LivePages, LiveOf, Ids
      <4>2. pages[j].parent \notin ids
        <5> SUFFICES ASSUME pages[j].parent \in ids  PROVE FALSE
          OBVIOUS
        <5>1. j \in F  BY <1>16, <1>17, <4>1 DEF Family, Ids
        <5>2. pages[j].parent \in F \cup {d}
          BY <1>15, <1>17, <4>1, <5>1 DEF Family, LivePages
        <5> QED  BY <1>19, <5>2
      <4>3. CASE pages[j].parent \in Housed(fam) \cup {NoId}  BY <1>36, <4>1, <4>2, <4>3
      <4>4. CASE pages[j].parent \notin Housed(fam) \cup {NoId}
        BY <1>27, <2>1, <4>1, <4>4 DEF Coherent, LivePages
      <4> QED  BY <4>3, <4>4
    <3> QED  BY <3>1, <3>2, <3>3
  <2>5. DOMAIN pages \subseteq DOMAIN pages'  BY <1>26 DEF Ids
  <2>6. \A j \in DOMAIN pages' \ LiveOf(pages') : pages'[j].parent = NoId  BY <2>2 DEF Ids
  <2> QED  BY <1>31, <2>1, <2>3, <2>4, <2>5, <2>6, CoherentStays
<1>39. \A s \in Runs : Open(s) /\ On(s, "adopt") =>
          work[s].parent \notin ids \cup {up0} /\ IsRun(work[s])
  <2> SUFFICES ASSUME NEW s \in Runs, Open(s), On(s, "adopt")
               PROVE  work[s].parent \notin ids \cup {up0} /\ IsRun(work[s])
    OBVIOUS
  <2>0. IsRun(work[s])  BY DEF Open
  <2>1. Adopting(s, fam)  BY <2>0, RunStands
  <2>2. work[s].parent \notin Housed(fam)
        /\ \A q \in Runs : Claiming(q) => Claim(q).copy.parent # work[s].parent
    BY <2>0, <2>1 DEF Adopting
  <2>3. Claiming(o) /\ Claim(o).copy.parent = up0
    BY <1>0, <1>3, <1>10, OwnHouse
  <2> QED  BY <1>25, <2>0, <2>2, <2>3
<1>40. \A s \in Runs \ {r} : Open(s) => Spared(s, fam)
  <2>1. Recorded' \subseteq Recorded /\ \A s \in Runs \ {r} : work'[s] = work[s]
    BY <1>0 DEF GoesOn, OpsStay, Others
  <2>2. \A j \in LivePages \ Housed(fam) : pages'[j].kind = pages[j].kind
    BY <1>25, <1>26 DEF LivePages, LiveOf, Ids
  <2> HIDE DEF Spared, Alters
  <2> QED  BY <1>29, <1>39, <2>1, <2>2, AltersSpares
<1>41. Stands(r, fam, left)'
  <2>1. Creating(r, fam) /\ Treading(r)  BY <1>1, RunStands
  <2>2. NoId \notin Ids'  BY <1>9, <1>26
  <2>3. ~Early(work[r].kind, work[r].at)  BY <1>1 DEF Early
  <2>4. \A i \in Ids \cup {NoId} : i \in Housed(fam)' => i \in Housed(fam)  BY <1>36
  <2>5. Placing(r, fam)'
    <3>1. pages'[last].path = Front(to)
      <4>1. m + (last - a) = n - 1  BY <1>8, <1>20, <1>22
      <4>2. pages'[last].path = SubSeq(to, 1, n - 1)  BY <1>7, <1>23, <1>26, <4>1
      <4>3. n > 0 /\ n <= Len(to) /\ n = Len(to)  BY <1>5, <1>8
      <4>4. Front(SubSeq(to, 1, n)) = SubSeq(to, 1, n - 1) /\ SubSeq(to, 1, n) = to
        BY <1>4, <1>8, <4>3, PrefixesOfPath
      <4> QED  BY <4>2, <4>4
    <3>2. Anchored(pages', Housed(fam)', last, Front(to))
      BY <1>23, <1>28, <1>37, <3>1 DEF Anchored, Pinned
    <3>3. \A s \in Runs : Open(s)' /\ On(s, "adopt")' => work'[s].parent # last
      <4> SUFFICES ASSUME NEW s \in Runs, Open(s)', On(s, "adopt")'
                   PROVE  work'[s].parent # last
        OBVIOUS
      <4>1. s # r  BY <1>12 DEF On
      <4>2. work'[s] = work[s]  BY <1>0, <4>1 DEF GoesOn, Others
      <4>3. Open(s) /\ On(s, "adopt")  BY <4>2 DEF Open, On
      <4> QED  BY <1>23, <1>39, <4>2, <4>3
    <3> QED  BY <1>12, <1>23, <3>2, <3>3 DEF Placing
  <2>6. work'[r].at = "put"  BY <1>12
  <2> QED
    BY <1>0, <1>1, <1>31, <2>1, <2>2, <2>3, <2>4, <2>5, <2>6, GoneStands DEF AfterBatches
<1>42. House(o, fam[o])' \cap Ids \subseteq Housed(fam)
  BY <1>11, <1>13, <1>16 DEF Housed
<1>43. ~Late(work'[r].kind, work'[r].at) /\ ~On(r, "adopt")' /\ Ids \subseteq Ids'
  BY <1>12, <1>26 DEF Late, On
<1> QED
  BY <1>0, <1>2, <1>30, <1>31, <1>34, <1>38, <1>40, <1>41, <1>42, <1>43, GoingNests

(* What is below a path is a path as well: none of the trash. *)
LEMMA BelowIsPath ==
    ASSUME NEW p \in Paths, IsPath(p), p # <<>>, NEW q \in Paths, IsPrefix(p, q)
    PROVE  IsPath(q) /\ q # <<>>
<1>1. ASSUME NEW s \in Paths, Len(s) = 1, ~IsPrefix(s, p)  PROVE ~IsPrefix(s, q)
  <2> SUFFICES ASSUME IsPrefix(s, q)  PROVE FALSE
    OBVIOUS
  <2>1. IsPrefix(p, s) /\ p # s  BY <1>1, PrefixesCompare, PrefixReflexive
  <2>2. Len(p) < 1 /\ Len(p) \in Nat  BY <1>1, <2>1, PrefixLonger DEF Paths
  <2> QED  BY <2>2, EmptyPath
<1>2. /\ NoPath \in Paths /\ TrashPath \in Paths /\ Len(NoPath) = 1 /\ Len(TrashPath) = 1
  BY DEF NoPath, TrashPath, Paths, Names
<1>3. ~IsPrefix(NoPath, q) /\ ~IsPrefix(TrashPath, q)  BY <1>1, <1>2 DEF IsPath
<1>4. q # <<>>  BY EmptyPath
<1> QED  BY <1>3, <1>4 DEF IsPath, Paths

LEMMA BatchWrites ==
    ASSUME Typed, NEW r \in Runs, NEW x, Batch(r, x)
    PROVE  /\ Ids' = Ids /\ x[1] \in Ids \ {Top} /\ x[2] \in Paths
           /\ IsRun(work[r]) /\ work[r].at = "batch" /\ work[r].kind \in {"rename", "delete", "erase"}
           /\ \A j \in Ids \ {x[1]} : pages'[j] = pages[j]
           /\ Found(x[1]) /\ Rename(r) =>
                 /\ pages'[x[1]].kind = pages[x[1]].kind
                 /\ pages'[x[1]].parent = pages[x[1]].parent
                 /\ pages'[x[1]].path = Moved(x[2], work[r].copy.path, work[r].to)
           /\ Found(x[1]) /\ ~Rename(r) =>
                 x[1] \notin LiveOf(pages') /\ pages'[x[1]].parent = NoId
           /\ ~Found(x[1]) => pages' = pages
           /\ work'[r].todo = work[r].todo \ {x} /\ work'[r].at = "batch"
           /\ work'[r].kind = work[r].kind /\ work'[r].id = work[r].id
           /\ work'[r].copy = work[r].copy /\ work'[r].to = work[r].to
           /\ work'[r].op = work[r].op
           /\ history'.stale = history.stale /\ history'.crowded = history.crowded
           /\ history'.doubled = history.doubled /\ history'.damaged = history.damaged
<1>1. IsRun(work[r]) /\ work[r].at = "batch" /\ work[r].kind \in {"rename", "delete", "erase"}
  BY RunsAreRuns DEF Typed, Held, Batch, On, IsRun, Early, Holding, Late
<1>2. x[1] \in Ids \ {Top} /\ x[2] \in Paths
  BY <1>1 DEF Typed, StageTyped, Batch, Paths
<1>3. /\ work'[r].todo = work[r].todo \ {x} /\ work'[r].at = "batch"
      /\ work'[r].kind = work[r].kind /\ work'[r].id = work[r].id
      /\ work'[r].copy = work[r].copy /\ work'[r].to = work[r].to
      /\ work'[r].op = work[r].op
  <2>1. work'[r] = [work[r] EXCEPT !.todo = @ \ {x}]
    BY DEF Batch, Typed, Held, WorkShape
  <2> QED  BY <1>1, <2>1 DEF IsRun, HasFields
<1>4. /\ history'.stale = history.stale /\ history'.crowded = history.crowded
      /\ history'.doubled = history.doubled /\ history'.damaged = history.damaged
  <2>1. history' = [history EXCEPT !.fresh = @ \ {x[1]}]  BY DEF Batch
  <2> QED  BY <2>1 DEF Typed, Held, HasHistory
<1>5. CASE ~Found(x[1])
  <2>1. pages' = pages  BY <1>5 DEF Batch
  <2> QED  BY <1>1, <1>2, <1>3, <1>4, <1>5, <2>1 DEF Ids
<1>6. CASE Found(x[1])
  <2>1. IsDocument(pages[x[1]], Ids)  BY <1>2 DEF Typed, IsCollection, Ids
  <2>0. PICK doc : /\ doc = CASE Rename(r) ->
                                [pages[x[1]] EXCEPT !.path =
                                    Moved(x[2], work[r].copy.path, work[r].to)]
                             [] Delete(r) /\ x[3] = "page" ->
                                [NoPage EXCEPT !.kind = "trash", !.path = TrashPath]
                             [] OTHER -> NoPage
                   /\ pages' = [pages EXCEPT ![x[1]] = doc]
    BY <1>6 DEF Batch
  <2>2. CASE Rename(r)
    <3>1. PICK to : to = Moved(x[2], work[r].copy.path, work[r].to)  OBVIOUS
    <3>2. pages' = [pages EXCEPT ![x[1]] = doc] /\ doc = [pages[x[1]] EXCEPT !.path = to]
      BY <2>0, <2>2, <3>1 DEF Rename, Delete
    <3>3. pages'[x[1]] = [pages[x[1]] EXCEPT !.path = to]  BY <1>2, <3>2 DEF Ids
    <3>4. /\ pages'[x[1]].kind = pages[x[1]].kind /\ pages'[x[1]].parent = pages[x[1]].parent
          /\ pages'[x[1]].path = to
      BY <2>1, <3>3 DEF IsDocument
    <3>5. Ids' = Ids /\ \A j \in Ids \ {x[1]} : pages'[j] = pages[j]
      BY <3>2 DEF Ids
    <3> QED  BY <1>1, <1>2, <1>3, <1>4, <1>6, <2>2, <3>1, <3>4, <3>5
  <2>3. CASE ~Rename(r)
    <3>3. doc = NoPage \/ doc = [NoPage EXCEPT !.kind = "trash", !.path = TrashPath]
      BY <2>0, <2>3
    <3>4. doc.kind \notin {"page", "empty"} /\ doc.parent = NoId
      <4>1. CASE doc = NoPage  BY <4>1 DEF NoPage
      <4>2. CASE doc = [NoPage EXCEPT !.kind = "trash", !.path = TrashPath]
        BY <4>2 DEF NoPage
      <4> QED  BY <3>3, <4>1, <4>2
    <3>5. Ids' = Ids /\ pages'[x[1]] = doc /\ \A j \in Ids \ {x[1]} : pages'[j] = pages[j]
      BY <1>2, <2>0 DEF Ids
    <3>6. x[1] \notin LiveOf(pages') /\ pages'[x[1]].parent = NoId
      BY <3>4, <3>5 DEF LiveOf
    <3> QED  BY <1>1, <1>2, <1>3, <1>4, <1>6, <2>3, <3>5, <3>6
  <2> QED  BY <2>2, <2>3
<1> QED  BY <1>5, <1>6

(* What has moved does not move again. *)
LEMMA MovedOnce ==
    ASSUME NEW p \in Paths, NEW from \in Paths, NEW to \in Paths, IsPrefix(to, p),
           ~IsPrefix(to, from), ~IsStrictPrefix(from, to)
    PROVE  Moved(p, from, to) = p
<1>1. ~IsPrefix(from, p)  BY PrefixesCompare, PrefixReflexive DEF IsStrictPrefix
<1> QED  BY <1>1 DEF Moved

LEMMA BatchNests ==
    ASSUME Typed, Typed', Ordered, Ordered', NEW fam, NEW left, Nested(fam, left),
           NEW r \in Runs, NEW x, Batch(r, x)
    PROVE  \E left2 : Nested(fam, left2)'
<1>0. GoesOn(r)  BY BatchGoes DEF Typed
<1>1. IsRun(work[r]) /\ work[r].at = "batch" /\ work[r].kind \in {"rename", "delete", "erase"}
  BY BatchWrites
<1>2. PICK o \in Runs : o = work[r].op  BY <1>1 DEF IsRun
<1>3. PICK d, from, to, i : /\ d = work[r].id /\ from = work[r].copy.path
                            /\ to = work[r].to /\ i = x[1]
  OBVIOUS
<1>4. Holds(r, o) /\ ~Create(r)
  BY <1>1, <1>2 DEF Holds, Holding, Create
<1>5. work'[r].at = "batch" /\ work'[r].todo = work[r].todo \ {x}
      /\ work'[r].kind = work[r].kind /\ work'[r].op = o
  BY <1>2, BatchWrites
<1>6. PICK c, F, L : c = Claimed(o) /\ F = fam[o] /\ L = left[o]  OBVIOUS
<1>7. /\ Moving(o) <=> Rename(r)
      /\ Moving(o)' <=> Rename(r)
      /\ Broad(o) /\ Broad(o)' /\ (Renames(o) <=> Rename(r)) /\ (Renames(o)' <=> Rename(r))
      /\ o \in Recorded /\ (o \in Recorded)'
  <2>1. Rename(r) => ops[o].stage = "Sub"
    <3>1. o \in Recorded /\ (Rename(r) => (ops[o].stage = "Main" <=> work[r].at \in MainAts))
          /\ (Renames(o) <=> Rename(r)) /\ Claim(o).kind = ops[o].kind
      BY <1>0, <1>4, OwnHouse DEF Claim
    <3>2. OpTyped(ops[o], Ids)  BY <3>1 DEF Typed
    <3>3. ops[o].kind = "rename" => ops[o].stage \in {"Main", "Sub"}  BY <3>2 DEF OpTyped
    <3> QED  BY <1>1, <3>1, <3>3 DEF MainAts, RenameMain, Renames
  <2>2. ops'[o].stage = ops[o].stage  BY <1>0, <1>4, OwnHouse
  <2>3. /\ Broad(o) /\ Broad(o)' /\ (Renames(o) <=> Rename(r)) /\ (Renames(o)' <=> Rename(r))
        /\ o \in Recorded /\ (o \in Recorded)'
    BY <1>0, <1>4, OwnHouse
  <2>4. (ops[o].stage)' = ops[o].stage  BY <2>2
  <2> QED  BY <2>1, <2>3, <2>4 DEF Moving
<1>8. PICK new : new = Claimed(o)'  OBVIOUS
<1>9. /\ c = [from |-> from, now |-> IF Rename(r) THEN to ELSE from, id |-> d, guests |-> {}]
      /\ new = c
  <2>1. Guests(o) = {} /\ Guests(o)' = {}
    BY <1>0, <1>1, <1>4, <1>5, OwnHouse DEF On
  <2>2. /\ c = [from |-> from, now |-> IF Moving(o) THEN to ELSE from, id |-> d, guests |-> {}]
        /\ new = [from |-> from, now |-> IF Moving(o)' THEN to ELSE from, id |-> d,
                  guests |-> {}]
    BY <1>0, <1>3, <1>4, <1>6, <1>8, <2>1, OwnHouse
  <2>3. CASE Rename(r)  BY <1>7, <2>2, <2>3
  <2>4. CASE ~Rename(r)  BY <1>7, <2>2, <2>4
  <2> QED  BY <2>3, <2>4
<1>10. /\ House(o, F) = F \cup {d} /\ House(o, F)' = F \cup {d}
       /\ HouseOf(c, F) = F \cup {d}
  BY <1>6, <1>8, <1>9 DEF House, HouseOf
<1>11. Family(pages, c, F, L) /\ Housing(o, F, L)  BY <1>6, <1>7 DEF Nested, Housings
<1>12. Batching(r, F, L)  BY <1>1, <1>2, <1>6, RunStands
<1>13. /\ x \in work[r].todo /\ i \in F /\ i # d /\ i \in Ids \ {Top}
       /\ F \subseteq Ids /\ d \in Ids \ {Top} /\ NoId \notin Ids /\ L \subseteq F /\ d \notin F
  <2>1. x \in work[r].todo  BY DEF Batch
  <2>2. i \in ToDo(r)  BY <1>3, <2>1 DEF ToDo
  <2>3. NoId \notin Ids  BY IsCollectionHasNoId DEF Typed, Ids
  <2> QED  BY <1>1, <1>9, <1>11, <1>12, <2>1, <2>2, <2>3 DEF Batching, On, Family, Ids
<1>14. /\ Ids' = Ids /\ \A j \in Ids \ {i} : pages'[j] = pages[j]
       /\ i \in LiveOf(pages') =>
             /\ i \in LivePages /\ Rename(r)
             /\ pages'[i].path = Moved(x[2], from, to)
             /\ pages'[i].parent = pages[i].parent
       /\ pages'[i].parent \in {pages[i].parent, NoId}
       /\ i \notin LiveOf(pages') /\ i \in LivePages => pages'[i].parent = NoId
  <2>1. Ids' = Ids /\ \A j \in Ids \ {i} : pages'[j] = pages[j]  BY <1>3, BatchWrites
  <2>2. CASE ~Found(i)
    <3>1. pages' = pages  BY <1>3, <2>2, BatchWrites
    <3>2. i \notin LivePages  BY <1>13, <2>2 DEF Found, LivePages, LiveOf
    <3> QED  BY <2>1, <3>1, <3>2 DEF LivePages, LiveOf
  <2>3. CASE Found(i) /\ Rename(r)
    <3>1. /\ pages'[i].kind = pages[i].kind /\ pages'[i].parent = pages[i].parent
          /\ pages'[i].path = Moved(x[2], from, to)
      BY <1>3, <2>3, BatchWrites
    <3> QED  BY <1>13, <2>1, <2>3, <3>1 DEF LivePages, LiveOf, Ids
  <2>4. CASE Found(i) /\ ~Rename(r)
    <3>1. i \notin LiveOf(pages') /\ pages'[i].parent = NoId
      BY <1>3, <2>4, BatchWrites
    <3> QED  BY <2>1, <3>1
  <2> QED  BY <2>2, <2>3, <2>4
<1>15. LiveOf(pages') \subseteq LivePages /\ LivePages \ {i} \subseteq LiveOf(pages')
  BY <1>14 DEF LiveOf, LivePages, Ids
<1>16. Coherent(pages, Housed(fam))  BY DEF Nested
<1>17. \A j \in Ids \ LivePages : pages[j].parent = NoId
  BY <1>16 DEF Coherent, LivePages, Ids
<1>18. Alters(pages, pages', {i}, {})
  BY <1>14, <1>15 DEF Alters, Stays, LivePages, Ids
<1>19. \A q \in Runs \ {o} : Broad(q) => Untouched(pages, pages', Claimed(q), fam[q])
  <2> SUFFICES ASSUME NEW q \in Runs \ {o}, Broad(q)
               PROVE  Untouched(pages, pages', Claimed(q), fam[q])
    OBVIOUS
  <2>1. \A k \in {i} \cap LivePages : k \notin House(q, fam[q])
    BY <1>6, <1>7, <1>10, <1>13, LiveInOneHouse DEF Nested
  <2>2. \A k \in {} : k \notin House(q, fam[q])  OBVIOUS
  <2> QED  BY <1>18, <2>1, <2>2, AllUntouched
<1>20. i \in Housed(fam)  BY <1>6, <1>7, <1>10, <1>13 DEF Housed
<1>21. Steady(pages, pages', Housed(fam))
  BY <1>14, <1>15, <1>20 DEF Steady, Rooted, LivePages, Ids
<1>22. from \in Paths /\ (Rename(r) => to \in Paths /\ IsPath(to) /\ to # <<>>)
  BY <1>1, <1>3 DEF Typed, RunTyped, IsDocument, IsPath, Paths, Rename
<1>23. Rename(r) => /\ ~IsPrefix(to, from) /\ (Deeper(o) <=> IsStrictPrefix(from, to))
                    /\ F \cup {d} \subseteq LivePages /\ Rooted(pages, d)
  <2>1. Rename(r) => /\ Claim(o).to = to /\ From(o) = from /\ Claim(o).id = d
                     /\ (Deeper(o) <=> IsStrictPrefix(from, to))
    BY <1>0, <1>3, <1>4, OwnHouse DEF UnderTarget
  <2>2. ~Off(o)  BY <1>0, <1>1, <1>4, OwnHouse DEF Off
  <2> QED  BY <1>7, <1>11, <2>1, <2>2 DEF Housing
(* The new path. *)
<1>24. ASSUME i \in LiveOf(pages')
       PROVE  /\ Named(pages', c, L \ {i}, i) = Named(pages, c, L, i)
              /\ IsStrictPrefix(to, pages'[i].path)
              /\ pages'[i].path \in Paths
  <2>1. Rename(r) /\ i \in LivePages /\ pages'[i].path = Moved(pages[i].path, from, to)
    <3>1. pages[i].path = x[2]  BY <1>1, <1>3, <1>12, <1>13, <1>14, <1>24 DEF Batching, On
    <3> QED  BY <1>14, <1>24, <3>1
  <2>2. pages[i].path \in Paths
    BY <1>13 DEF Typed, IsCollection, IsDocument, Ids, Paths
  <2>3. Named(pages', c, L \ {i}, i) = pages'[i].path  BY DEF Named
  <2>4. CASE i \in L
    <3>1. IsStrictPrefix(from, pages[i].path)
      BY <1>9, <1>11, <1>13, <2>1, <2>4 DEF Family, LivePages
    <3>2. Named(pages, c, L, i) = Moved(pages[i].path, from, to)
      BY <1>9, <2>1, <2>4 DEF Named
    <3>3. pages'[i].path \in Paths /\ IsStrictPrefix(to, pages'[i].path)
      BY <1>22, <2>1, <2>2, <3>1, MovedIsStrict
    <3> QED  BY <2>1, <2>3, <3>2, <3>3
  <2>5. CASE i \notin L
    <3>1. IsStrictPrefix(to, pages[i].path)
      BY <1>9, <1>11, <1>13, <2>1, <2>5 DEF Family, LivePages
    <3>2. Named(pages, c, L, i) = pages[i].path
      BY <2>5 DEF Named
    <3>3. ~IsStrictPrefix(from, to)
      <4>1. i \in ToDo(r)  BY <1>3, <1>13 DEF ToDo
      <4>2. Deeper(work[r].op) => L = ToDo(r)  BY <1>1, <1>12, <2>1 DEF Batching, On
      <4> QED  BY <1>2, <1>23, <2>1, <2>5, <4>1, <4>2
    <3>4. IsPrefix(to, pages[i].path)  BY <3>1 DEF IsStrictPrefix
    <3>5. Moved(pages[i].path, from, to) = pages[i].path
      BY <1>22, <1>23, <2>1, <2>2, <3>3, <3>4, MovedOnce
    <3> QED  BY <2>1, <2>2, <2>3, <3>1, <3>2, <3>5
  <2> QED  BY <2>4, <2>5
<1>25. \A j \in (F \cup {d}) \cap LiveOf(pages') :
          Named(pages', c, L \ {i}, j) = Named(pages, c, L, j)
  <2> SUFFICES ASSUME NEW j \in (F \cup {d}) \cap LiveOf(pages'), j # i
               PROVE  Named(pages', c, L \ {i}, j) = Named(pages, c, L, j)
    BY <1>24
  <2>1. pages'[j] = pages[j] /\ (j \in L \ {i} <=> j \in L)  BY <1>13, <1>14
  <2> QED  BY <2>1 DEF Named
<1>26. Family(pages', c, F, L \ {i})
  <2>1. \A j \in DOMAIN pages' : pages'[j].parent \in HouseOf(c, F) => j \in F
    <3>1. \A j \in Ids : pages[j].parent \in HouseOf(c, F) => j \in F
      BY <1>11 DEF Family, Ids
    <3>2. NoId \notin HouseOf(c, F)  BY <1>10, <1>13
    <3> QED  BY <1>13, <1>14, <3>1, <3>2 DEF Ids
  <2>2. ASSUME NEW j \in F \cap LiveOf(pages')
        PROVE  /\ pages'[j].parent \in F \cup {c.id}
               /\ IsStrictPrefix(IF j \in L \ {i} THEN c.from ELSE c.now, pages'[j].path)
               /\ pages'[j].parent \in LiveOf(pages') =>
                    Front(Named(pages', c, L \ {i}, j)) = Named(pages', c, L \ {i}, pages'[j].parent)
    <3>1. j \in F \cap LiveOf(pages) /\ c.id = d  BY <1>9, <1>15, <2>2 DEF LivePages
    <3>2. pages'[j].parent = pages[j].parent  BY <1>13, <1>14, <2>2
    <3>3. /\ pages[j].parent \in F \cup {d}
          /\ IsStrictPrefix(IF j \in L THEN c.from ELSE c.now, pages[j].path)
          /\ pages[j].parent \in LiveOf(pages) =>
                Front(Named(pages, c, L, j)) = Named(pages, c, L, pages[j].parent)
      BY <1>11, <3>1 DEF Family
    <3>4. IsStrictPrefix(IF j \in L \ {i} THEN c.from ELSE c.now, pages'[j].path)
      <4>1. CASE j = i  BY <1>9, <1>14, <1>24, <2>2, <4>1
      <4>2. CASE j # i  BY <1>13, <1>14, <3>3, <4>2
      <4> QED  BY <4>1, <4>2
    <3>5. ASSUME pages'[j].parent \in LiveOf(pages')
          PROVE  Front(Named(pages', c, L \ {i}, j)) = Named(pages', c, L \ {i}, pages'[j].parent)
      <4>1. pages[j].parent \in (F \cup {d}) \cap LiveOf(pages')  BY <3>2, <3>3, <3>5
      <4>2. Named(pages', c, L \ {i}, pages[j].parent) = Named(pages, c, L, pages[j].parent)
        BY <1>25, <4>1
      <4>3. Named(pages', c, L \ {i}, j) = Named(pages, c, L, j)  BY <1>25, <2>2
      <4>4. pages[j].parent \in LiveOf(pages)  BY <1>15, <4>1 DEF LivePages
      <4> QED  BY <3>2, <3>3, <4>2, <4>3, <4>4
    <3> QED  BY <3>1, <3>2, <3>3, <3>4, <3>5
  <2>3. c.id \in LiveOf(pages') => pages'[c.id].path = c.now
    <3>1. c.id \in LiveOf(pages) => pages[c.id].path = c.now  BY <1>11 DEF Family
    <3> QED  BY <1>9, <1>13, <1>14, <1>15, <3>1 DEF LivePages
  <2>4. /\ c.id \in DOMAIN pages' \ {Top} /\ F \subseteq DOMAIN pages' \ {Top, c.id}
        /\ L \ {i} \subseteq F /\ c.guests = {}
    BY <1>9, <1>11, <1>13, <1>14 DEF Family, Ids
  <2> HIDE DEF Named
  <2> QED  BY <2>1, <2>2, <2>3, <2>4 DEF Family
<1>27. Housing(o, F, L \ {i})'
  <2>1. Rename(r) => Claim(o)'.to = to /\ From(o)' = from /\ Claim(o)'.id = d
    BY <1>0, <1>3, <1>4, OwnHouse
  <2>2. ~Is(o, {"bump", "redirect", "stage", "stream"})' /\ ~Is(o, {"stream"})'
    BY <1>0, <1>4, <1>5, OwnHouse
  <2>3. Rename(r) => F \cup {d} \subseteq LivePages' /\ Rooted(pages', d)
    <3>1. ASSUME Rename(r)  PROVE F \subseteq LivePages' /\ d \in LivePages' /\ Rooted(pages', d)
      <4>1. i \in LiveOf(pages')
        <5>1. Found(i)  BY <1>13, <1>23, <3>1 DEF Found, LivePages, LiveOf
        <5>2. pages'[i].kind = pages[i].kind  BY <1>3, <3>1, <5>1, BatchWrites
        <5> QED  BY <1>13, <1>14, <1>23, <3>1, <5>2 DEF LivePages, LiveOf, Ids
      <4> QED  BY <1>13, <1>14, <1>15, <1>23, <3>1, <4>1 DEF LivePages, Rooted
    <3> QED  BY <3>1
  <2>4. ~Rename(r) => L \ {i} = {}  BY <1>7, <1>11 DEF Housing
  <2> QED  BY <1>7, <1>23, <2>1, <2>2, <2>3, <2>4 DEF Housing
<1>28. PICK left2 : left2 = [q \in Runs |-> IF q = o THEN L \ {i} ELSE left[q]]  OBVIOUS
<1>29. left2[o] = L \ {i} /\ \A q \in Runs \ {o} : left2[q] = left[q]  BY <1>28
<1>30. Fits(o, fam, left2)  BY <1>6, <1>8, <1>9, <1>26, <1>27, <1>29 DEF Fits
<1>31. Housed(fam)' = Housed(fam)
  <2>1. \A q \in Runs \ {o} : Still(q)  BY <1>0, <1>2, GoingIsStill DEF Typed
  <2> QED  BY <1>6, <1>7, <1>10, <2>1, QuietHoused
<1>32. Coherent(pages', Housed(fam)')
  <2>1. \A j \in DOMAIN pages' \ LiveOf(pages') : pages'[j].parent = NoId
    <3>1. ASSUME i \notin LiveOf(pages')  PROVE pages'[i].parent = NoId
      BY <1>13, <1>14, <1>17, <3>1
    <3> QED  BY <1>14, <1>15, <1>17, <3>1 DEF LivePages, Ids
  <2>2. ASSUME NEW j \in LiveOf(pages')
        PROVE  IsPath(pages'[j].path) /\ (j # Top => pages'[j].path # <<>>)
    <3>1. CASE j = i
      <4>1. Rename(r)  BY <1>14, <2>2, <3>1
      <4>2. IsPrefix(to, pages'[i].path) /\ pages'[i].path \in Paths
        BY <1>24, <2>2, <3>1 DEF IsStrictPrefix
      <4> QED  BY <1>22, <3>1, <4>1, <4>2, BelowIsPath
    <3>2. CASE j # i
      BY <1>14, <1>15, <1>16, <2>2, <3>2 DEF Coherent, LivePages, LiveOf, Ids
    <3> QED  BY <3>1, <3>2
  <2>3. ASSUME NEW j \in LiveOf(pages') \ {Top}
        PROVE  \/ pages'[j].parent \in Housed(fam) \cup {NoId}
               \/ Hangs(pages', j)
               \/ /\ j \in LiveOf(pages) /\ pages'[j].path = pages[j].path
                  /\ pages'[j].parent = pages[j].parent
                  /\ pages[j].parent \notin Housed(fam) \cup {NoId}
                  /\ pages[j].parent \in LiveOf(pages')
    <3>1. CASE j = i
      <4>1. pages'[i].parent \in F \cup {d}  BY <1>9, <1>13, <1>26, <2>3, <3>1 DEF Family
      <4>2. F \cup {d} \subseteq Housed(fam)  BY <1>6, <1>7, <1>10 DEF Housed
      <4> QED  BY <3>1, <4>1, <4>2
    <3>2. CASE j # i
      <4>1. pages'[j] = pages[j] /\ j \in LivePages  BY <1>14, <1>15, <2>3, <3>2 DEF LivePages, LiveOf, Ids
      <4>2. CASE pages[j].parent \in Housed(fam) \cup {NoId}  BY <4>1, <4>2
      <4>3. CASE pages[j].parent \notin Housed(fam) \cup {NoId}
        <5>1. pages[j].parent \in LiveOf(pages)  BY <1>16, <2>3, <4>1, <4>3 DEF Coherent, LivePages
        <5>2. pages[j].parent # i  BY <1>20, <4>3
        <5> QED  BY <1>15, <4>1, <4>3, <5>1, <5>2 DEF LivePages
      <4> QED  BY <4>2, <4>3
    <3> QED  BY <3>1, <3>2
  <2>4. DOMAIN pages \subseteq DOMAIN pages'  BY <1>14 DEF Ids
  <2> QED  BY <1>16, <1>21, <1>31, <2>1, <2>2, <2>3, <2>4, CoherentStays
<1>33. \A s \in Runs \ {r} : Open(s) => Spared(s, fam)
  <2>1. Recorded' \subseteq Recorded /\ \A s \in Runs \ {r} : work'[s] = work[s]
    BY <1>0 DEF GoesOn, OpsStay, Others
  <2>2. \A j \in LivePages \ Housed(fam) : pages'[j].kind = pages[j].kind
    BY <1>14, <1>20 DEF LivePages, LiveOf, Ids
  <2> HIDE DEF Spared, Alters
  <2> QED  BY <1>18, <2>1, <2>2, AltersSpares
<1>34. Stands(r, fam, left2)'
  <2>1. Creating(r, fam) /\ Treading(r)  BY <1>1, RunStands
  <2>2. NoId \notin Ids'  BY <1>13, <1>14
  <2>3. ~Early(work[r].kind, work[r].at)  BY <1>1 DEF Early
  <2>4. Batching(r, fam[o], left2[o])'
    <3>1. /\ \A y, z \in work[r].todo : y[1] = z[1] => y = z
          /\ ToDo(r) \subseteq F
          /\ Rename(r) => /\ \A y \in work[r].todo : pages[y[1]].path = y[2]
                          /\ L \subseteq ToDo(r)
                          /\ Deeper(o) => L = ToDo(r)
          /\ ~Rename(r) => F \cap LivePages \subseteq ToDo(r)
      BY <1>1, <1>2, <1>12 DEF Batching, On
    <3>2. ToDo(r)' = ToDo(r) \ {i}
      <4>1. ToDo(r)' = {y[1] : y \in work[r].todo \ {x}}  BY <1>5 DEF ToDo
      <4> QED  BY <1>3, <1>13, <3>1, <4>1, SMTT(60) DEF ToDo
    <3>3. \A y \in work'[r].todo : y \in work[r].todo /\ y[1] # i
      BY <1>3, <1>5, <1>13, <3>1
    <3>4. \A y \in work'[r].todo : y[1] \in F
      BY <3>1, <3>3 DEF ToDo
    <3>5. (Rename(r)' <=> Rename(r)) /\ (Deeper(o)' <=> Deeper(o)) /\ work'[r].op = o
      BY <1>0, <1>4, <1>5, OwnHouse DEF Rename
    <3>6. /\ Rename(r) => \A y \in work'[r].todo : pages'[y[1]].path = y[2]
          /\ Rename(r) => L \ {i} \subseteq ToDo(r)'
          /\ Rename(r) /\ Deeper(o) => L \ {i} = ToDo(r)'
      BY <1>13, <1>14, <3>1, <3>2, <3>3, <3>4
    <3>7. ~Rename(r) => F \cap LivePages' \subseteq ToDo(r)'
      <4>1. ~Rename(r) => i \notin LivePages'  BY <1>14 DEF LivePages
      <4> QED  BY <1>15, <3>1, <3>2, <4>1 DEF LivePages
    <3>8. \A y, z \in work'[r].todo : y[1] = z[1] => y = z  BY <3>1, <3>3
    <3>9. ToDo(r)' \subseteq F  BY <3>1, <3>2
    <3> QED  BY <1>6, <1>29, <3>5, <3>6, <3>7, <3>8, <3>9 DEF Batching
  <2>5. \A k \in Ids \cup {NoId} : k \in Housed(fam)' => k \in Housed(fam)  BY <1>31
  <2> QED
    BY <1>0, <1>1, <1>2, <1>5, <1>21, <2>1, <2>2, <2>3, <2>4, <2>5, GoneStands DEF AfterBatches
<1>35. House(o, fam[o])' \cap Ids \subseteq Housed(fam)
  BY <1>6, <1>7, <1>10 DEF Housed
<1>36. ~Late(work'[r].kind, work'[r].at) /\ ~On(r, "adopt")' /\ Ids \subseteq Ids'
  BY <1>5, <1>14 DEF Late, On
<1>37. Nested(fam, left2)'
  BY <1>0, <1>2, <1>19, <1>21, <1>29, <1>30, <1>32, <1>33, <1>34, <1>35, <1>36, GoingNests
<1> QED  BY <1>37

(* Above a page that nobody moves or removes there are pages at all paths. *)
LEMMA PrefixesLive ==
    ASSUME Typed, NEW fam, NEW left, Nested(fam, left), NEW p \in LivePages,
           p \notin Housed(fam), Rooted(pages, p), NEW q \in Paths, IsPrefix(q, pages[p].path)
    PROVE  At(q) # {}
<1> DEFINE T == {j \in LivePages : j \notin Housed(fam) /\ Rooted(pages, j)
                                      /\ IsPrefix(q, pages[j].path)}
           N == {Len(pages[j].path) : j \in T}
<1>1. \A j \in LivePages : pages[j].path \in Paths /\ j \in Ids
  BY DEF Typed, IsCollection, IsDocument, LivePages, LiveOf, Paths, Ids
<1>2. N \in SUBSET Nat /\ N # {}
  <2>1. \A j \in T : Len(pages[j].path) \in Nat  BY <1>1 DEF Paths
  <2>2. p \in T  OBVIOUS
  <2> QED  BY <2>1, <2>2
<1>3. PICK j \in T : \A k \in T : Len(pages[j].path) <= Len(pages[k].path)
  <2>1. PICK n \in N : \A l \in N : n <= l  BY <1>2, Smallest
  <2> QED  BY <2>1
<1>4. CASE pages[j].path = q
  <2>1. j \in At(q)  BY <1>1, <1>4 DEF At, LivePages, LiveOf
  <2> QED  BY <2>1
<1>5. CASE pages[j].path # q
  <2>1. IsStrictPrefix(q, pages[j].path)  BY <1>5 DEF IsStrictPrefix
  <2>2. j # Top /\ pages[j].path # <<>>
    <3>1. pages[j].path # <<>>  BY <1>1, <2>1, EmptyPath DEF IsStrictPrefix
    <3> QED  BY <3>1 DEF Typed, IsCollection
  <2>3. PICK k : k = pages[j].parent  OBVIOUS
  <2>4. k # NoId  BY <2>2, <2>3 DEF Rooted
  <2>5. /\ k \in LivePages /\ Rooted(pages, k) /\ k \notin Housed(fam)
        /\ Front(pages[j].path) = pages[k].path
    BY <2>2, <2>3, <2>4, PagesAreBelow
  <2>6. IsPrefix(q, pages[k].path)  BY <1>1, <2>1, <2>2, <2>5, PrefixOfFront
  <2>7. Len(pages[k].path) = Len(pages[j].path) - 1  BY <1>1, <2>2, <2>5, FrontIsPath
  <2>8. k \in T  BY <2>5, <2>6
  <2>9. Len(pages[j].path) <= Len(pages[k].path) /\ Len(pages[j].path) \in Nat
    BY <1>1, <1>3, <2>8 DEF Paths
  <2> QED  BY <2>7, <2>9
<1> QED  BY <1>4, <1>5

(* A run that passes its check has read what still holds. *)
LEMMA CheckedTarget ==
    ASSUME Typed, Ordered, NEW fam, NEW left, Nested(fam, left), NEW r \in Runs, Claims(r)
    PROVE  /\ Anchored(pages, Housed(fam), work[r].copy.parent, Front(work[r].copy.path))
           /\ Anchored(pages, Housed(fam), work[r].id, work[r].copy.path)
           /\ work[r].recursively => Free(work[r].copy.path) /\ work[r].id \in LivePages
           /\ work[r].copy.path \in Paths /\ work[r].copy.path # <<>>
<1>1. IsRun(work[r]) /\ Open(r) /\ On(r, "check") /\ work[r].seen = Recorded
  BY DEF Claims, Open, On
<1>2. CanOperate(work[r].recursively, work[r].copy.path, work[r].to)  BY DEF Claims
<1>3. /\ IsPath(work[r].copy.path) /\ work[r].copy.path # <<>>
  BY <1>1 DEF Ordered, RunsFit, RunFits, CopyFits, Claims
<1>4. work[r].copy.path # NoPath  BY <1>3, PathsAreFree
<1>5. \A o \in Runs : Broad(o) => o \in Recorded /\ Claiming(o)
  <2> SUFFICES ASSUME NEW o \in Runs, Broad(o), o \notin Recorded  PROVE FALSE
    BY DEF Broad
  <2>1. Open(o) /\ Passed(o)  BY OpenIsAlone DEF Typed, Broad
  <2>2. o = r  BY <1>1, <2>1 DEF Ordered, OneOpen
  <2> QED  BY <1>1, <2>1, <2>2 DEF Passed
<1>6. Clear(work[r].copy.path)
  BY <1>2, <1>4, <1>5, ClaimIsFree DEF Clear
<1>7. work[r].recursively => Free(work[r].copy.path)
  <2> SUFFICES ASSUME work[r].recursively, NEW o \in Runs, Broad(o), NEW p \in PathsOf(o)
               PROVE  ~EitherOverlap(p, work[r].copy.path)
    BY DEF Free
  <2>1. ~InArea(o, work[r].copy.path) /\ ~IsPrefix(work[r].copy.path, p)
    BY <1>2, <1>4, <1>5, ClaimIsFree
  <2> QED  BY <2>1 DEF InArea, EitherOverlap, AreaOverlap
<1>8. Checking(r, fam)  BY <1>1, RunStands
<1>9. /\ Anchored(pages, Housed(fam), work[r].copy.parent, Front(work[r].copy.path))
      /\ Anchored(pages, Housed(fam), work[r].id, work[r].copy.path)
      /\ Free(work[r].copy.path) /\ work[r].recursively => work[r].id \in LivePages
  BY <1>1, <1>6, <1>8 DEF Checking
<1> QED  BY <1>3, <1>7, <1>9 DEF IsPath, Paths

(* The house of a run that claims all that is below a page. *)
LEMMA FreshFamily ==
    ASSUME Typed, Ordered, NEW fam, NEW left, Nested(fam, left), NEW d \in LivePages \ {Top},
           NEW from \in Paths, from # <<>>, Anchored(pages, Housed(fam), d, from), Free(from)
    PROVE  /\ Family(pages, [from |-> from, now |-> from, id |-> d, guests |-> {}],
                     Descendants(d), {})
           /\ Descendants(d) \subseteq LivePages
           /\ \A i \in Descendants(d) \cup {d} :
                 i \notin Housed(fam) /\ IsPrefix(from, pages[i].path)
<1> DEFINE S == {j \in LivePages : j \notin Housed(fam) /\ IsStrictPrefix(from, pages[j].path)}
<1>1. \A j \in LivePages : pages[j].path \in Paths /\ j \in Ids
  BY DEF Typed, IsCollection, IsDocument, LivePages, LiveOf, Paths, Ids
<1>2. d \in Ids /\ NoId \notin Ids /\ pages[d].path = from /\ d \notin Housed(fam)
  BY <1>1, IsCollectionHasNoId DEF Typed, Ids, Anchored, Pinned, LivePages
<1>3. \A i \in S \cup {d} : i \in LivePages /\ i \notin Housed(fam) /\ IsPrefix(from, pages[i].path)
  BY <1>2, PrefixReflexive DEF IsStrictPrefix
<1>4. Coherent(pages, Housed(fam))  BY DEF Nested
<1>5. ASSUME NEW j \in Ids, pages[j].parent \in S \cup {d}
      PROVE  j \in S /\ Front(pages[j].path) = pages[pages[j].parent].path
  <2>1. pages[j].parent # NoId  BY <1>1, <1>2, <1>5
  <2>2. j \in LivePages  BY <1>4, <2>1 DEF Coherent, LivePages, Ids
  <2>3. j # Top  BY <2>1 DEF Typed, IsCollection
  <2>4. PICK k : k = pages[j].parent  OBVIOUS
  <2>5. k \in LivePages /\ k \notin Housed(fam) /\ IsPrefix(from, pages[k].path)
    BY <1>3, <1>5, <2>4
  <2>6. Front(pages[j].path) = pages[k].path /\ pages[j].path # <<>>
    BY <1>4, <2>1, <2>2, <2>3, <2>4, <2>5 DEF Coherent, LivePages
  <2>7. IsStrictPrefix(from, pages[j].path)
    BY <1>1, <2>2, <2>5, <2>6, PrefixOfFront
  <2>8. j \notin Housed(fam)
    <3> SUFFICES ASSUME j \in Housed(fam)  PROVE FALSE
      OBVIOUS
    <3>1. PICK q \in Runs : Broad(q) /\ j \in House(q, fam[q])  BY DEF Housed
    <3>2. PICK c, F, L : c = Claimed(q) /\ F = fam[q] /\ L = left[q]  OBVIOUS
    <3>3. Family(pages, c, F, L)  BY <3>1, <3>2 DEF Nested, Housings
    <3>4. HouseOf(c, F) \subseteq Housed(fam)  BY <3>1, <3>2 DEF Housed, House
    <3>5. j \notin F
      <4>1. j \in F => pages[j].parent \in F \cup {c.id}
        BY <2>2, <3>3 DEF Family, LivePages
      <4> QED  BY <2>4, <2>5, <3>4, <4>1 DEF HouseOf
    <3>6. j \notin c.guests  BY <2>1, <3>3 DEF Family
    <3>7. j = c.id  BY <3>1, <3>2, <3>5, <3>6 DEF House, HouseOf
    <3>8. pages[j].path = c.now  BY <2>2, <3>3, <3>7 DEF Family, LivePages
    <3>9. c.now \in PathsOf(q)
      <4>1. From(q) \in PathsOf(q) /\ (Renames(q) => Claim(q).to \in PathsOf(q))
        BY <3>1, ClaimFits DEF Broad
      <4> QED  BY <3>2, <4>1 DEF Claimed, Moving
    <3>10. ~IsPrefix(from, c.now)
      BY <3>1, <3>9 DEF Free, EitherOverlap, AreaOverlap
    <3> QED  BY <2>7, <3>8, <3>10 DEF IsStrictPrefix
  <2> QED  BY <2>2, <2>4, <2>6, <2>7, <2>8
<1> HIDE DEF S
<1>6. d \notin S
  BY <1>2 DEF S, IsStrictPrefix
<1>7. Descendants(d) \subseteq S
  BY <1>2, <1>5, DescendantsIn DEF Typed
<1>8. Descendants(d) \subseteq LivePages /\ \A i \in Descendants(d) : IsStrictPrefix(from, pages[i].path)
  BY <1>7 DEF S
<1>9. \A i \in Descendants(d) \cup {d} : i \notin Housed(fam) /\ IsPrefix(from, pages[i].path)
  BY <1>3, <1>7
<1>10. PICK c, F : c = [from |-> from, now |-> from, id |-> d, guests |-> {}] /\ F = Descendants(d)
  OBVIOUS
<1>11. \A j \in Ids : pages[j].parent \in F \cup {d} => j \in F
  <2> SUFFICES ASSUME NEW j \in Ids, pages[j].parent \in F \cup {d}  PROVE j \in F
    OBVIOUS
  <2>1. j # d  BY <1>5, <1>6, <1>7, <1>10
  <2> QED  BY <1>2, <1>10, <2>1, ChildrenDescend DEF Typed
<1>12. \A j \in F : /\ pages[j].parent \in F \cup {d}
                    /\ IsStrictPrefix(from, pages[j].path)
                    /\ Front(pages[j].path) = pages[pages[j].parent].path
  <2> SUFFICES ASSUME NEW j \in F
               PROVE  /\ pages[j].parent \in F \cup {d}
                      /\ IsStrictPrefix(from, pages[j].path)
                      /\ Front(pages[j].path) = pages[pages[j].parent].path
    OBVIOUS
  <2>1. pages[j].parent \in F \cup {d}
    BY <1>2, <1>10, DescendantsHang DEF Typed
  <2>2. j \in Ids  BY <1>1, <1>8, <1>10
  <2> QED  BY <1>5, <1>7, <1>8, <1>10, <2>1, <2>2
<1>13. Top \notin F
  <2>1. pages[Top].parent = NoId  BY DEF Typed, IsCollection
  <2> QED  BY <1>1, <1>2, <1>8, <1>10, <1>12, <2>1
<1>14. Family(pages, c, F, {})
  <2>1. c.from = from /\ c.now = from /\ c.id = d /\ c.guests = {} /\ HouseOf(c, F) = F \cup {d}
    BY <1>10 DEF HouseOf
  <2>2. F \subseteq DOMAIN pages \ {Top, d} /\ d \in DOMAIN pages \ {Top}
    BY <1>1, <1>2, <1>6, <1>7, <1>8, <1>10, <1>13 DEF Ids
  <2>3. \A j \in F \cap LiveOf(pages) :
            /\ pages[j].parent \in F \cup {c.id}
            /\ IsStrictPrefix(IF j \in {} THEN c.from ELSE c.now, pages[j].path)
            /\ pages[j].parent \in LiveOf(pages) =>
                  Front(Named(pages, c, {}, j)) = Named(pages, c, {}, pages[j].parent)
    BY <1>12, <2>1 DEF Named
  <2>4. \A j \in DOMAIN pages : pages[j].parent \in HouseOf(c, F) => j \in F
    BY <1>11, <2>1 DEF Ids
  <2> HIDE DEF Named
  <2> QED  BY <1>2, <2>1, <2>2, <2>3, <2>4 DEF Family
<1> QED  BY <1>8, <1>9, <1>10, <1>14

(* What a run claims that passes its check. *)
LEMMA ClaimingHouse ==
    ASSUME Typed, Ordered, NEW fam, NEW left, Nested(fam, left), NEW r \in Runs, Claims(r),
           pages' = pages, work[r].kind = "rename" => At(work[r].to) = {},
           NEW F, F = Descendants(work[r].id)
    PROVE  /\ ~Claiming(r) /\ ~Broad(r) /\ (Broad(r)' <=> work[r].recursively)
           /\ From(r)' = work[r].copy.path /\ Claim(r)'.copy = work[r].copy
           /\ House(r, F)' = F \cup {work[r].id}
           /\ Broad(r)' => Family(pages', Claimed(r)', F, {}) /\ Housing(r, F, {})'
           /\ Broad(r)' => \A i \in F \cup {work[r].id} :
                 i \in LivePages /\ i \notin Housed(fam) /\ IsPrefix(work[r].copy.path, pages[i].path)
<1>1. /\ Claim(r)' = work'[r] /\ SameClaim(work[r], work'[r])
      /\ Broad(r)' <=> work[r].recursively
      /\ Recorded' = Recorded /\ r \notin Recorded
      /\ \A s, o \in Runs : Holds(s, o)' <=> Holds(s, o)
  BY ClaimingSettles DEF Typed
<1>2. ~Claiming(r) /\ ~Broad(r)  BY <1>1 DEF Claiming, Passed, On, Claims, Broad
<1>3. \A s \in Runs : ~Holds(s, r)' /\ ~Holds(s, r)
  BY <1>1, HolderClaims
<1>4. (\A ats : ~Is(r, ats)') /\ Guests(r)' = {} /\ ~Off(r)'
  BY <1>3, NoHoldersLeft
<1>5. ~Moving(r)'  BY <1>1 DEF Moving
<1>6. From(r)' = work[r].copy.path /\ Claim(r)'.copy = work[r].copy /\ Claim(r)'.id = work[r].id
      /\ Claim(r)'.to = work[r].to
  BY <1>1 DEF From, SameClaim
<1>7. Claimed(r)' = [from |-> work[r].copy.path, now |-> work[r].copy.path, id |-> work[r].id,
                     guests |-> {}]
  BY <1>4, <1>5, <1>6 DEF Claimed
<1>8. House(r, F)' = F \cup {work[r].id}  BY <1>7 DEF House, HouseOf
<1>9. ASSUME Broad(r)'
      PROVE  /\ Family(pages', Claimed(r)', F, {}) /\ Housing(r, F, {})'
             /\ \A i \in F \cup {work[r].id} :
                 i \in LivePages /\ i \notin Housed(fam) /\ IsPrefix(work[r].copy.path, pages[i].path)
  <2>1. PICK d, from : d = work[r].id /\ from = work[r].copy.path  OBVIOUS
  <2>2. /\ Anchored(pages, Housed(fam), d, from) /\ Free(from) /\ d \in LivePages
        /\ from \in Paths /\ from # <<>>
    BY <1>1, <1>9, <2>1, CheckedTarget
  <2>3. d # Top
    <3>1. IsRun(work[r])  BY DEF Claims, Open
    <3> QED  BY <2>1, <3>1 DEF Typed, RunTyped, Top, NoId, Claims
  <2>4. /\ Family(pages, [from |-> from, now |-> from, id |-> d, guests |-> {}], F, {})
        /\ F \subseteq LivePages
        /\ \A i \in F \cup {d} : i \notin Housed(fam) /\ IsPrefix(from, pages[i].path)
    BY <2>1, <2>2, <2>3, FreshFamily
  <2>5. Rooted(pages, d) /\ d \notin Housed(fam) /\ pages[d].path = from
    BY <2>2 DEF Anchored, Pinned, LivePages
  <2>6. LivePages' = LivePages /\ Ids' = Ids  BY DEF LivePages, Ids
  <2>7. Renames(r)' => ~IsPrefix(work[r].to, from)
    <3> SUFFICES ASSUME Renames(r)', IsPrefix(work[r].to, from)
                 PROVE  FALSE
      OBVIOUS
    <3>1. work[r].kind = "rename"  BY <1>1 DEF Renames, SameClaim
    <3>2. IsRun(work[r])  BY DEF Claims, Open
    <3>3. work[r].to \in Paths  BY <3>1, <3>2 DEF Typed, RunTyped, IsPath, Paths
    <3>4. At(work[r].to) # {}  BY <2>2, <2>5, <3>3, PrefixesLive
    <3> QED  BY <3>1, <3>4
  <2>8. (Renames(r) =>
          /\ ~IsPrefix(Claim(r).to, From(r))
          /\ F \cup {Claim(r).id} \subseteq LivePages
          /\ ~Off(r) => Rooted(pages, Claim(r).id))'
    BY <1>6, <2>1, <2>2, <2>4, <2>5, <2>6, <2>7
  <2>9. (Renames(r) /\ Deeper(r) /\ Is(r, {"bump", "redirect", "stage", "stream"}) => {} = F)'
    BY <1>4
  <2>10. (~Renames(r) /\ (r \notin Recorded \/ Is(r, {"stream"})) => F \subseteq LivePages)'
    BY <2>4, <2>6
  <2>11. (r \notin Recorded /\ work[r].kind = "erase" /\ work[r].at \in {"shrink", "shrunk"} =>
            Claim(r).id \in LivePages /\ Rooted(pages, Claim(r).id))'
    BY <1>6, <2>1, <2>2, <2>5, <2>6
  <2>12. Housing(r, F, {})'  BY <2>8, <2>9, <2>10, <2>11 DEF Housing
  <2>13. Family(pages', Claimed(r)', F, {})  BY <1>7, <2>1, <2>4
  <2> QED  BY <2>1, <2>2, <2>4, <2>5, <2>12, <2>13
<1> QED  BY <1>1, <1>2, <1>6, <1>8, <1>9

(* A page of a free path's house is not above or at a path that is claimed. *)
LEMMA FreeIsApart ==
    ASSUME NEW from \in Paths, Free(from), NEW o \in Runs, Broad(o),
           NEW to \in Paths, to # <<>>, to \in PathsOf(o)
    PROVE  ~IsPrefix(from, Front(to))
  BY PrefixOfFront DEF Free, EitherOverlap, AreaOverlap, IsStrictPrefix

LEMMA ClaimingNests ==
    ASSUME Typed, Typed', Ordered, Ordered', NEW fam, NEW left, Nested(fam, left),
           NEW r \in Runs, Claims(r), pages' = pages,
           work[r].kind = "rename" => work'[r].at = "record" /\ At(work[r].to) = {},
           work'[r].at \in {"record", "replace", "trash", "shrink"}
    PROVE  \E fam2, left2 : Nested(fam2, left2)'
<1> PICK F : F = Descendants(work[r].id)  OBVIOUS
<1> PICK d, from : d = work[r].id /\ from = work[r].copy.path  OBVIOUS
<1> PICK fam2 : fam2 = [q \in Runs |-> IF q = r THEN F ELSE fam[q]]  OBVIOUS
<1> PICK left2 : left2 = [q \in Runs |-> IF q = r THEN {} ELSE left[q]]  OBVIOUS
<1>1. /\ ~Claiming(r) /\ ~Broad(r) /\ (Broad(r)' <=> work[r].recursively)
      /\ From(r)' = from /\ Claim(r)'.copy = work[r].copy
      /\ House(r, F)' = F \cup {d}
      /\ Broad(r)' => Family(pages', Claimed(r)', F, {}) /\ Housing(r, F, {})'
      /\ Broad(r)' => \A i \in F \cup {d} :
            i \in LivePages /\ i \notin Housed(fam) /\ IsPrefix(from, pages[i].path)
  BY ClaimingHouse
<1>2. /\ Anchored(pages, Housed(fam), work[r].copy.parent, Front(from))
      /\ work[r].recursively => Free(from)
      /\ from \in Paths /\ from # <<>>
  BY CheckedTarget
<1>3. /\ \A o \in Runs \ {r} :
            /\ Claiming(o)' => Claiming(o) /\ o \in Recorded /\ Claim(o)' = Claim(o)
            /\ Broad(o)' => Broad(o)
      /\ Recorded' = Recorded /\ r \notin Recorded
      /\ \A s \in Runs : (Open(s)' => s = r) /\ (Open(s) => s = r)
      /\ \A s, o \in Runs : Holds(s, o)' <=> Holds(s, o)
  BY ClaimingSettles DEF Typed
<1>4. \A q \in Runs \ {r} : Still(q) /\ fam2[q] = fam[q] /\ left2[q] = left[q]
  BY ClaimingIsStill DEF Typed
<1>5. SamePlaces(pages, pages') /\ Ids' = Ids /\ LivePages' = LivePages
  BY KeptPlaces DEF Ids, LivePages
<1>6. \A i : i \in Housed(fam2)' <=> i \in Housed(fam) \/ (Broad(r)' /\ i \in F \cup {d})
  <2>1. \A q \in Runs \ {r} : (Broad(q)' <=> Broad(q)) /\ (Broad(q) => House(q, fam2[q])' = House(q, fam[q]))
    BY <1>4, StillSame DEF Still, Broad
  <2>2. House(r, fam2[r])' = F \cup {d}  BY <1>1
  <2> SUFFICES ASSUME NEW i
               PROVE  (\E q \in Runs : Broad(q)' /\ i \in House(q, fam2[q])') <=>
                      \/ \E q \in Runs : Broad(q) /\ i \in House(q, fam[q])
                      \/ Broad(r)' /\ i \in F \cup {d}
    BY DEF Housed
  <2>3. ASSUME NEW q \in Runs, Broad(q)', i \in House(q, fam2[q])'
        PROVE  \/ \E p \in Runs : Broad(p) /\ i \in House(p, fam[p])
               \/ Broad(r)' /\ i \in F \cup {d}
    <3>1. CASE q = r  BY <2>2, <2>3, <3>1
    <3>2. CASE q # r  BY <2>1, <2>3, <3>2
    <3> QED  BY <3>1, <3>2
  <2>4. ASSUME NEW q \in Runs, Broad(q), i \in House(q, fam[q])
        PROVE  Broad(q)' /\ i \in House(q, fam2[q])'
    BY <1>1, <2>1, <2>4
  <2>5. Broad(r)' /\ i \in F \cup {d} => i \in House(r, fam2[r])'
    BY <2>2
  <2> QED  BY <2>3, <2>4, <2>5
<1>7. Coherent(pages', Housed(fam2)')
  BY <1>6 DEF Nested, Coherent
<1>8. Housings(fam2, left2)'
  <2> SUFFICES ASSUME NEW q \in Runs, Broad(q)'
               PROVE  (Family(pages, Claimed(q), fam2[q], left2[q]) /\ Housing(q, fam2[q], left2[q]))'
    BY DEF Housings
  <2>1. CASE q = r  BY <1>1, <2>1
  <2>2. CASE q # r
    <3>1. Still(q) /\ Broad(q) /\ fam2[q] = fam[q] /\ left2[q] = left[q]
      BY <1>4, <2>2 DEF Still
    <3>2. Family(pages, Claimed(q), fam[q], left[q]) /\ Housing(q, fam[q], left[q])
      BY <3>1 DEF Nested, Housings
    <3>3. Untouched(pages, pages', Claimed(q), fam[q])  BY <1>5, <3>2, SameIsQuiet
    <3> QED  BY <1>5, <3>1, <3>2, <3>3, HousingStays
  <2> QED  BY <2>1, <2>2
<1>9. ASSUME NEW i, NEW path \in Paths, Anchored(pages, Housed(fam), i, path),
             Broad(r)' => ~IsPrefix(from, path)
      PROVE  Anchored(pages', Housed(fam2)', i, path)
  <2>1. i \notin Housed(fam2)'
    <3> SUFFICES ASSUME Broad(r)', i \in F \cup {d}  PROVE FALSE
      BY <1>6, <1>9 DEF Anchored, Pinned
    <3>1. i \in LivePages /\ IsPrefix(from, pages[i].path)  BY <1>1
    <3>2. pages[i].path = path  BY <1>9, <3>1 DEF Anchored, Pinned, LivePages
    <3> QED  BY <1>9, <3>1, <3>2
  <2> QED  BY <1>9, <2>1 DEF Anchored, Pinned
<1>10. Formers(fam2)'
  <2> SUFFICES ASSUME NEW o \in Runs, Claiming(o)'
               PROVE  Anchored(pages', Housed(fam2)', Claim(o)'.copy.parent, Front(From(o)'))
    BY DEF Formers
  <2>1. CASE o = r
    <3>1. Front(from) \in Paths /\ ~IsPrefix(from, Front(from))
      BY <1>2, FrontIsPath, PrefixOfFront DEF IsStrictPrefix
    <3> QED  BY <1>1, <1>2, <1>9, <2>1, <3>1
  <2>2. CASE o # r
    <3>1. Claiming(o) /\ o \in Recorded /\ Claim(o)' = Claim(o)  BY <1>3, <2>2
    <3>2. Broad(o) /\ From(o)' = From(o)  BY <3>1 DEF Broad, From
    <3>3. From(o) \in PathsOf(o) /\ From(o) # <<>> /\ From(o) \in Paths
      BY <3>1, ClaimFits
    <3>4. Broad(r)' => ~IsPrefix(from, Front(From(o)))
      BY <1>1, <1>2, <3>2, <3>3, FreeIsApart
    <3>5. Anchored(pages, Housed(fam), Claim(o).copy.parent, Front(From(o)))
      BY <3>1 DEF Nested, Formers
    <3>6. Front(From(o)) \in Paths  BY <3>3, FrontIsPath
    <3> QED  BY <1>9, <3>1, <3>2, <3>4, <3>5, <3>6
  <2> QED  BY <2>1, <2>2
<1>11. ASSUME NEW s \in Runs, s # r, IsRun(work'[s])
       PROVE  Stands(s, fam2, left2)'
  <2>1. work'[s] = work[s] /\ IsRun(work[s]) /\ ~Open(s) /\ ~Open(s)'
    BY <1>3, <1>11 DEF Claims, Others
  <2>2. /\ Placing(s, fam) /\ Planting(s) /\ Treading(s)
        /\ Batching(s, fam[work[s].op], left[work[s].op])
        /\ Batched(s, fam[work[s].op], left[work[s].op])
    BY <2>1, RunStands
  <2>3. Checking(s, fam2)' /\ Creating(s, fam2)'  BY <2>1 DEF Checking, Creating
  <2>4. Adopting(s, fam2)'
    <3>1. IsRun(work[s]) /\ work[s].at = "adopt" => Open(s)
      BY DEF IsRun, Open, Early, Holding, Late
    <3> QED  BY <2>1, <3>1 DEF Adopting, On
  <2>5. Planting(s)' /\ Treading(s)'
    <3>1. Planting(s)'  BY <2>1, <2>2 DEF Planting, On
    <3>2. Treading(s)'  BY <2>1, <2>2 DEF Treading, Rename, Removes, Delete, Erase, On
    <3> QED  BY <3>1, <3>2
  <2>6. PICK q : q = work[s].op  OBVIOUS
  <2>7. CASE Holding(work[s].kind, work[s].at)
    <3>1. q \in Runs /\ Holds(s, q)  BY <2>1, <2>6, <2>7 DEF Holds, IsRun
    <3>2. /\ q \in Recorded /\ (Broad(q) <=> ~Create(s))
          /\ Rename(s) => Renames(q) /\ Claim(q).to = work[s].to
      BY <3>1, HolderClaims
    <3>3. q # r /\ Still(q) /\ fam2[q] = fam[q] /\ left2[q] = left[q]
      BY <1>3, <1>4, <3>1, <3>2
    <3>4. Rename(s) => Claiming(q) /\ (Deeper(q)' <=> Deeper(q))
      <4>1. Rename(s) => Claiming(q)  BY <3>2 DEF Broad, Rename, Create
      <4>2. Claiming(q) => (Deeper(q)' <=> Deeper(q))  BY <3>1, <3>3, StillSame
      <4> QED  BY <4>1, <4>2
    <3>5. Batching(s, fam2[q], left2[q])'
      <4>1. ToDo(s)' = ToDo(s)  BY <2>1 DEF ToDo
      <4> QED  BY <1>5, <2>1, <2>2, <2>6, <3>3, <3>4, <4>1 DEF Batching, On, Rename
    <3>6. Batched(s, fam2[q], left2[q])'
      BY <1>5, <2>1, <2>2, <2>6, <3>3 DEF Batched, On, Rename, Removes, Delete, Erase
    <3>7. Placing(s, fam2)'
      <4> SUFFICES ASSUME work[s].at \in {"put", "save"}
                   PROVE  /\ Anchored(pages', Housed(fam2)', work[s].parent, Front(work[s].to))
                          /\ \A t \in Runs : Open(t)' /\ On(t, "adopt")' =>
                                work'[t].parent # work[s].parent
        BY <2>1 DEF Placing
      <4>1. Rename(s)  BY <2>7 DEF Holding, Rename
      <4>2. work[s].to \in Paths /\ work[s].to # <<>>
        BY <2>1, <4>1 DEF Typed, RunTyped, Rename, IsPath, Paths
      <4>3. work[s].to \in PathsOf(q) /\ Broad(q)
        BY <3>1, <3>2, <3>4, <4>1, ClaimFits DEF Rename, Create
      <4>4. Broad(r)' => ~IsPrefix(from, Front(work[s].to))
        BY <1>1, <1>2, <3>1, <4>2, <4>3, FreeIsApart
      <4>5. Anchored(pages, Housed(fam), work[s].parent, Front(work[s].to))
        BY <2>1, <2>2 DEF Placing
      <4>6. Front(work[s].to) \in Paths  BY <4>2, FrontIsPath
      <4>7. \A t \in Runs : ~(Open(t)' /\ On(t, "adopt")')
        BY <1>3 DEF On
      <4> QED  BY <1>9, <4>4, <4>5, <4>6, <4>7
    <3>8. work'[s].op = q  BY <2>1, <2>6
    <3> QED  BY <2>3, <2>4, <2>5, <3>5, <3>6, <3>7, <3>8 DEF Stands
  <2>8. CASE ~Holding(work[s].kind, work[s].at)
    <3>1. work[s].at \notin {"put", "save", "batch"}
      BY <2>1, <2>8 DEF IsRun, Open, Early, Holding, Late
    <3>2. Placing(s, fam2)'  BY <2>1, <3>1 DEF Placing
    <3>3. Batching(s, fam2[work[s].op], left2[work[s].op])'  BY <2>1, <3>1 DEF Batching, On
    <3>4. Batched(s, fam2[work[s].op], left2[work[s].op])'  BY <2>1, <2>8 DEF Batched
    <3> QED  BY <2>3, <2>4, <2>5, <3>2, <3>3, <3>4 DEF Stands
  <2> QED  BY <2>7, <2>8
<1>12. Stands(r, fam2, left2)'
  <2>1. /\ work'[r].kind = work[r].kind /\ work'[r].copy = work[r].copy
        /\ work'[r].recursively = work[r].recursively /\ work[r].kind # "create"
        /\ IsRun(work[r])
    BY DEF Claims, Unmoved, Open
  <2>2. Treading(r)  BY <2>1, RunStands
  <2>3. Treading(r)'
    BY <2>1, <2>2 DEF Treading, Rename, Removes, Delete, Erase, On
  <2>4. Checking(r, fam2)' /\ Placing(r, fam2)' /\ Creating(r, fam2)' /\ Planting(r)'
        /\ Adopting(r, fam2)'
    BY <2>1 DEF Checking, Placing, Creating, Create, Planting, Adopting, On
  <2>5. Batching(r, fam2[work[r].op], left2[work[r].op])'  BY DEF Batching, On
  <2>6. Batched(r, fam2[work[r].op], left2[work[r].op])'
    <3>1. work'[r].kind = "rename" => work'[r].at = "record"  BY <2>1
    <3> QED  BY <3>1 DEF Batched, AfterBatches, Rename, Removes, Delete, Erase, On
  <2> QED  BY <2>3, <2>4, <2>5, <2>6 DEF Stands
<1>13. Nested(fam2, left2)'
  BY <1>7, <1>8, <1>10, <1>11, <1>12 DEF Nested
<1> QED  BY <1>13

LEMMA CheckNests ==
    ASSUME Typed, Typed', Ordered, Ordered', NEW fam, NEW left, Nested(fam, left),
           NEW r \in Runs, Check(r), ~history'.crowded, ~history'.doubled
    PROVE  \E fam2, left2 : Nested(fam2, left2)'
<1>1. IsRun(work[r]) /\ work[r].at = "check"  BY RunsAreRuns DEF Typed, Held, Check, On
<1>2. pages' = pages /\ SamePlaces(pages, pages')  BY KeptPlaces DEF Check
<1>3. CASE Leaves(r) /\ UNCHANGED ops
  <2>1. Early(work[r].kind, work[r].at)  BY <1>1 DEF IsRun, Early, Holding, Late
  <2>2. Nested(fam, left)'  BY <1>1, <1>2, <1>3, <2>1, EarlyLeavingNests
  <2> QED  BY <2>2
<1>4. CASE Claims(r)
  <2>1. ~End(r)
    <3>1. IsRun(work'[r])  BY <1>4 DEF Claims, Open
    <3>2. End(r) => work'[r] = Over  BY DEF End, Typed, Held, WorkShape
    <3> QED  BY <3>1, <3>2, RunIsNeither
  <2>2. PICK at \in {"record", "replace", "trash", "shrink"} :
          /\ Go(r, at)
          /\ at = "record" <=> work[r].kind = "rename"
    BY <2>1 DEF Check, Rename, Removes, Delete, Erase
  <2>3. work'[r].at = at
    <3>1. work'[r] = [work[r] EXCEPT !.at = at]  BY <2>2 DEF Go, Typed, Held, WorkShape
    <3> QED  BY <1>1, <3>1 DEF IsRun, HasFields
  <2>4. work[r].kind = "rename" => At(work[r].to) = {}
    <3> SUFFICES ASSUME Rename(r), At(work[r].to) # {}  PROVE FALSE
      BY DEF Rename
    <3> DEFINE refused == \/ Rename(r) /\ \E i \in At(work[r].to) : pages[i].kind = "page"
                          \/ ~CanOperate(work[r].recursively, work[r].copy.path, work[r].to)
    <3>1. /\ ~refused
          /\ history' = [history EXCEPT
                 !.crowded = @ \/ (~refused /\ (work[r].seen # Recorded \/ Covers(work[r].to))),
                 !.doubled = @ \/ (~refused /\ Rename(r) /\ At(work[r].to) # {})]
      BY <2>1 DEF Check
    <3> HIDE DEF refused
    <3>2. history'.doubled  BY <3>1 DEF Typed, Held, HasHistory
    <3> QED  BY <3>2
  <2>5. work[r].kind = "rename" => work'[r].at = "record"  BY <2>2, <2>3
  <2>6. work'[r].at \in {"record", "replace", "trash", "shrink"}  BY <2>3
  <2> QED  BY <1>2, <1>4, <2>4, <2>5, <2>6, ClaimingNests
<1> QED  BY <1>3, <1>4, CheckClaims DEF Typed

-----------------------------------------------------------------------------
(* The ends of operations.                                                   *)
LEMMA EndingNests ==
    ASSUME Typed, Typed', Ordered, Ordered', NEW fam, NEW left, Nested(fam, left),
           NEW r \in Runs, Leaves(r), SamePlaces(pages, pages'), NEW o \in Runs, Holds(r, o),
           ops' = [ops EXCEPT ![o] = NoOp], ~On(r, "graft"),
           work[r].kind = "rename" => left[o] = {} /\ ~Off(o),
           work[r].kind \in {"delete", "erase"} => fam[o] \cap LivePages = {}
    PROVE  Nested(fam, left)'
<1>1. work[r].op = o /\ o \in Recorded /\ (Renames(o) <=> Rename(r)) /\ (Broad(o) <=> ~Create(r))
  BY HolderClaims
<1>2. ~Late(work[r].kind, work[r].at)  BY PhasesDiffer DEF Holds
<1>3. ~Claiming(o)'
  <2>1. o \notin Recorded'
    <3>1. ops'[o] = NoOp  BY DEF Typed, Held
    <3> QED  BY <3>1 DEF Recorded
  <2>2. ~Open(o)  BY <1>1 DEF Typed, Held, NotYet, Open
  <2>3. ~Open(o)'  BY <2>2, LeavingSettles DEF Typed, NoneOpens
  <2> QED  BY <2>1, <2>3 DEF Claiming, Passed
<1>4. ASSUME Broad(o)
      PROVE  /\ left[o] = {} /\ Guests(o) = {}
             /\ \/ fam[o] \cup {Claim(o).id} \subseteq LivePages /\ Rooted(pages, Claim(o).id)
                \/ fam[o] \cap LivePages = {}
  <2>1. Guests(o) = {}  BY NoGuests
  <2>2. Housing(o, fam[o], left[o])  BY <1>4 DEF Nested, Housings
  <2>3. work[r].kind \in {"rename", "delete", "erase"}
    BY <1>1, <1>4 DEF Holds, Holding, Create
  <2>4. CASE work[r].kind = "rename"
    BY <1>1, <2>1, <2>2, <2>4 DEF Housing, Rename
  <2>5. CASE work[r].kind \in {"delete", "erase"}
    <3>1. ~Renames(o)  BY <1>1, <2>5 DEF Rename
    <3>2. ~Moving(o)  BY <3>1 DEF Moving
    <3> QED  BY <2>1, <2>2, <2>5, <3>2 DEF Housing
  <2> QED  BY <2>3, <2>4, <2>5
<1> QED  BY <1>1, <1>2, <1>3, <1>4, LeavingNests

LEMMA DoneNests ==
    ASSUME Typed, Typed', Ordered, Ordered', NEW fam, NEW left, Nested(fam, left),
           NEW r \in Runs, Done(r)
    PROVE  Nested(fam, left)'
<1>1. IsRun(work[r])  BY RunsAreRuns DEF Typed, Held, Done
<1>2. /\ Leaves(r) /\ work[r].at \in {"done", "answered"}
      /\ On(r, "done") => ops' = [ops EXCEPT ![work[r].op] = NoOp]
      /\ On(r, "answered") => ops' = ops
  BY DoneLeaves DEF Typed
<1>3. SamePlaces(pages, pages')  BY KeptPlaces DEF Done
<1>4. /\ Batched(r, fam[work[r].op], left[work[r].op]) /\ Treading(r)
  BY <1>1, RunStands
<1>5. CASE On(r, "answered")
  <2>1. Early(work[r].kind, work[r].at) /\ work[r].kind \in {"delete", "erase"}
    BY <1>1, <1>5 DEF On, IsRun, Early, Holding, Late
  <2>2. ~work[r].recursively  BY <1>1, <1>4, <1>5, <2>1 DEF Treading, Removes, Delete, Erase
  <2> QED  BY <1>2, <1>3, <1>5, <2>1, <2>2, EarlyLeavingNests
<1>6. CASE On(r, "done")
  <2>1. PICK o \in Runs : o = work[r].op  BY <1>1 DEF IsRun
  <2>2. Holding(work[r].kind, work[r].at)
    BY <1>1, <1>6 DEF On, IsRun, Early, Holding, Late
  <2>3. Holds(r, o)  BY <1>1, <2>1, <2>2 DEF Holds
  <2>4. work[r].kind = "rename" => left[o] = {} /\ ~Off(o)
    <3>1. ~Off(o)  BY <1>6, <2>3, HolderIsOne DEF Off, On
    <3> QED  BY <1>1, <1>4, <1>6, <2>1, <2>2, <3>1 DEF Batched, AfterBatches, On, Rename
  <2>5. work[r].kind \in {"delete", "erase"} => fam[o] \cap LivePages = {}
    BY <1>1, <1>4, <1>6, <2>1, <2>2 DEF Batched, Removes, Delete, Erase
  <2>6. ~On(r, "graft")  BY <1>6 DEF On
  <2>7. ops' = [ops EXCEPT ![o] = NoOp]  BY <1>2, <1>6, <2>1
  <2> QED  BY <1>2, <1>3, <2>3, <2>4, <2>5, <2>6, <2>7, EndingNests
<1> QED  BY <1>2, <1>5, <1>6 DEF On

LEMMA CleanupNests ==
    ASSUME Typed, Typed', Ordered, Ordered', NEW fam, NEW left, Nested(fam, left),
           NEW r \in Runs, Cleanup(r), ~history'.damaged
    PROVE  Nested(fam, left)'
<1>1. IsRun(work[r])  BY RunsAreRuns DEF Typed, Held, Cleanup, On
<1>2. /\ Leaves(r) /\ work[r].at = "cleanup" /\ work[r].kind = "rename"
      /\ ops' = [ops EXCEPT ![work[r].op] = NoOp]
  BY CleanupLeaves DEF Typed
<1>3. SamePlaces(pages, pages')  BY KeptPlaces DEF Cleanup
<1>4. PICK o \in Runs : o = work[r].op  BY <1>1 DEF IsRun
<1>5. Holds(r, o)  BY <1>1, <1>2, <1>4 DEF Holds, Holding
<1>6. /\ \A ats : Is(o, ats) <=> work[r].at \in ats
  BY <1>5, HolderIsOne
<1>7. ~Off(o) /\ ~Is(o, {"bump", "redirect", "stage"})  BY <1>2, <1>6 DEF Off
<1>8. /\ o \in Recorded /\ Broad(o) /\ Rename(r) /\ ops[o].stage = "Main"
  BY <1>2, <1>5, HolderClaims DEF MainAts, Create, Rename
<1>9. ~Moving(o)  BY <1>7, <1>8 DEF Moving
<1>10. left[o] = {}  BY <1>8, <1>9 DEF Nested, Housings, Housing
<1>11. ~On(r, "graft")  BY <1>2 DEF On
<1>12. ops' = [ops EXCEPT ![o] = NoOp]  BY <1>2, <1>4
<1> QED  BY <1>2, <1>3, <1>5, <1>7, <1>10, <1>11, <1>12, EndingNests

-----------------------------------------------------------------------------
(* A request has read a page of the tree, or is about none.                  *)
LEMMA BeginReads ==
    ASSUME Held, NEW r \in Runs, NEW kind, NEW id, NEW to, NEW redirect, NEW recursively, NEW at,
           Begin(r, kind, id, to, redirect, recursively, at)
    PROVE  /\ pages' = pages /\ work'[r].at = at /\ work'[r].kind = kind /\ work'[r].id = id
           /\ work'[r].recursively = recursively
           /\ id # NoId => work'[r].copy = pages[id]
<1> DEFINE copy == IF id = NoId THEN NoPage ELSE pages[id]
           todo == IF kind = "erase" THEN {"page", "redirects"} ELSE {}
<1>1. /\ pages' = pages
      /\ work' = [work EXCEPT ![r] =
          [at |-> at, kind |-> kind, op |-> r, id |-> id, to |-> to,
           copy |-> copy, parent |-> NoId,
           redirect |-> redirect, recursively |-> recursively, ids |-> {},
           todo |-> todo, sum |-> 0, seen |-> Recorded, resumed |-> FALSE, ticked |-> FALSE]]
  BY DEF Begin
<1>2. id # NoId => copy = pages[id]  OBVIOUS
<1> HIDE DEF copy, todo
<1>3. /\ work'[r].at = at /\ work'[r].kind = kind /\ work'[r].id = id
      /\ work'[r].copy = copy /\ work'[r].recursively = recursively
  BY <1>1 DEF Held, WorkShape
<1> QED  BY <1>1, <1>2, <1>3

ReadsPage(r, i) ==
    /\ i \in LivePages \ {Top} /\ Rooted(pages, i)
    /\ work'[r].at = "check" /\ work'[r].kind # "create"
    /\ work'[r].id = i /\ work'[r].copy = pages[i]
    /\ work'[r].kind \in {"delete", "erase"} /\ ~work'[r].recursively => pages[i].kind = "page"

LEMMA RequestReads ==
    ASSUME Typed, NEW r \in Runs, Request(r)
    PROVE  /\ pages' = pages
           /\ \/ work'[r].kind = "create" /\ work'[r].at = "clear" /\ work'[r].id = NoId
              \/ \E i : ReadsPage(r, i)
<1> Held  BY DEF Typed
<1>1. ASSUME NEW i \in Ids, pages[i].kind \in {"page", "empty"}, i # Top, OnTree(i)
      PROVE  i # NoId /\ i \in LivePages \ {Top} /\ Rooted(pages, i)
  <2>1. i # NoId  BY IdsAreCounted DEF Typed
  <2> QED  BY <1>1, <2>1 DEF LivePages, LiveOf, Ids, OnTree, Rooted
<1>2. ASSUME NEW i \in Ids, NEW to, NEW redirect, BeginRename(r, i, to, redirect)
      PROVE  pages' = pages /\ ReadsPage(r, i)
  <2>1. /\ pages[i].kind \in {"page", "empty"} /\ i # Top /\ OnTree(i)
        /\ Begin(r, "rename", i, to, redirect, TRUE, "check")
    BY <1>2 DEF BeginRename
  <2>2. i # NoId /\ i \in LivePages \ {Top} /\ Rooted(pages, i)  BY <1>1, <2>1
  <2>3. /\ pages' = pages /\ work'[r].at = "check" /\ work'[r].kind = "rename" /\ work'[r].id = i
        /\ work'[r].copy = pages[i]
    BY <2>1, <2>2, BeginReads, ZenonT(60)
  <2> QED  BY <2>2, <2>3 DEF ReadsPage
<1>3. ASSUME NEW path \in asked.creates, BeginCreate(r, path)
      PROVE  pages' = pages /\ work'[r].kind = "create" /\ work'[r].at = "clear" /\ work'[r].id = NoId
  <2>1. PICK no : no = FALSE  OBVIOUS
  <2>2. Begin(r, "create", NoId, path, no, no, "clear")  BY <1>3, <2>1 DEF BeginCreate
  <2> QED  BY <2>2, BeginReads
<1>4. ASSUME NEW i \in Ids, NEW recursively, NEW kind \in {"delete", "erase"},
             pages[i].kind \in {"page", "empty"}, i # Top, OnTree(i),
             pages[i].kind = "empty" => recursively,
             Begin(r, kind, i, NoPath, FALSE, recursively, "check")
      PROVE  pages' = pages /\ ReadsPage(r, i)
  <2>1. i # NoId /\ i \in LivePages \ {Top} /\ Rooted(pages, i)  BY <1>1, <1>4
  <2>2. /\ pages' = pages /\ work'[r].at = "check" /\ work'[r].kind = kind /\ work'[r].id = i
        /\ work'[r].copy = pages[i] /\ work'[r].recursively = recursively
    <3>1. PICK no : no = FALSE  OBVIOUS
    <3>2. Begin(r, kind, i, NoPath, no, recursively, "check")  BY <1>4, <3>1
    <3> QED  BY <2>1, <3>2, BeginReads
  <2> QED  BY <1>4, <2>1, <2>2 DEF ReadsPage
<1>5. ASSUME NEW i \in Ids, NEW recursively, BeginDelete(r, i, recursively)
      PROVE  pages' = pages /\ ReadsPage(r, i)
  BY <1>4, <1>5 DEF BeginDelete
<1>6. ASSUME NEW i \in Ids, NEW recursively, BeginErase(r, i, recursively)
      PROVE  pages' = pages /\ ReadsPage(r, i)
  BY <1>4, <1>6 DEF BeginErase
<1> QED  BY <1>2, <1>3, <1>5, <1>6 DEF Request

(* The paths are fit for requests. *)
LEMMA NestedIsPlaced ==
    ASSUME NEW fam, NEW left, Nested(fam, left)
    PROVE  Placed(pages)
  BY DEF Nested, Coherent, Placed, LiveOf

(* A page at a path that nobody moves or removes is in no house, nor is its  *)
(* parent.                                                                   *)
LEMMA ClearIsOut ==
    ASSUME Typed, Ordered, NEW fam, NEW left, Nested(fam, left), NEW i \in LivePages \ {Top},
           Rooted(pages, i), Clear(pages[i].path)
    PROVE  /\ Anchored(pages, Housed(fam), i, pages[i].path)
           /\ Anchored(pages, Housed(fam), pages[i].parent, Front(pages[i].path))
<1>1. i \notin Housed(fam)  BY HousedInArea DEF Nested, Clear
<1>2. pages[i].parent # NoId  BY DEF Rooted
<1>3. /\ pages[i].parent \in LivePages /\ Rooted(pages, pages[i].parent)
      /\ pages[i].parent \notin Housed(fam)
      /\ Front(pages[i].path) = pages[pages[i].parent].path
  BY <1>1, <1>2, PagesAreBelow
<1> QED  BY <1>1, <1>3 DEF Anchored, Pinned

LEMMA RequestNests ==
    ASSUME Typed, Typed', Ordered, Ordered', NEW fam, NEW left, Nested(fam, left),
           NEW r \in Runs, Request(r), ~history'.crowded
    PROVE  Nested(fam, left)'
<1>1. Begins(r)  BY RequestBegins, NestedIsPlaced
<1>2. \A q \in Runs : Still(q)  BY <1>1, BeginningIsStill DEF Typed
<1>3. /\ pages' = pages
      /\ \/ work'[r].kind = "create" /\ work'[r].at = "clear" /\ work'[r].id = NoId
         \/ \E i : ReadsPage(r, i)
  BY RequestReads
<1>4. SamePlaces(pages, pages') /\ Ids' = Ids /\ LivePages' = LivePages
  BY <1>3, KeptPlaces DEF Ids, LivePages
<1>5. \A s \in Runs \ {r} : work'[s] = work[s] /\ ~Open(s)
  BY <1>1 DEF Begins, Others
<1>6. Steady(pages, pages', Housed(fam))
      /\ \A q \in Runs : Broad(q) => Untouched(pages, pages', Claimed(q), fam[q])
  BY <1>4, SameIsQuiet DEF Nested, Housings
<1>7. Housed(fam)' = Housed(fam)
  <2>1. \A q \in Runs : (Broad(q)' <=> Broad(q)) /\ (Broad(q) => House(q, fam[q])' = House(q, fam[q]))
    BY <1>2, StillSame DEF Still, Broad
  <2> QED  BY <2>1 DEF Housed
<1>8. Coherent(pages', Housed(fam)')  BY <1>3, <1>7 DEF Nested
<1>9. Stands(r, fam, left)'
  <2>1. work'[r].at \in {"check", "clear"}  BY <1>3 DEF ReadsPage
  <2>2. Placing(r, fam)' /\ Planting(r)' /\ Adopting(r, fam)'
    BY <2>1 DEF Placing, Planting, Adopting, On
  <2>3. Batching(r, fam[work[r].op], left[work[r].op])'
    BY <2>1 DEF Batching, On
  <2>4. Batched(r, fam[work[r].op], left[work[r].op])'
    BY <2>1 DEF Batched, Holding
  <2>5. Creating(r, fam)'
    BY <1>3 DEF Creating, Create, ReadsPage
  <2>6. Treading(r)'
    BY <1>3, <2>1 DEF Treading, Rename, Removes, Delete, Erase, On, ReadsPage
  <2>7. Checking(r, fam)'
    <3> SUFFICES ASSUME On(r, "check")', work'[r].seen = Recorded', Clear(work[r].copy.path)'
                 PROVE  /\ Anchored(pages', Housed(fam)', work'[r].copy.parent, Front(work'[r].copy.path))
                        /\ Anchored(pages', Housed(fam)', work'[r].id, work'[r].copy.path)
                        /\ (Free(work[r].copy.path) /\ work[r].recursively => work[r].id \in LivePages)'
      BY DEF Checking
    <3>1. PICK i : ReadsPage(r, i)  BY <1>3 DEF On
    <3>2. PICK path : path = pages[i].path  OBVIOUS
    <3>3. Clear(path)'  BY <3>1, <3>2 DEF ReadsPage
    <3>4. \A q \in Runs : (Broad(q)' <=> Broad(q)) /\ (Broad(q) => (InArea(q, path)' <=> InArea(q, path)))
      BY <1>2, StillSame DEF Still, Broad
    <3>5. Clear(path)  BY <3>3, <3>4 DEF Clear
    <3>6. /\ Anchored(pages, Housed(fam), i, path)
          /\ Anchored(pages, Housed(fam), pages[i].parent, Front(path))
      BY <3>1, <3>2, <3>5, ClearIsOut DEF ReadsPage
    <3> QED  BY <1>3, <1>4, <1>7, <3>1, <3>2, <3>6 DEF ReadsPage
  <2> QED  BY <2>2, <2>3, <2>4, <2>5, <2>6, <2>7 DEF Stands
<1>10. ~On(r, "adopt")'  BY <1>3 DEF On, ReadsPage
<1>11. \A s \in Runs \ {r} : Open(s) => Spared(s, fam)  BY <1>5
<1> DEFINE R == {r}  O == {}
<1>12. R \in SUBSET Runs /\ O \in SUBSET Runs  OBVIOUS
<1>13. \A t \in R : IsRun(work'[t]) => Stands(t, fam, left)'  BY <1>9
<1>14. \A t \in R : ~On(t, "adopt")'  BY <1>10
<1>15. \A s \in Runs \ R : work'[s] = work[s] /\ ~Open(s)  BY <1>5
<1>16. \A q \in O : FALSE  OBVIOUS
<1> HIDE DEF R, O
<1> QED
  BY <1>2, <1>4, <1>6, <1>8, <1>12, <1>13, <1>14, <1>15, <1>16, ActNests

-----------------------------------------------------------------------------
(* Operations are resumed.                                                   *)
LEMMA ResumingNests ==
    ASSUME Typed, Typed', Ordered, Ordered', NEW fam, NEW left, Nested(fam, left),
           NEW who, Resumes(who), pages' = pages
    PROVE  Nested(fam, left)'
<1> PICK R : R = DOMAIN who  OBVIOUS
<1> PICK O : O = {who[r] : r \in DOMAIN who}  OBVIOUS
<1>1. /\ Settled /\ NoneOpens /\ Recorded' = Recorded /\ ops' = ops
      /\ \A s, o \in Runs : Holds(s, o)' <=> Holds(s, o) \/ (s \in DOMAIN who /\ o = who[s])
  BY ResumingSettles DEF Typed, Resumes
<1>2. R \subseteq Runs /\ O \subseteq Runs
  BY DEF Resumes, Resumable, Recorded
<1>3. \A r \in R : /\ ~IsRun(work[r]) /\ work'[r].at = "stream" /\ work'[r].kind = "rename"
                   /\ ~Open(r)'
  <2> SUFFICES ASSUME NEW r \in R
               PROVE  /\ ~IsRun(work[r]) /\ work'[r].at = "stream" /\ work'[r].kind = "rename"
                      /\ ~Open(r)'
    OBVIOUS
  <2>1. ~IsRun(work[r]) /\ work'[r] = Resumed(who[r])  BY DEF Resumes
  <2>2. work'[r].at = "stream" /\ work'[r].kind = "rename"  BY <2>1 DEF Resumed
  <2> QED  BY <2>1, <2>2 DEF Open, Early
<1>4. SamePlaces(pages, pages') /\ Ids' = Ids /\ LivePages' = LivePages
  BY KeptPlaces DEF Ids, LivePages
<1>5. \A q \in Runs \ O : Still(q)
  <2> SUFFICES ASSUME NEW q \in Runs \ O  PROVE Still(q)
    OBVIOUS
  <2>1. work'[q] = work[q] \/ (~Open(q) /\ ~Open(q)')
    BY <1>3 DEF Open, Resumes
  <2>2. \A s \in Runs : (Holds(s, q)' <=> Holds(s, q)) /\ (Holds(s, q) => work'[s] = work[s])
    BY <1>1 DEF Holds, Resumes
  <2> QED  BY <1>1, <2>1, <2>2, StillOnes DEF Alike
<1>6. ASSUME NEW o \in O
      PROVE  /\ o \in Runs /\ o \in Recorded /\ Renames(o) /\ ops[o].stage = "Sub"
             /\ Claiming(o) /\ Claiming(o)' /\ Broad(o) /\ Broad(o)' /\ Claim(o)' = Claim(o)
             /\ (\A s \in Runs : ~Holds(s, o)) /\ ~Off(o) /\ ~Off(o)'
             /\ Moving(o) /\ Moving(o)' /\ Claimed(o)' = Claimed(o) /\ ~Deeper(o) /\ ~Deeper(o)'
  <2>1. PICK r \in R : o = who[r]  OBVIOUS
  <2>2. /\ o \in Recorded /\ ops[o].kind = "rename" /\ ops[o].stage = "Sub"
        /\ \A s \in Runs : ~Holds(s, o)
    BY <2>1 DEF Resumes, Resumable
  <2>3. Claim(o)' = Claim(o) /\ Claim(o) = ops[o]  BY <1>1, <2>2 DEF Claim
  <2>4. Claiming(o) /\ Claiming(o)' /\ Broad(o) /\ Broad(o)'
    BY <1>1, <2>2 DEF Claiming, Broad
  <2>5. Renames(o) /\ Renames(o)'  BY <2>2, <2>3 DEF Renames
  <2>6. ~Deeper(o)
    BY <2>2, <2>5 DEF Ordered, DeeperHeld
  <2>7. ~Deeper(o)' /\ From(o)' = From(o)  BY <2>3, <2>6 DEF Deeper, From
  <2>8. \A s \in Runs : Holds(s, o)' => s \in R  BY <1>1, <1>2, <2>2
  <2>9. Guests(o) = {} /\ ~Off(o)  BY <1>2, <2>2, NoHolders
  <2>10. ~Off(o)'  BY <1>3, <2>8 DEF Off, Is
  <2>11. Guests(o)' = {}
    <3>1. {s \in Runs : Holds(s, o) /\ On(s, "graft")}' = {}  BY <1>3, <2>8 DEF On
    <3> QED  BY <3>1 DEF Guests
  <2>12. Moving(o) /\ Moving(o)'  BY <1>1, <2>2, <2>5 DEF Moving
  <2>13. Claimed(o)' = Claimed(o)  BY <2>3, <2>7, <2>9, <2>11, <2>12 DEF Claimed
  <2> QED
    BY <1>2, <2>2, <2>3, <2>4, <2>5, <2>6, <2>7, <2>9, <2>10, <2>12, <2>13
<1>7. \A q \in Runs : (Broad(q)' <=> Broad(q)) /\ (Broad(q) => House(q, fam[q])' = House(q, fam[q]))
  <2> TAKE q \in Runs
  <2>1. CASE q \in O  BY <1>6, <2>1 DEF House
  <2>2. CASE q \notin O  BY <1>5, <2>2, StillSame DEF Still, Broad
  <2> QED  BY <2>1, <2>2
<1>8. Housed(fam)' = Housed(fam)  BY <1>7 DEF Housed
<1>9. ASSUME NEW o \in O
      PROVE  Fits(o, fam, left) /\ House(o, fam[o])' \cap Ids \subseteq Housed(fam)
  <2>1. /\ o \in Runs /\ o \in Recorded /\ Renames(o) /\ Broad(o) /\ Claim(o)' = Claim(o)
        /\ ~Off(o) /\ Moving(o)' /\ Claimed(o)' = Claimed(o) /\ ~Deeper(o)'
    BY <1>6
  <2>2. Family(pages, Claimed(o), fam[o], left[o]) /\ Housing(o, fam[o], left[o])
    BY <2>1 DEF Nested, Housings
  <2>3. (~Moving(o) => left[o] = {})'  BY <2>1
  <2>4. (Renames(o) =>
          /\ ~IsPrefix(Claim(o).to, From(o))
          /\ fam[o] \cup {Claim(o).id} \subseteq LivePages
          /\ ~Off(o) => Rooted(pages, Claim(o).id))'
    BY <1>4, <2>1, <2>2 DEF Housing, From
  <2>5. (Renames(o) /\ Deeper(o) /\ Is(o, {"bump", "redirect", "stage", "stream"})
          => left[o] = fam[o])'
    BY <2>1
  <2>6. Renames(o)' /\ (o \in Recorded)'  BY <1>1, <2>1 DEF Renames
  <2>7. Housing(o, fam[o], left[o])'  BY <2>3, <2>4, <2>5, <2>6 DEF Housing
  <2>8. Family(pages', Claimed(o)', fam[o], left[o])  BY <2>1, <2>2
  <2>9. House(o, fam[o])' \cap Ids \subseteq Housed(fam)
    BY <1>7, <2>1 DEF Housed
  <2> QED  BY <2>7, <2>8, <2>9 DEF Fits
<1>10. /\ Steady(pages, pages', Housed(fam)) /\ Coherent(pages', Housed(fam)')
       /\ \A q \in Runs \ O : Broad(q) => Untouched(pages, pages', Claimed(q), fam[q])
  BY <1>4, <1>8, SameIsQuiet DEF Nested, Housings
<1>11. \A s \in Runs \ R : work'[s] = work[s]  BY DEF Resumes
<1>12. \A s \in Runs \ R : Open(s) => Spared(s, fam)
  BY <1>1, <1>4, <1>11, SameIsSpared
<1>13. \A r \in R : Stands(r, fam, left)'
  <2> SUFFICES ASSUME NEW r \in R  PROVE Stands(r, fam, left)'
    OBVIOUS
  <2>1. r \in Runs /\ ~Open(r)' /\ work'[r].at = "stream" /\ work'[r].kind = "rename"
    BY <1>2, <1>3
  <2> QED  BY <2>1, FreshStands DEF AfterBatches
<1>14. \A o \in O : Claiming(o)' => Claiming(o) /\ SameClaim(Claim(o), Claim(o)')
  BY <1>1, <1>2 DEF Settled
<1>15. \A s \in Runs \ R, o \in O : ~Holds(s, o)  BY <1>6
<1>16. \A o \in O \cap Recorded \cap Recorded' : Claiming(o) => Claiming(o)'  BY <1>6
<1>17. \A t \in R : ~Open(t)'  BY <1>3
<1>18. R \in SUBSET Runs /\ O \in SUBSET Runs /\ Ids \subseteq Ids'  BY <1>2, <1>4
<1> QED
  BY <1>5, <1>9, <1>10, <1>11, <1>12, <1>13, <1>14, <1>15, <1>16, <1>17, <1>18, ActNests

LEMMA ResumeNests ==
    ASSUME Typed, Typed', Ordered, Ordered', NEW fam, NEW left, Nested(fam, left),
           NEW r \in Runs, NEW o, Resume(o, r), ~history'.crowded
    PROVE  Nested(fam, left)'
<1>1. pages' = pages  BY DEF Resume
<1>2. PICK who : who = [s \in {r} |-> o]  OBVIOUS
<1>3. Resumes(who)  BY <1>2, ResumeResumes DEF Typed
<1> QED  BY <1>1, <1>3, ResumingNests

LEMMA BootNests ==
    ASSUME Typed, Typed', Ordered, Ordered', NEW fam, NEW left, Nested(fam, left), Boot
    PROVE  Nested(fam, left)'
<1>1. pages' = pages  BY DEF Boot
<1>2. \E who : Resumes(who)  BY BootResumes DEF Typed
<1> QED  BY <1>1, <1>2, ResumingNests

-----------------------------------------------------------------------------
(* A crash loses no rest of a change, of a run that is not dirty.            *)
LEMMA CrashIsClean ==
    ASSUME Typed, Ordered, Crash, ~history'.damaged, NEW r \in Runs, IsRun(work[r])
    PROVE  ~Dirty(r) /\ work[r].at # "cleanup"
<1>1. r \in InFlight  BY DEF InFlight, IsRun, Early, Holding, Late
<1> QED  BY <1>1 DEF Crash, On, Typed, Held, HasHistory

(* An operation that is kept has its house.                                  *)
LEMMA CrashFits ==
    ASSUME Typed, Typed', Ordered, Ordered', NEW fam, NEW left, Nested(fam, left), Crash,
           ~history'.damaged, NEW o \in Runs, Broad(o)'
    PROVE  /\ Broad(o) /\ o \in Recorded /\ Claimed(o)' = Claimed(o)
           /\ Fits(o, fam, left)
<1>1. /\ Settled /\ Recorded' = Recorded /\ ops' = ops /\ \A r \in Runs : ~IsRun(work'[r])
  BY CrashKeepsOrder DEF Typed
<1>2. pages' = pages /\ LivePages' = LivePages  BY DEF Crash, LivePages
<1>3. Claiming(o)' /\ o \in Recorded /\ Claiming(o) /\ Broad(o)
  <2>1. Claiming(o)'  BY DEF Broad
  <2>2. o \in Recorded  BY <1>1, <2>1 DEF Claiming, Passed, Open
  <2> QED  BY <1>1, <2>1, <2>2 DEF Claiming, Broad
<1>4. Claim(o) = ops[o] /\ Claim(o)' = Claim(o)  BY <1>1, <1>3 DEF Claim
<1>5. /\ From(o)' = From(o) /\ (Renames(o)' <=> Renames(o)) /\ (Deeper(o)' <=> Deeper(o))
  BY <1>4 DEF From, Renames, Deeper
<1>6. \A s \in Runs : ~Holds(s, o)'  BY <1>1 DEF Holds
<1>7. (\A ats : ~Is(o, ats)') /\ Guests(o)' = {} /\ ~Off(o)'  BY <1>6, NoHoldersLeft
<1>8. /\ ~Is(o, {"bump", "redirect", "stage"}) \/ ~Renames(o)
      /\ ~Off(o) \/ ~Renames(o)
      /\ Guests(o) = {}
  <2>1. CASE \A s \in Runs : ~Holds(s, o)  BY <2>1, NoHolders
  <2>2. CASE \E s \in Runs : Holds(s, o)
    <3>1. PICK s \in Runs : Holds(s, o)  BY <2>2
    <3>2. /\ IsRun(work[s]) /\ (Renames(o) <=> Rename(s)) /\ work[s].op = o
      BY <3>1, HolderClaims
    <3>3. Rename(s) => work[s].at \notin RenameMain \ {"takeOff"}
      BY <3>2, CrashIsClean DEF Dirty
    <3>4. Rename(s) => work[s].at \notin {"bump", "redirect", "stage", "find", "insert", "link",
                                           "plant", "graft", "put"}
      BY <3>3 DEF RenameMain
    <3>5. On(s, "graft") => Rename(s)
      BY <3>2 DEF On, Typed, StageTyped, Rename
    <3>6. ~On(s, "graft")  BY <3>4, <3>5 DEF On
    <3>7. Guests(o) = {}  BY <3>1, <3>6, NoGuests
    <3>8. \A ats : Is(o, ats) <=> work[s].at \in ats  BY <3>1, HolderIsOne
    <3> QED  BY <3>2, <3>4, <3>7, <3>8 DEF Off
  <2> QED  BY <2>1, <2>2
<1>9. Moving(o)' <=> Moving(o)  BY <1>1, <1>3, <1>5, <1>7, <1>8 DEF Moving
<1>10. Claimed(o)' = Claimed(o)  BY <1>4, <1>5, <1>7, <1>8, <1>9 DEF Claimed
<1>11. Family(pages, Claimed(o), fam[o], left[o]) /\ Housing(o, fam[o], left[o])
  BY <1>3 DEF Nested, Housings
<1>12. Family(pages', Claimed(o)', fam[o], left[o])  BY <1>2, <1>10, <1>11
<1>13. (~Moving(o) => left[o] = {})'  BY <1>9, <1>11 DEF Housing
<1>14. (Renames(o) =>
          /\ ~IsPrefix(Claim(o).to, From(o))
          /\ fam[o] \cup {Claim(o).id} \subseteq LivePages
          /\ ~Off(o) => Rooted(pages, Claim(o).id))'
  BY <1>2, <1>4, <1>5, <1>8, <1>11 DEF Housing
<1>15. (Renames(o) /\ Deeper(o) /\ Is(o, {"bump", "redirect", "stage", "stream"})
          => left[o] = fam[o])'
  BY <1>7
<1>16. (o \in Recorded)' /\ ~Is(o, {"stream"})'  BY <1>1, <1>3, <1>7
<1>17. Housing(o, fam[o], left[o])'  BY <1>13, <1>14, <1>15, <1>16 DEF Housing
<1> QED  BY <1>3, <1>10, <1>12, <1>17 DEF Fits

(* The house of a run that had passed its check is as it was found.          *)
LEMMA CrashReleases ==
    ASSUME Typed, Ordered, NEW fam, NEW left, Nested(fam, left), Crash,
           ~history'.damaged, NEW o \in Runs, Broad(o), o \notin Recorded
    PROVE  /\ Family(pages, Claimed(o), fam[o], {}) /\ Guests(o) = {}
           /\ fam[o] \cup {Claim(o).id} \subseteq LivePages /\ Rooted(pages, Claim(o).id)
           /\ \A q \in Runs : Broad(q) /\ q \notin Recorded => q = o
<1>1. Claiming(o) /\ Open(o) /\ Passed(o) /\ (\A s \in Runs : Open(s) => s = o)
  BY OpenIsAlone DEF Broad, Typed
<1>2. Claim(o) = work[o] /\ work[o].recursively /\ IsRun(work[o]) /\ work[o].op = o
  BY <1>1, OpenClaims DEF Broad, Typed
<1>3. Family(pages, Claimed(o), fam[o], left[o]) /\ Housing(o, fam[o], left[o])
  BY DEF Nested, Housings
<1>4. \A s \in Runs : ~Holds(s, o)  BY HolderClaims
<1>5. Guests(o) = {} /\ ~Off(o) /\ ~Moving(o)  BY <1>4, NoHolders DEF Moving
<1>6. left[o] = {}  BY <1>3, <1>5 DEF Housing
<1>7. ~Dirty(o)  BY <1>2, CrashIsClean
<1>8. work[o].kind # "create" /\ work[o].at # "check" /\ Early(work[o].kind, work[o].at)
  BY <1>1 DEF Passed, On, Create, Open
<1>9. Treading(o) /\ RunFits(o, work[o])  BY <1>2, RunStands DEF Ordered, RunsFit
<1>10. work[o].at \notin {"replace", "adopt", "answered"}
  BY <1>2, <1>8, <1>9 DEF Treading, RunFits, Removes, Delete, Erase, On, Early
<1>11. \/ work[o].kind = "rename"
       \/ work[o].kind = "erase" /\ work[o].at \in {"shrink", "shrunk"}
  BY <1>2, <1>7, <1>8, <1>10 DEF Dirty, Early, Erase
<1>12. fam[o] \cup {Claim(o).id} \subseteq LivePages /\ Rooted(pages, Claim(o).id)
  <2>1. CASE work[o].kind = "rename"
    BY <1>2, <1>3, <1>5, <2>1 DEF Housing, Renames
  <2>2. CASE work[o].kind = "erase" /\ work[o].at \in {"shrink", "shrunk"}
    BY <1>2, <1>3, <2>2 DEF Housing, Renames
  <2> QED  BY <1>11, <2>1, <2>2
<1>13. \A q \in Runs : Broad(q) /\ q \notin Recorded => q = o
  BY <1>1, OpenIsAlone DEF Broad, Typed
<1> QED  BY <1>3, <1>5, <1>6, <1>12, <1>13

LEMMA CrashNests ==
    ASSUME Typed, Typed', Ordered, Ordered', NEW fam, NEW left, Nested(fam, left), Crash,
           ~history'.damaged
    PROVE  Nested(fam, left)'
<1>1. /\ Settled /\ Recorded' = Recorded /\ ops' = ops /\ \A r \in Runs : ~IsRun(work'[r])
  BY CrashKeepsOrder DEF Typed
<1>2. pages' = pages /\ SamePlaces(pages, pages') /\ Ids \subseteq Ids'
  BY KeptPlaces DEF Crash, Ids
<1>3. \A o \in Runs : Broad(o)' => /\ Broad(o) /\ o \in Recorded /\ Fits(o, fam, left)
                                    /\ House(o, fam[o])' = House(o, fam[o])
  BY CrashFits DEF House
<1>4. \A o \in Runs : ~Broad(o)' => Fits(o, fam, left)  BY DEF Fits
<1>5. \A o \in Runs : Broad(o) /\ o \in Recorded => Broad(o)'
  BY <1>1 DEF Broad, Claiming
<1>6. Housed(fam)' \subseteq Housed(fam)  BY <1>3 DEF Housed
<1>7. Coherent(pages', Housed(fam)')
  <2>1. CASE \E o \in Runs : Broad(o) /\ o \notin Recorded
    <3>1. PICK o \in Runs : Broad(o) /\ o \notin Recorded  BY <2>1
    <3>2. /\ Family(pages, Claimed(o), fam[o], {}) /\ Guests(o) = {}
          /\ fam[o] \cup {Claim(o).id} \subseteq LivePages /\ Rooted(pages, Claim(o).id)
          /\ \A q \in Runs : Broad(q) /\ q \notin Recorded => q = o
      BY <3>1, CrashReleases
    <3>3. Housed(fam) \subseteq Housed(fam)' \cup House(o, fam[o])
      <4> SUFFICES ASSUME NEW i \in Housed(fam), i \notin House(o, fam[o])  PROVE i \in Housed(fam)'
        OBVIOUS
      <4>1. PICK q \in Runs : Broad(q) /\ i \in House(q, fam[q])  BY DEF Housed
      <4>2. q # o  BY <4>1
      <4>3. q \in Recorded  BY <3>2, <4>1, <4>2
      <4>4. Broad(q)' /\ i \in House(q, fam[q])'  BY <1>3, <1>5, <4>1, <4>3
      <4> QED  BY <4>4 DEF Housed
    <3>4. Claimed(o).id = Claim(o).id /\ Claimed(o).guests = {}  BY <3>2 DEF Claimed
    <3>5. NoId \notin DOMAIN pages  BY IsCollectionHasNoId DEF Typed
    <3>6. Coherent(pages, Housed(fam))  BY DEF Nested
    <3>7. PICK H2, c : H2 = Housed(fam)' /\ c = Claimed(o)  OBVIOUS
    <3>8. Coherent(pages, H2)
      BY <3>2, <3>3, <3>4, <3>5, <3>6, <3>7, CoherentReleases DEF House, LivePages
    <3> QED  BY <1>2, <3>7, <3>8
  <2>2. CASE \A o \in Runs : Broad(o) => o \in Recorded
    <3>1. Housed(fam) \subseteq Housed(fam)'  BY <1>3, <1>5, <2>2 DEF Housed
    <3>2. Housed(fam)' = Housed(fam)  BY <1>6, <3>1
    <3> QED  BY <1>2, <3>2 DEF Nested
  <2> QED  BY <2>1, <2>2
<1> PICK R : R = Runs  OBVIOUS
<1>8. Steady(pages, pages', Housed(fam))  BY <1>2, SameIsQuiet
<1>9. \A o \in R : Claiming(o)' => Claiming(o) /\ SameClaim(Claim(o), Claim(o)')
  BY <1>1 DEF Settled
<1>10. \A o \in R : Broad(o)' => House(o, fam[o])' \cap Ids \subseteq Housed(fam)
  BY <1>3 DEF Housed
<1>11. \A o \in R : Fits(o, fam, left)  BY <1>3, <1>4
<1>12. \A o \in R \cap Recorded \cap Recorded' : Claiming(o) => Claiming(o)'
  BY <1>1 DEF Claiming
<1>13. \A r \in R : ~IsRun(work'[r]) /\ ~Open(r)'  BY <1>1 DEF Open
<1>14. R \in SUBSET Runs /\ Runs \ R = {}  OBVIOUS
<1> QED
  BY <1>2, <1>7, <1>8, <1>9, <1>10, <1>11, <1>12, <1>13, <1>14, ActNests

-----------------------------------------------------------------------------
(* The worlds begin with trees.                                              *)
LEMMA TreesCohere ==
    ASSUME NEW docs, IsCollection(docs), IsTree(docs)
    PROVE  Coherent(docs, {})
<1>1. /\ Top \in LiveOf(docs) /\ docs[Top].path = <<>> /\ docs[Top].parent = NoId
      /\ Top \in DOMAIN docs
      /\ \A i \in DOMAIN docs : docs[i].parent \in DOMAIN docs \cup {NoId}
  BY DEF IsCollection, LiveOf, IsDocument
<1>2. IsPath(docs[Top].path)
  <2>1. <<>> \in Seq(Names)  OBVIOUS
  <2>2. NoPath \in Seq(Names) /\ TrashPath \in Seq(Names)  BY DEF NoPath, TrashPath, Names
  <2>3. ~IsPrefix(NoPath, <<>>) /\ ~IsPrefix(TrashPath, <<>>)
    BY <2>1, <2>2, EmptyPath DEF Paths, NoPath, TrashPath
  <2> QED  BY <1>1, <2>1, <2>3 DEF IsPath
<1>3. \A i \in DOMAIN docs \ LiveOf(docs) : docs[i].parent = NoId
  BY <1>1 DEF IsTree, LiveOf
<1>4. ASSUME NEW i \in LiveOf(docs) \ {Top}
      PROVE  /\ IsPath(docs[i].path) /\ docs[i].path # <<>>
             /\ docs[i].parent \notin {} \cup {NoId} =>
                  /\ docs[i].parent \in LiveOf(docs) /\ Rooted(docs, docs[i].parent)
                  /\ Front(docs[i].path) = docs[docs[i].parent].path
  <2>1. i \in DOMAIN docs \ {Top} /\ docs[i].kind \in {"page", "empty"}  BY DEF LiveOf
  <2>2. /\ IsPath(docs[i].path) /\ docs[i].path # <<>>
        /\ docs[i].parent # NoId =>
              /\ docs[docs[i].parent].kind \in {"page", "empty"}
              /\ docs[i].parent = Top \/ docs[docs[i].parent].parent # NoId
              /\ docs[docs[i].parent].path = Front(docs[i].path)
    BY <2>1 DEF IsTree
  <2> QED  BY <1>1, <2>1, <2>2 DEF LiveOf, Rooted
<1> QED  BY <1>1, <1>2, <1>3, <1>4 DEF Coherent

LEMMA InitNests ==
    ASSUME Init
    PROVE  \E fam, left : Nested(fam, left)
<1>1. \A r \in Runs : ~IsRun(work[r])  BY RunIsNeither DEF Init
<1>2. Recorded = {}  BY DEF Init, Recorded
<1>3. \A o \in Runs : ~Broad(o) /\ ~Claiming(o)
  BY <1>1, <1>2 DEF Broad, Claiming, Passed, Open
<1>4. PICK fam : fam = [o \in Runs |-> {}]  OBVIOUS
<1>5. Housed(fam) = {}  BY <1>3 DEF Housed
<1>6. IsCollection(pages) /\ IsTree(pages)  BY PageTreeAssumption, WorldAssumption DEF Init
<1>7. Coherent(pages, Housed(fam))  BY <1>5, <1>6, TreesCohere
<1>8. Nested(fam, fam)  BY <1>1, <1>3, <1>7 DEF Nested, Housings, Formers
<1> QED  BY <1>8

-----------------------------------------------------------------------------
(* History only grows.                                                       *)
Grows ==
    /\ history.crowded => history'.crowded
    /\ history.stale => history'.stale
    /\ history.doubled => history'.doubled
    /\ history.damaged => history'.damaged

LEMMA SameGrows ==
    ASSUME history' = history
    PROVE  Grows
BY DEF Grows

LEMMA StaleGrows ==
    ASSUME HasHistory, NEW changed, Stale(changed)
    PROVE  Grows
BY DEF Grows, Stale, HasHistory

LEMMA ThrowGrows ==
    ASSUME HasHistory, NEW r, Throw(r)
    PROVE  Grows
BY DEF Grows, Throw, HasHistory

LEMMA AdvanceGrows ==
    ASSUME HasHistory, NEW r \in Runs, Advance(r)
    PROVE  Grows
<1>1. CASE \/ Record(r) \/ Plant(r) \/ Bump(r) \/ Stream(r) \/ BatchesEnd(r) \/ Prune(r)
           \/ Recount(r) \/ Store(r) \/ ClearRedirect(r) \/ RecordCreate(r) \/ Adopt(r)
           \/ Signpost(r) \/ RecordDelete(r) \/ EraseRedirects(r) \/ Erased(r)
  BY <1>1, SameGrows, ZenonT(60)
     DEF Record, Plant, Bump, Stream, BatchesEnd, Prune, Recount, Store, ClearRedirect,
         RecordCreate, Adopt, Signpost, RecordDelete, EraseRedirects, Erased
<1>2. CASE \/ TakeOff(r) \/ Find(r) \/ Link(r) \/ CreateRedirect(r) \/ SetStage(r)
           \/ Shrink(r) \/ Grow(r)
  BY <1>2, SameGrows, ThrowGrows
     DEF TakeOff, Find, Link, CreateRedirect, SetStage, Shrink, Grow, Climb
<1>3. CASE \/ Graft(r) \/ Unbump(r) \/ Shrunk(r) \/ Grown(r) \/ Pruned(r) \/ Prepare(r)
  BY <1>3, StaleGrows DEF Graft, Unbump, Shrunk, Grown, Count, Pruned, Prepare
<1>4. CASE Replace(r)  BY <1>4, StaleGrows, ThrowGrows DEF Replace
<1>5. CASE Check(r)  BY <1>5 DEF Grows, Check, HasHistory
<1>6. CASE Insert(r)  BY <1>6 DEF Grows, Insert, HasHistory
<1>7. CASE Put(r)  BY <1>7 DEF Grows, Put, HasHistory
<1>8. CASE Done(r)  BY <1>8, SameGrows DEF Grows, Done, HasHistory
<1>9. CASE Cleanup(r)  BY <1>9 DEF Grows, Cleanup, HasHistory
<1>10. CASE Save(r)
  <2>1. CASE Throw(r)  BY <2>1, ThrowGrows
  <2>2. CASE ~Throw(r)
    <3>1. \E id : history' = [history EXCEPT !.fresh = @ \cup {id},
                      !.stale = @ \/ work[r].parent \notin At(Dirname(work[r].to)),
                      !.doubled = @ \/ At(work[r].to) \ {work[r].id} # {}]
      BY <1>10, <2>2 DEF Save
    <3> QED  BY <3>1 DEF Grows, HasHistory
  <2> QED  BY <2>1, <2>2
<1>11. CASE TrashTarget(r)  BY <1>11 DEF Grows, TrashTarget, HasHistory
<1>12. CASE ErasePage(r)  BY <1>12 DEF Grows, ErasePage, HasHistory
<1>13. CASE On(r, "batch") /\ \E x \in work[r].todo : Batch(r, x)
  BY <1>13 DEF Grows, Batch, HasHistory
<1> QED
  BY Zenon, <1>1, <1>2, <1>3, <1>4, <1>5, <1>6, <1>7, <1>8, <1>9, <1>10, <1>11, <1>12, <1>13
     DEF Advance

LEMMA NextGrows == HasHistory /\ [Next]_vars => Grows
<1> SUFFICES ASSUME HasHistory, [Next]_vars  PROVE Grows
  OBVIOUS
<1>1. CASE UNCHANGED vars  BY <1>1, SameGrows DEF vars
<1>2. ASSUME NEW r \in Runs, Request(r)  PROVE Grows
  <2>1. ASSUME NEW kind, NEW id, NEW to, NEW redirect, NEW recursively, NEW at,
               Begin(r, kind, id, to, redirect, recursively, at)
        PROVE  Grows
    BY <2>1 DEF Begin, Grows, HasHistory
  <2>2. ASSUME NEW i \in Ids, NEW to, NEW redirect, BeginRename(r, i, to, redirect)
        PROVE  Grows
    <3>1. PICK yes : yes = TRUE  OBVIOUS
    <3> QED  BY <2>1, <2>2, <3>1 DEF BeginRename
  <2>3. ASSUME NEW path, BeginCreate(r, path)  PROVE Grows
    <3>1. PICK no : no = FALSE  OBVIOUS
    <3> QED  BY <2>1, <2>3, <3>1 DEF BeginCreate
  <2>4. ASSUME NEW i \in Ids, NEW recursively,
               BeginDelete(r, i, recursively) \/ BeginErase(r, i, recursively)
        PROVE  Grows
    <3>1. PICK no : no = FALSE  OBVIOUS
    <3> QED  BY <2>1, <2>4, <3>1 DEF BeginDelete, BeginErase
  <2> QED  BY <1>2, <2>2, <2>3, <2>4 DEF Request
<1>3. ASSUME NEW r \in Runs, Advance(r)  PROVE Grows  BY <1>3, AdvanceGrows
<1>4. ASSUME NEW r \in Runs, ExtendExpiryDate(r) \/ AwaitFails(r)  PROVE Grows
  BY <1>4, SameGrows, ThrowGrows DEF ExtendExpiryDate, AwaitFails
<1>5. ASSUME NEW r \in Runs, NEW x, BatchFails(r, x)  PROVE Grows
  BY <1>5 DEF BatchFails, Damage, Grows, HasHistory
<1>6. ASSUME NEW o \in Runs, TimePasses(o) \/ \E r \in Runs : Resume(o, r)  PROVE Grows
  <2>1. CASE TimePasses(o)  BY <2>1, SameGrows DEF TimePasses
  <2>2. CASE \E r \in Runs : Resume(o, r)
    BY <2>2 DEF Resume, Redone, Grows, HasHistory
  <2> QED  BY <1>6, <2>1, <2>2
<1>7. CASE Crash  BY <1>7 DEF Crash, Grows, HasHistory
<1>8. CASE Boot
  <2>1. \E c : history' = [history EXCEPT !.crowded = @ \/ c]  BY <1>8 DEF Boot, Redone
  <2> QED  BY <2>1 DEF Grows, HasHistory
<1> QED  BY <1>1, <1>2, <1>3, <1>4, <1>5, <1>6, <1>7, <1>8 DEF Next

-----------------------------------------------------------------------------
(* Each step keeps the operations apart.                                     *)
LEMMA AdvanceOrders ==
    ASSUME Typed, Ordered, NEW r \in Runs, Advance(r), Undisturbed'
    PROVE  Ordered'
<1> Held  BY DEF Typed
<1> ~history'.crowded /\ ~history'.damaged  BY DEF Undisturbed
<1>1. CASE \/ Insert(r) \/ Plant(r) \/ Graft(r) \/ Put(r) \/ Bump(r) \/ Stream(r)
           \/ BatchesEnd(r) \/ Unbump(r) \/ Shrunk(r) \/ Grown(r) \/ Prune(r) \/ Pruned(r)
           \/ ClearRedirect(r) \/ Prepare(r) \/ Adopt(r) \/ TrashTarget(r) \/ Signpost(r)
           \/ ErasePage(r) \/ EraseRedirects(r) \/ Erased(r)
  <2>1. GoesOn(r)
    BY <1>1, InsertGoes, PlantGoes, GraftGoes, PutGoes, BumpGoes, StreamGoes, BatchesEndGoes,
       UnbumpGoes, ShrunkGoes, GrownGoes, PruneGoes, PrunedGoes, ClearRedirectGoes, PrepareGoes,
       AdoptGoes, TrashTargetGoes, SignpostGoes, ErasePageGoes, EraseRedirectsGoes, ErasedGoes
  <2> QED  BY <2>1, GoingOnKeepsOrder
<1>2. CASE \/ TakeOff(r) \/ Find(r) \/ Link(r) \/ CreateRedirect(r) \/ Shrink(r) \/ Grow(r)
           \/ Save(r) \/ Replace(r)
  <2>1. Throw(r) \/ GoesOn(r)
    BY <1>2, TakeOffGoes, FindGoes, LinkGoes, CreateRedirectGoes, ShrinkGoes, GrowGoes, SaveGoes,
       ReplaceGoes
  <2>2. IsRun(work[r]) /\ up' = up
    BY <1>2, RunsAreRuns
       DEF Held, On, Unchanged, TakeOff, Find, Link, CreateRedirect, Shrink, Grow, Climb, Save,
           Replace
  <2> QED  BY <2>1, <2>2, GoingOnKeepsOrder, ThrowingKeepsOrder
<1>3. CASE SetStage(r)
  <2>1. IsRun(work[r]) /\ up' = up  BY <1>3, RunsAreRuns DEF Held, On, Unchanged, SetStage
  <2> QED  BY <1>3, <2>1, SetStageOrders, ThrowingKeepsOrder
<1>4. CASE Record(r) \/ RecordCreate(r) \/ RecordDelete(r)
  <2>1. Notes(r)  BY <1>4, RecordNotes, RecordCreateNotes, RecordDeleteNotes
  <2> QED  BY <2>1, NotingKeepsOrder
<1>5. CASE Recount(r) \/ Store(r)
  <2>1. Leaves(r) /\ ops' = ops  BY <1>5, RecountLeaves, StoreLeaves, SMTT(60)
  <2>2. work[r].at \in {"recount", "store"} /\ IsRun(work[r])
    BY <1>5, RunsAreRuns DEF Recount, Store, On, Held
  <2>3. ~Holding(work[r].kind, work[r].at)  BY <2>2 DEF Holding
  <2> QED  BY <2>1, <2>3, EndingKeepsOrder
<1>6. CASE Done(r)
  <2>1. /\ Leaves(r) /\ work[r].at \in {"done", "answered"}
        /\ On(r, "done") => ops' = [ops EXCEPT ![work[r].op] = NoOp]
    BY <1>6, DoneLeaves
  <2>2. Holding(work[r].kind, work[r].at) => On(r, "done")  BY <2>1 DEF Holding, On
  <2>3. IsRun(work[r]) /\ work[r].op \in Runs  BY <2>1 DEF Leaves, IsRun
  <2>4. On(r, "done") => work[r].op \notin Recorded'  BY <2>1, <2>3 DEF Held, Recorded
  <2> QED  BY <2>1, <2>2, <2>4, EndingKeepsOrder
<1>7. CASE Cleanup(r)
  <2>1. /\ Leaves(r) /\ ops' = [ops EXCEPT ![work[r].op] = NoOp]
    BY <1>7, CleanupLeaves
  <2>2. work[r].op \in Runs  BY <2>1 DEF Leaves, IsRun
  <2>3. work[r].op \notin Recorded'  BY <2>1, <2>2 DEF Held, Recorded
  <2> QED  BY <2>1, <2>3, EndingKeepsOrder
<1>8. CASE Check(r)
  <2>1. CASE Leaves(r) /\ UNCHANGED ops
    <3>1. work[r].at = "check"  BY <1>8 DEF Check, On
    <3>2. ~Holding(work[r].kind, work[r].at)  BY <3>1 DEF Holding
    <3> QED  BY <2>1, <3>2, EndingKeepsOrder
  <2>2. CASE Claims(r)  BY <2>2, ClaimingKeepsOrder
  <2> QED  BY <1>8, <2>1, <2>2, CheckClaims
<1>9. CASE On(r, "batch") /\ \E x \in work[r].todo : Batch(r, x)
  BY <1>9, BatchGoes, GoingOnKeepsOrder
<1> QED
  BY Zenon, <1>1, <1>2, <1>3, <1>4, <1>5, <1>6, <1>7, <1>8, <1>9 DEF Advance

LEMMA NextOrders ==
    ASSUME Typed, Ordered, Placed(pages), [Next]_vars, Undisturbed'
    PROVE  Ordered'
<1> Held  BY DEF Typed
<1> ~history'.crowded /\ ~history'.damaged  BY DEF Undisturbed
<1>1. CASE UNCHANGED vars
  <2>1. /\ UNCHANGED <<ops, up, work>> /\ Recorded' = Recorded
        /\ \A r : (Open(r)' <=> Open(r)) /\ \A o : Holds(r, o)' <=> Holds(r, o)
    BY <1>1 DEF vars, Recorded, Open, Holds
  <2>2. Settled /\ NoneOpens
    BY <2>1 DEF Settled, NoneOpens, Claiming, Claim, Broad, Passed, SameClaim, On, Create
  <2>3. OneHolds' /\ DeeperHeld'  BY <2>1, HoldersStay
  <2>4. RunsFit'
    <3>1. RunsFit  BY DEF Ordered
    <3> QED  BY <2>1, <3>1 DEF RunsFit
  <2>5. Agreed'
    <3>1. Agreed  BY DEF Ordered
    <3> QED  BY <2>1, <3>1 DEF Agreed, Agrees
  <2> QED
    BY <2>1, <2>2, <2>3, <2>4, <2>5, OneOpenStays, SeenStays, ApartStays, OutsideStays DEF Ordered
<1>2. ASSUME NEW r \in Runs, Request(r)  PROVE Ordered'
  BY <1>2, RequestBegins, BeginningKeepsOrder
<1>3. ASSUME NEW r \in Runs, Advance(r)  PROVE Ordered'  BY <1>3, AdvanceOrders
<1>4. ASSUME NEW r \in Runs, ExtendExpiryDate(r)  PROVE Ordered'
  BY <1>4, ExtendExpiryDateGoes, GoingOnKeepsOrder
<1>5. ASSUME NEW r \in Runs, AwaitFails(r)  PROVE Ordered'
  <2>1. IsRun(work[r])
    BY <1>5 DEF AwaitFails, InFlight, Typed, Held, WorkShape, Idle, Over
  <2> QED  BY <1>5, <2>1, ThrowingKeepsOrder DEF AwaitFails
<1>6. ASSUME NEW r \in Runs, NEW x, BatchFails(r, x)  PROVE Ordered'
  BY <1>6, BatchFailsGoes, GoingOnKeepsOrder
<1>7. ASSUME NEW o \in Runs, TimePasses(o)  PROVE Ordered'  BY <1>7, TimeOrders
<1>8. ASSUME NEW o \in Runs, NEW r \in Runs, Resume(o, r)  PROVE Ordered'
  BY <1>8, ResumeResumes, ResumingKeepsOrder
<1>9. CASE Crash  BY <1>9, CrashKeepsOrder
<1>10. CASE Boot  BY <1>10, BootResumes, ResumingKeepsOrder
<1> QED
  BY Zenon, <1>1, <1>2, <1>3, <1>4, <1>5, <1>6, <1>7, <1>8, <1>9, <1>10 DEF Next

-----------------------------------------------------------------------------
(* Each step keeps the pages nested.                                         *)
LEMMA AdvanceNests ==
    ASSUME Typed, Typed', Ordered, Ordered', NEW fam, NEW left, Nested(fam, left), KindsKept,
           NEW r \in Runs, Advance(r), Undisturbed'
    PROVE  \E fam2, left2 : Nested(fam2, left2)'
<1> /\ ~history'.crowded /\ ~history'.damaged /\ ~history'.stale /\ ~history'.doubled
  BY DEF Undisturbed
<1>1. CASE \/ Insert(r) \/ Plant(r) \/ Graft(r) \/ Bump(r) \/ Stream(r)
           \/ BatchesEnd(r) \/ Unbump(r) \/ Shrunk(r) \/ Grown(r) \/ Prune(r) \/ Pruned(r)
  <2>1. Nested(fam, left)'
    BY <1>1, InsertNests, PlantNests, GraftNests, BumpNests, StreamNests, BatchesEndNests,
       UnbumpNests, ShrunkNests, GrownNests, PruneNests, PrunedNests
  <2> QED  BY <2>1
<1>2. CASE \/ ClearRedirect(r) \/ Prepare(r) \/ Adopt(r) \/ TrashTarget(r) \/ Signpost(r)
           \/ ErasePage(r) \/ EraseRedirects(r) \/ Erased(r)
  <2>1. Nested(fam, left)'
    BY <1>2, ClearRedirectNests, PrepareNests, AdoptNests, TrashTargetNests, SignpostNests,
       ErasePageNests, EraseRedirectsNests, ErasedNests
  <2> QED  BY <2>1
<1>3. CASE \/ TakeOff(r) \/ Find(r) \/ Link(r) \/ CreateRedirect(r) \/ Shrink(r) \/ Grow(r)
           \/ Save(r) \/ Replace(r) \/ SetStage(r)
  <2>1. Nested(fam, left)'
    BY <1>3, TakeOffNests, FindNests, LinkNests, CreateRedirectNests, ShrinkNests, GrowNests,
       SaveNests, ReplaceNests, SetStageNests
  <2> QED  BY <2>1
<1>4. CASE \/ Record(r) \/ RecordCreate(r) \/ RecordDelete(r) \/ Recount(r) \/ Store(r)
           \/ Done(r) \/ Cleanup(r)
  <2>1. Nested(fam, left)'
    BY <1>4, RecordNests, RecordCreateNests, RecordDeleteNests, RecountNests, StoreNests,
       DoneNests, CleanupNests
  <2> QED  BY <2>1
<1>5. CASE Put(r)
  <2>1. \E left2 : Nested(fam, left2)'  BY <1>5, PutNests
  <2> QED  BY <2>1
<1>6. CASE On(r, "batch") /\ \E x \in work[r].todo : Batch(r, x)
  <2>1. \E left2 : Nested(fam, left2)'  BY <1>6, BatchNests
  <2> QED  BY <2>1
<1>7. CASE Check(r)  BY <1>7, CheckNests
<1> QED  BY Zenon, <1>1, <1>2, <1>3, <1>4, <1>5, <1>6, <1>7 DEF Advance

LEMMA NextNests ==
    ASSUME Typed, Typed', Ordered, Ordered', NEW fam, NEW left, Nested(fam, left), KindsKept,
           [Next]_vars, Undisturbed'
    PROVE  \E fam2, left2 : Nested(fam2, left2)'
<1> /\ ~history'.crowded /\ ~history'.damaged
  BY DEF Undisturbed
<1>1. CASE UNCHANGED vars
  <2>1. /\ work' = work /\ ops' = ops /\ pages' = pages /\ Recorded' = Recorded
        /\ \A s, o \in Runs : Holds(s, o)' <=> Holds(s, o)
    BY <1>1 DEF vars, Recorded, Holds
  <2>2. SamePlaces(pages, pages')  BY <2>1, KeptPlaces
  <2>3. \A q \in Runs : Still(q)
    BY <2>1, StillOnes DEF Alike
  <2>4. Housed(fam)' = Housed(fam)
    <3> SUFFICES ASSUME NEW o \in Runs  PROVE Housed(fam)' = Housed(fam)
      BY DEF Housed
    <3>1. Broad(o)' => House(o, fam[o])' = House(o, fam[o])
      BY <2>3, StillSame DEF Still, Broad
    <3>2. Broad(o)' <=> Broad(o)  BY <2>3 DEF Still
    <3> QED  BY <2>3, <3>1, <3>2, QuietHoused
  <2>5. Steady(pages, pages', Housed(fam)) /\ Coherent(pages', Housed(fam)')
    BY <2>2, <2>4, SameIsQuiet DEF Nested
  <2>6. \A q \in Runs : Broad(q) => Untouched(pages, pages', Claimed(q), fam[q])
    BY <2>2, SameIsQuiet DEF Nested, Housings
  <2>7. \A s \in Runs : Open(s) => Spared(s, fam)
    BY <2>1, <2>2, SameIsSpared
  <2>8. Ids \subseteq Ids'  BY <2>1 DEF Ids
  <2> DEFINE N == {}
  <2>9. N \in SUBSET Runs /\ \A x : x \notin N  OBVIOUS
  <2> HIDE DEF N
  <2>10. /\ \A q \in Runs \ N : Still(q) /\ fam[q] = fam[q] /\ left[q] = left[q]
         /\ \A q \in Runs \ N : Broad(q) => Untouched(pages, pages', Claimed(q), fam[q])
         /\ \A s \in Runs \ N : work'[s] = work[s]
         /\ \A s \in Runs \ N : Open(s) => Spared(s, fam)
    BY <2>1, <2>3, <2>6, <2>7
  <2>11. Nested(fam, left)'  BY <2>5, <2>8, <2>9, <2>10, ActNests
  <2> QED  BY <2>11
<1>2. ASSUME NEW r \in Runs, Request(r)  PROVE \E fam2, left2 : Nested(fam2, left2)'
  <2>1. Nested(fam, left)'  BY <1>2, RequestNests
  <2> QED  BY <2>1
<1>3. ASSUME NEW r \in Runs, Advance(r)  PROVE \E fam2, left2 : Nested(fam2, left2)'
  BY <1>3, AdvanceNests
<1>4. ASSUME NEW r \in Runs, ExtendExpiryDate(r) \/ AwaitFails(r)
      PROVE  \E fam2, left2 : Nested(fam2, left2)'
  <2>1. Nested(fam, left)'  BY <1>4, ExtendExpiryDateNests, AwaitFailsNests
  <2> QED  BY <2>1
<1>5. ASSUME NEW r \in Runs, NEW x, BatchFails(r, x)  PROVE FALSE
  BY <1>5 DEF BatchFails, Damage, Typed, Held, HasHistory
<1>6. ASSUME NEW o \in Runs, TimePasses(o) \/ \E r \in Runs : Resume(o, r)
      PROVE  \E fam2, left2 : Nested(fam2, left2)'
  <2>1. Nested(fam, left)'  BY <1>6, TimePassesNests, ResumeNests
  <2> QED  BY <2>1
<1>7. CASE Crash \/ Boot
  <2>1. Nested(fam, left)'  BY <1>7, CrashNests, BootNests
  <2> QED  BY <2>1
<1> QED  BY Zenon, <1>1, <1>2, <1>3, <1>4, <1>5, <1>6, <1>7 DEF Next

-----------------------------------------------------------------------------
(* Kinds.  A removal that goes on to the descendants is recursive, whatever  *)
(* has happened to the tree.                                                 *)
Beyond == {"recordDelete", "stream", "batch"}
Lasting(w) ==
    /\ w.kind \in {"delete", "erase"} /\ w.at \in Beyond => w.recursively
    /\ w.kind = "delete" => w.at # "erase"
    /\ w.kind = "erase" => w.at # "trash"
Removing == \A r \in Runs : IsRun(work[r]) => Lasting(work[r])

(* A step of a run that neither learns of a page to fill nor of pages to     *)
(* delete, but as they are; and what it may do to the kinds of the pages.    *)
Sorted(todo) == \A x \in todo : x[1] \in Ids /\ (x[3] = "page" \/ pages[x[1]].kind # "page")
Walks(r) ==
    /\ \A s \in Runs \ {r} : work'[s] = work[s]
    /\ IsRun(work'[r]) =>
          /\ IsRun(work[r]) /\ work'[r].kind = work[r].kind /\ Lasting(work'[r])
          /\ Fills(r)' => Fills(r) /\ work'[r].id = work[r].id
          /\ work[r].kind = "delete" /\ work'[r].at = "batch" =>
                \/ work[r].at = "batch" /\ work'[r].todo \subseteq work[r].todo
                \/ Sorted(work'[r].todo)

Changes ==
    \A i \in Ids :
        /\ pages'[i].kind = "page" => pages[i].kind = "page" \/ \E s \in Runs : Fills(s)
        /\ pages'[i].kind = "trash" =>
              pages[i].kind = "trash" \/ \E s \in Runs : IsRun(work[s]) /\ Delete(s)
Spares ==
    \A i \in Ids : pages[i].kind = "page" =>
        pages'[i].kind \in {"page", "trash"} \/ AskedToErase(i)
SameKinds == \A i \in Ids : pages'[i].kind = pages[i].kind

LEMMA SameKindsSpare ==
    ASSUME SameKinds
    PROVE  Changes /\ Spares
BY DEF SameKinds, Changes, Spares

LEMMA WalkingKeeps ==
    ASSUME Typed, KindsKept, Removing, NEW r \in Runs, Walks(r), Changes
    PROVE  KindsKept' /\ Removing'
<1>1. \A s \in Runs : IsRun(work'[s]) =>
        /\ IsRun(work[s]) /\ Lasting(work'[s]) /\ (Delete(s)' <=> Delete(s))
  <2> SUFFICES ASSUME NEW s \in Runs, IsRun(work'[s])
               PROVE  IsRun(work[s]) /\ Lasting(work'[s]) /\ work'[s].kind = work[s].kind
    BY DEF Delete
  <2>1. CASE s = r  BY <2>1 DEF Walks
  <2>2. CASE s # r  BY <2>2 DEF Walks, Removing
  <2> QED  BY <2>1, <2>2
<1>2. \A s \in Runs : Fills(s)' =>
        Fills(s) /\ work'[s].id = work[s].id /\ work[s].id \in Ids
  <2> SUFFICES ASSUME NEW s \in Runs, Fills(s)'
               PROVE  Fills(s) /\ work'[s].id = work[s].id /\ work[s].id \in Ids
    OBVIOUS
  <2>1. Fills(s) /\ work'[s].id = work[s].id
    <3>1. CASE s = r  BY <3>1 DEF Walks, Fills
    <3>2. CASE s # r  BY <3>2 DEF Walks, Fills, Open, Create, On
    <3> QED  BY <3>1, <3>2
  <2>2. RunTyped(work[s], Ids) /\ work[s].id # NoId  BY <2>1 DEF Typed, Fills
  <2> QED  BY <2>1, <2>2 DEF RunTyped
<1>3. \A s \in Runs : IsRun(work'[s]) /\ Delete(s)' /\ On(s, "batch")' =>
        Sorted(work'[s].todo)
  <2> SUFFICES ASSUME NEW s \in Runs, IsRun(work'[s]), Delete(s)', On(s, "batch")'
               PROVE  Sorted(work'[s].todo)
    OBVIOUS
  <2>1. IsRun(work[s]) /\ Delete(s)  BY <1>1
  <2>2. \/ On(s, "batch") /\ work'[s].todo \subseteq work[s].todo
        \/ Sorted(work'[s].todo)
    BY <2>1 DEF Walks, Delete, On
  <2>3. On(s, "batch") => Sorted(work[s].todo)
    <3>1. StageTyped(work[s], Ids)  BY <2>1 DEF Typed
    <3> QED  BY <2>1, <3>1 DEF StageTyped, On, KindsKept, Sorted
  <2> QED  BY <2>2, <2>3 DEF Sorted
<1>4. \A p, s \in Runs : Fills(p)' /\ IsRun(work'[s]) => ~Delete(s)'
  BY <1>1, <1>2 DEF KindsKept
<1>5. ASSUME NEW s \in Runs, Fills(s)'  PROVE pages'[work'[s].id].kind # "trash"
  <2>1. Fills(s) /\ work'[s].id = work[s].id /\ work[s].id \in Ids  BY <1>2, <1>5
  <2>2. pages[work[s].id].kind # "trash" /\ ~\E q \in Runs : IsRun(work[q]) /\ Delete(q)
    BY <2>1 DEF KindsKept
  <2> QED  BY <2>1, <2>2 DEF Changes
<1>6. ASSUME NEW s \in Runs, IsRun(work'[s]), Delete(s)', On(s, "batch")', NEW x \in work'[s].todo
      PROVE  x[3] = "page" \/ pages'[x[1]].kind # "page"
  <2>1. IsRun(work[s]) /\ Delete(s) /\ Sorted(work'[s].todo)  BY <1>1, <1>3, <1>6
  <2>2. ~\E q \in Runs : Fills(q)  BY <2>1 DEF KindsKept
  <2> QED  BY <1>6, <2>1, <2>2 DEF Changes, Sorted
<1> QED  BY <1>1, <1>4, <1>5, <1>6 DEF KindsKept, Removing

-----------------------------------------------------------------------------
(* A run goes on to another place with all that it claims.                   *)
FillAts == {"clear", "prepare", "find", "insert", "link", "save"}
Turns(r, to) ==
    IsRun(work[r]) /\ Moves(r) /\ Unmoved(work[r], work'[r]) /\ work'[r].at = to
Leads(kind, recursively, from, to) ==
    /\ kind = "create" /\ to \in FillAts => from \in FillAts
    /\ kind = "delete" => to # "batch" /\ to # "erase"
    /\ kind = "erase" => to # "trash"
    /\ kind \in {"delete", "erase"} /\ to \in Beyond => recursively \/ from \in Beyond

LEMMA TurningWalks ==
    ASSUME Held, Removing, NEW r \in Runs, NEW to, Turns(r, to),
           \/ Leads(work[r].kind, work[r].recursively, work[r].at, to)
           \/ to = work[r].at /\ work'[r].todo \subseteq work[r].todo
    PROVE  Walks(r)
<1>1. \A s \in Runs \ {r} : work'[s] = work[s]  BY DEF Held, WorkShape, Turns, Moves
<1>2. /\ IsRun(work[r]) /\ work'[r].kind = work[r].kind /\ work'[r].at = to
      /\ work'[r].id = work[r].id /\ work'[r].recursively = work[r].recursively
  BY DEF Turns, Unmoved
<1>3. Lasting(work[r])  BY <1>2 DEF Removing
<1>4. Lasting(work'[r])  BY <1>2, <1>3 DEF Lasting, Leads
<1>5. Fills(r)' => Fills(r)
  <2> SUFFICES ASSUME Fills(r)'  PROVE Fills(r)
    OBVIOUS
  <2>1. work'[r].kind = "create" /\ work'[r].id # NoId /\ work'[r].at \in FillAts
    BY DEF Fills, Open, Create, On, Early, FillAts
  <2>2. work[r].at \in FillAts  BY <1>2, <2>1 DEF Leads
  <2> QED  BY <1>2, <2>1, <2>2 DEF Fills, Open, Create, On, Early, FillAts
<1>6. work[r].kind = "delete" /\ work'[r].at = "batch" =>
          work[r].at = "batch" /\ work'[r].todo \subseteq work[r].todo
  BY <1>2 DEF Leads
<1> QED  BY <1>1, <1>2, <1>4, <1>5, <1>6 DEF Walks

LEMMA GoingTurns ==
    ASSUME Held, NEW r \in Runs, IsRun(work[r]), NEW to, Go(r, to)
    PROVE  Turns(r, to)
<1>1. Moves(r) /\ work'[r] = [work[r] EXCEPT !.at = to]  BY DEF Held, WorkShape, Go, Moves
<1>2. Unmoved(work[r], work'[r]) /\ work'[r].at = to  BY <1>1 DEF IsRun, HasFields, Unmoved
<1> QED  BY <1>1, <1>2 DEF Turns

LEMMA EndingWalks ==
    ASSUME Held, NEW r \in Runs, End(r)
    PROVE  Walks(r)
<1>1. work'[r] = Over /\ \A s \in Runs \ {r} : work'[s] = work[s]  BY DEF Held, WorkShape, End
<1> QED  BY <1>1, RunIsNeither DEF Walks

LEMMA ThrowingWalks ==
    ASSUME Held, Removing, NEW r \in Runs, IsRun(work[r]), Throw(r)
    PROVE  Walks(r) /\ SameKinds
<1>1. SameKinds  BY DEF Throw, SameKinds
<1>2. CASE End(r)  BY <1>1, <1>2, EndingWalks
<1>3. CASE Go(r, "cleanup")
  <2>1. Leads(work[r].kind, work[r].recursively, work[r].at, "cleanup")
    BY DEF Leads, FillAts, Beyond
  <2> QED  BY <1>1, <1>3, <2>1, GoingTurns, TurningWalks
<1> QED  BY <1>2, <1>3 DEF Throw

LEMMA PlacesKeepKinds ==
    ASSUME SamePlaces(pages, pages')
    PROVE  SameKinds
BY DEF SamePlaces, Stays, SameKinds, Ids

(* The steps that leave the pages' kinds alone.                              *)
LEMMA GoingWalks ==
    ASSUME Held, Removing, NEW r \in Runs, IsRun(work[r]), NEW to, Go(r, to),
           Leads(work[r].kind, work[r].recursively, work[r].at, to)
    PROVE  Walks(r)
BY GoingTurns, TurningWalks

LEMMA PassingWalks ==
    ASSUME Typed, Removing, NEW r \in Runs,
           \/ Record(r) \/ Signpost(r) \/ ClearRedirect(r) \/ RecordCreate(r) \/ RecordDelete(r)
           \/ Erased(r) \/ BatchesEnd(r) \/ Bump(r) \/ Unbump(r)
    PROVE  Walks(r) /\ SameKinds
<1> Held  BY DEF Typed
<1>1. IsRun(work[r])
  BY RunsAreRuns DEF Held, Record, Signpost, ClearRedirect, RecordCreate, RecordDelete, Erased,
     BatchesEnd, Bump, Unbump, On
<1>2. SameKinds
  <2>1. CASE Bump(r) \/ Unbump(r)
    <3>1. \E n : pages' = Increased({work[r].parent}, n)  BY <2>1 DEF Bump, Unbump
    <3> QED  BY <3>1, CountedPlaces, PlacesKeepKinds DEF Typed
  <2>2. CASE ~(Bump(r) \/ Unbump(r))
    <3>1. pages' = pages
      BY <2>2 DEF Record, Signpost, ClearRedirect, RecordCreate, RecordDelete, Erased, BatchesEnd
    <3> QED  BY <3>1 DEF SameKinds
  <2> QED  BY <2>1, <2>2
<1>3. PICK from, to : /\ work[r].at = from /\ Go(r, to)
                      /\ \/ from = "record" /\ to = "takeOff"
                         \/ from = "signpost" /\ to = "shrink"
                         \/ from = "clear" /\ to = "prepare"
                         \/ from = "recordCreate" /\ to = "grow"
                         \/ from = "recordDelete" /\ to = "stream"
                         \/ from = "erase" /\ to = "prune"
                         \/ from = "batch" /\ to \in {"unbump", "done"}
                         \/ from = "bump" /\ to \in {"redirect", "stage"}
                         \/ from = "unbump" /\ to = "shrink"
  BY DEF Record, Signpost, ClearRedirect, RecordCreate, RecordDelete, Erased, BatchesEnd, Bump,
     Unbump, On
<1>4. Leads(work[r].kind, work[r].recursively, work[r].at, to)
  BY <1>1, <1>3 DEF Leads, FillAts, Beyond, IsRun, Early, Holding, Late
<1> QED  BY <1>1, <1>2, <1>3, <1>4, GoingWalks

LEMMA ReparentedKinds ==
    ASSUME Typed, NEW i \in Ids, NEW parent
    PROVE  [pages[i] EXCEPT !.parent = parent].kind = pages[i].kind
<1>1. IsDocument(pages[i], Ids)  BY DEF Typed, IsCollection, Ids
<1> QED  BY <1>1 DEF IsDocument

LEMMA TakeOffWalks ==
    ASSUME Typed, Removing, NEW r \in Runs, TakeOff(r)
    PROVE  Walks(r) /\ SameKinds
<1> Held  BY DEF Typed
<1>1. IsRun(work[r]) /\ work[r].at = "takeOff"  BY RunsAreRuns DEF Held, TakeOff, On
<1>2. CASE ~Throw(r)
  <2>1. Go(r, "find") /\ pages' = [pages EXCEPT ![work[r].id].parent = NoId]
    BY <1>2 DEF TakeOff
  <2>2. Leads(work[r].kind, work[r].recursively, work[r].at, "find")
    BY <1>1 DEF Leads, FillAts, Beyond, IsRun, Early, Holding, Late
  <2>3. ASSUME NEW i \in Ids  PROVE pages'[i].kind = pages[i].kind
    <3>1. pages'[i] = pages[i] \/ pages'[i] = [pages[i] EXCEPT !.parent = NoId]
      BY <2>1 DEF Ids
    <3> QED  BY <3>1, ReparentedKinds
  <2> QED  BY <1>1, <2>1, <2>2, <2>3, GoingWalks DEF SameKinds
<1> QED  BY <1>1, <1>2, ThrowingWalks

LEMMA SetStageWalks ==
    ASSUME Typed, Removing, NEW r \in Runs, SetStage(r) \/ CreateRedirect(r)
    PROVE  Walks(r) /\ SameKinds
<1> Held  BY DEF Typed
<1>1. IsRun(work[r]) /\ work[r].at \in {"stage", "redirect"}
  BY RunsAreRuns DEF Held, SetStage, CreateRedirect, On
<1>2. CASE ~Throw(r)
  <2>1. PICK to \in {"stream", "stage"} : Go(r, to)  BY <1>2 DEF SetStage, CreateRedirect
  <2>2. SameKinds  BY <1>2 DEF SetStage, CreateRedirect, SameKinds
  <2>3. Leads(work[r].kind, work[r].recursively, work[r].at, to)
    BY <1>1, <2>1 DEF Leads, FillAts, Beyond, IsRun, Early, Holding, Late
  <2> QED  BY <1>1, <2>1, <2>2, <2>3, GoingWalks
<1> QED  BY <1>1, <1>2, ThrowingWalks

LEMMA CheckWalks ==
    ASSUME Typed, Removing, NEW r \in Runs, Check(r)
    PROVE  Walks(r) /\ SameKinds
<1> Held  BY DEF Typed
<1>1. IsRun(work[r]) /\ work[r].at = "check"  BY RunsAreRuns DEF Held, Check, On
<1>2. SameKinds  BY DEF Check, SameKinds
<1>3. CASE End(r)  BY <1>2, <1>3, EndingWalks
<1>4. CASE ~End(r)
  <2>1. PICK to \in {"record", "replace", "trash", "shrink"} :
          Go(r, to) /\ (to = "trash" => work[r].kind = "delete")
    BY <1>4 DEF Check, Delete
  <2>2. Leads(work[r].kind, work[r].recursively, work[r].at, to)
    BY <1>1, <2>1 DEF Leads, FillAts, Beyond, IsRun, Early, Holding, Late
  <2> QED  BY <1>1, <1>2, <2>1, <2>2, GoingWalks
<1> QED  BY <1>3, <1>4

LEMMA AdoptWalks ==
    ASSUME Typed, Removing, NEW r \in Runs, Adopt(r)
    PROVE  Walks(r) /\ SameKinds
<1> Held  BY DEF Typed
<1>1. IsRun(work[r]) /\ work[r].at = "adopt"  BY RunsAreRuns DEF Held, Adopt, On
<1>2. PICK to \in {"trash", "shrink"} : Go(r, to) /\ (to = "trash" => work[r].kind = "delete")
  BY DEF Adopt, Delete
<1>3. Leads(work[r].kind, work[r].recursively, work[r].at, to)
  BY <1>1, <1>2 DEF Leads, FillAts, Beyond, IsRun, Early, Holding, Late
<1>4. ASSUME NEW i \in Ids  PROVE pages'[i].kind = pages[i].kind
  <2>1. pages'[i] = pages[i] \/ pages'[i] = [pages[i] EXCEPT !.parent = work[r].parent]
    BY DEF Adopt
  <2> QED  BY <2>1, ReparentedKinds
<1> QED  BY <1>1, <1>2, <1>3, <1>4, GoingWalks DEF SameKinds

LEMMA PutWalks ==
    ASSUME Typed, Removing, NEW r \in Runs, Put(r)
    PROVE  Walks(r) /\ SameKinds
<1> Held  BY DEF Typed
<1>1. IsRun(work[r]) /\ work[r].at = "put"  BY RunsAreRuns DEF Held, Put, On
<1>2. Go(r, "bump")  BY DEF Put
<1>3. Leads(work[r].kind, work[r].recursively, work[r].at, "bump")
  BY <1>1, <1>2 DEF Leads, FillAts, Beyond, IsRun, Early, Holding, Late
<1>4. ASSUME NEW i \in Ids  PROVE pages'[i].kind = pages[i].kind
  <2>1. \/ pages'[i] = pages[i]
        \/ pages'[i] = [pages[i] EXCEPT !.path = work[r].to, !.parent = work[r].parent]
    BY DEF Put, Ids, Found
  <2>2. IsDocument(pages[i], Ids)  BY DEF Typed, IsCollection, Ids
  <2> QED  BY <2>1, <2>2 DEF IsDocument
<1> QED  BY <1>1, <1>2, <1>3, <1>4, GoingWalks DEF SameKinds

LEMMA JoinedKinds ==
    ASSUME NEW more, pages' = Joined(pages, more)
    PROVE  SameKinds
BY DEF Joined, SameKinds, Ids

LEMMA FindWalks ==
    ASSUME Typed, Removing, NEW r \in Runs, Find(r)
    PROVE  Walks(r) /\ SameKinds
<1> Held  BY DEF Typed
<1>1. IsRun(work[r]) /\ work[r].at = "find"  BY RunsAreRuns, SMTT(60) DEF Held, Find, On
<1>2. CASE ~Throw(r)
  <2>1. SameKinds  BY <1>2 DEF Find, SameKinds
  <2>2. \/ Go(r, "plant")
        \/ \E i : work' = [work EXCEPT ![r] = [@ EXCEPT
                    !.at = IF Rename(r) THEN "put" ELSE "save", !.parent = i]]
        \/ \E todo : work' = [work EXCEPT ![r] = [@ EXCEPT !.at = "insert", !.todo = todo]]
    BY <1>2 DEF Find
  <2>3. ASSUME NEW to \in {"plant", "put", "save", "insert"}, Turns(r, to)  PROVE Walks(r)
    <3>1. Leads(work[r].kind, work[r].recursively, work[r].at, to)
      BY <1>1, <2>3 DEF Leads, FillAts, Beyond, IsRun, Early, Holding, Late
    <3> QED  BY <2>3, <3>1, TurningWalks
  <2>4. CASE Go(r, "plant")  BY <1>1, <2>1, <2>3, <2>4, GoingTurns
  <2>5. ASSUME NEW i, NEW at \in {"put", "save"},
               work' = [work EXCEPT ![r] = [@ EXCEPT !.at = at, !.parent = i]]
        PROVE  Walks(r)
    <3>1. Moves(r) /\ work'[r] = [work[r] EXCEPT !.at = at, !.parent = i]
      BY <2>5 DEF Held, WorkShape, Moves
    <3>2. Unmoved(work[r], work'[r]) /\ work'[r].at = at
      BY <1>1, <3>1 DEF IsRun, HasFields, Unmoved
    <3> QED  BY <1>1, <2>3, <3>1, <3>2 DEF Turns
  <2>6. ASSUME NEW todo, work' = [work EXCEPT ![r] = [@ EXCEPT !.at = "insert", !.todo = todo]]
        PROVE  Walks(r)
    <3>1. Moves(r) /\ work'[r] = [work[r] EXCEPT !.at = "insert", !.todo = todo]
      BY <2>6 DEF Held, WorkShape, Moves
    <3>2. Unmoved(work[r], work'[r]) /\ work'[r].at = "insert"
      BY <1>1, <3>1 DEF IsRun, HasFields, Unmoved
    <3> QED  BY <1>1, <2>3, <3>1, <3>2 DEF Turns
  <2> QED  BY <2>1, <2>2, <2>4, <2>5, <2>6, ZenonT(60)
<1> QED  BY <1>1, <1>2, ThrowingWalks

LEMMA InsertWalks ==
    ASSUME Typed, Removing, NEW r \in Runs, Insert(r)
    PROVE  Walks(r) /\ SameKinds
<1> Held  BY DEF Typed
<1>1. IsRun(work[r]) /\ work[r].at = "insert"  BY RunsAreRuns DEF Held, Insert, On
<1>2. SameKinds  BY JoinedKinds DEF Insert, Inserted
<1>3. Moves(r) /\ work'[r] = [work[r] EXCEPT !.at = "link", !.todo = {}]
  BY <1>1 DEF Held, WorkShape, Moves, Insert
<1>4. Unmoved(work[r], work'[r]) /\ work'[r].at = "link"
  BY <1>1, <1>3 DEF IsRun, HasFields, Unmoved
<1>5. Leads(work[r].kind, work[r].recursively, work[r].at, "link")
  BY <1>1 DEF Leads, FillAts, Beyond, IsRun, Early, Holding, Late
<1> QED  BY <1>1, <1>2, <1>3, <1>4, <1>5, TurningWalks DEF Turns

LEMMA PlantWalks ==
    ASSUME Typed, Removing, NEW r \in Runs, Plant(r)
    PROVE  Walks(r) /\ SameKinds
<1> Held  BY DEF Typed
<1>1. IsRun(work[r]) /\ work[r].at = "plant"  BY RunsAreRuns DEF Held, Plant, On
<1>2. SameKinds  BY JoinedKinds DEF Plant, Inserted
<1>3. PICK ids : work' = [work EXCEPT ![r].at = "graft", ![r].ids = ids]  BY DEF Plant
<1>4. Moves(r) /\ work'[r] = [work[r] EXCEPT !.at = "graft", !.ids = ids]
  BY <1>1, <1>3 DEF Held, WorkShape, Moves
<1>5. Unmoved(work[r], work'[r]) /\ work'[r].at = "graft"
  BY <1>1, <1>4 DEF IsRun, HasFields, Unmoved
<1>6. Leads(work[r].kind, work[r].recursively, work[r].at, "graft")
  BY <1>1 DEF Leads, FillAts, Beyond, IsRun, Early, Holding, Late
<1> QED  BY <1>1, <1>2, <1>4, <1>5, <1>6, TurningWalks DEF Turns

LEMMA LinkWalks ==
    ASSUME Typed, Removing, NEW r \in Runs, Link(r)
    PROVE  Walks(r) /\ SameKinds
<1> Held  BY DEF Typed
<1>1. IsRun(work[r]) /\ work[r].at = "link"  BY RunsAreRuns DEF Held, Link, On
<1>2. CASE ~Throw(r)
  <2>1. PICK at, parent : /\ work' = [work EXCEPT ![r].at = at, ![r].parent = parent]
                          /\ at \in {"put", "save"}
    BY <1>2 DEF Link
  <2>2. Moves(r) /\ work'[r] = [work[r] EXCEPT !.at = at, !.parent = parent]
    BY <1>1, <2>1 DEF Held, WorkShape, Moves
  <2>3. Unmoved(work[r], work'[r]) /\ work'[r].at = at
    BY <1>1, <2>2 DEF IsRun, HasFields, Unmoved
  <2>4. Leads(work[r].kind, work[r].recursively, work[r].at, at)
    BY <1>1, <2>1 DEF Leads, FillAts, Beyond, IsRun, Early, Holding, Late
  <2>5. ASSUME NEW i \in Ids  PROVE pages'[i].kind = pages[i].kind
    <3>1. \/ pages'[i] = pages[i]
          \/ \E p : pages'[i] = [pages[i] EXCEPT !.parent = p]
      BY <1>2, ZenonT(60) DEF Link
    <3> QED  BY <3>1, ReparentedKinds
  <2> QED  BY <1>1, <2>2, <2>3, <2>4, <2>5, TurningWalks DEF Turns, SameKinds
<1> QED  BY <1>1, <1>2, ThrowingWalks

LEMMA GraftWalks ==
    ASSUME Typed, Removing, NEW r \in Runs, Graft(r)
    PROVE  Walks(r) /\ SameKinds
<1> Held  BY DEF Typed
<1>1. IsRun(work[r]) /\ work[r].at = "graft"  BY RunsAreRuns DEF Held, Graft, On
<1>2. PICK parent : work' = [work EXCEPT ![r].at = "put", ![r].parent = parent, ![r].ids = {}]
  BY DEF Graft
<1>3. Moves(r) /\ work'[r] = [work[r] EXCEPT !.at = "put", !.parent = parent, !.ids = {}]
  BY <1>1, <1>2 DEF Held, WorkShape, Moves
<1>4. Unmoved(work[r], work'[r]) /\ work'[r].at = "put"
  BY <1>1, <1>3 DEF IsRun, HasFields, Unmoved
<1>5. Leads(work[r].kind, work[r].recursively, work[r].at, "put")
  BY <1>1 DEF Leads, FillAts, Beyond, IsRun, Early, Holding, Late
<1>6. ASSUME NEW i \in Ids  PROVE pages'[i].kind = pages[i].kind
  <2>1. \/ pages'[i] = pages[i]
        \/ \E p : pages'[i] = [pages[i] EXCEPT !.parent = p]
    BY DEF Graft
  <2> QED  BY <2>1, ReparentedKinds
<1> QED  BY <1>1, <1>3, <1>4, <1>5, <1>6, TurningWalks DEF Turns, SameKinds

LEMMA ClimbWalks ==
    ASSUME Typed, Removing, NEW r \in Runs, Shrink(r) \/ Grow(r)
    PROVE  Walks(r) /\ SameKinds
<1> Held  BY DEF Typed
<1>1. IsRun(work[r]) /\ work[r].at \in {"shrink", "grow"}
  BY RunsAreRuns DEF Held, Shrink, Grow, Climb, On
<1>2. CASE ~Throw(r)
  <2>1. PICK to, ids : /\ work' = [work EXCEPT ![r].at = to, ![r].ids = ids]
                       /\ to \in {"shrunk", "grown"}
    BY <1>2 DEF Shrink, Grow, Climb
  <2>2. Moves(r) /\ work'[r] = [work[r] EXCEPT !.at = to, !.ids = ids]
    BY <1>1, <2>1 DEF Held, WorkShape, Moves
  <2>3. Unmoved(work[r], work'[r]) /\ work'[r].at = to
    BY <1>1, <2>2 DEF IsRun, HasFields, Unmoved
  <2>4. Leads(work[r].kind, work[r].recursively, work[r].at, to)
    BY <1>1, <2>1 DEF Leads, FillAts, Beyond, IsRun, Early, Holding, Late
  <2>5. SameKinds  BY <1>2 DEF Shrink, Grow, Climb, SameKinds
  <2> QED  BY <1>1, <2>2, <2>3, <2>4, <2>5, TurningWalks DEF Turns
<1> QED  BY <1>1, <1>2, ThrowingWalks DEF Shrink, Grow, Climb

LEMMA CountWalks ==
    ASSUME Typed, Removing, NEW r \in Runs, Shrunk(r) \/ Grown(r)
    PROVE  Walks(r) /\ SameKinds
<1> Held  BY DEF Typed
<1>1. IsRun(work[r]) /\ work[r].at \in {"shrunk", "grown"}
  BY RunsAreRuns DEF Held, Shrunk, Grown, Count, On
<1>2. PICK to, S, n : /\ work' = [work EXCEPT ![r].at = to, ![r].ids = {}]
                      /\ pages' = Increased(S, n)
                      /\ to = "erase" => ~Delete(r)
                      /\ to \in {"grow", "prune", "erase", "done"}
  <2>1. CASE Grown(r)  BY <2>1 DEF Grown, Count
  <2>2. CASE Shrunk(r)
    <3>1. Rename(r) \/ Delete(r) \/ Erase(r)
      BY <1>1, <2>2 DEF IsRun, Early, Holding, Late, Rename, Delete, Erase, Shrunk, Count, On
    <3> DEFINE to == CASE Rename(r) -> "grow" [] Delete(r) -> "prune" [] Erase(r) -> "erase"
    <3>2. to \in {"grow", "prune", "erase"} /\ (to = "erase" => ~Delete(r))
      BY <3>1 DEF Rename, Delete, Erase
    <3>3. work' = [work EXCEPT ![r].at = to, ![r].ids = {}] /\ \E S, n : pages' = Increased(S, n)
      BY <2>2 DEF Shrunk, Count
    <3> QED  BY <3>2, <3>3
  <2> QED  BY <2>1, <2>2
<1>3. Moves(r) /\ work'[r] = [work[r] EXCEPT !.at = to, !.ids = {}]
  BY <1>1, <1>2 DEF Held, WorkShape, Moves
<1>4. Unmoved(work[r], work'[r]) /\ work'[r].at = to
  BY <1>1, <1>3 DEF IsRun, HasFields, Unmoved
<1>5. Leads(work[r].kind, work[r].recursively, work[r].at, to)
  BY <1>1, <1>2 DEF Leads, FillAts, Beyond, IsRun, Early, Holding, Late, Delete
<1>6. SameKinds  BY <1>2, CountedPlaces, PlacesKeepKinds DEF Typed
<1> QED  BY <1>1, <1>3, <1>4, <1>5, <1>6, TurningWalks DEF Turns

LEMMA RecountWalks ==
    ASSUME Typed, Removing, NEW r \in Runs, Recount(r) \/ Store(r)
    PROVE  Walks(r) /\ SameKinds
<1> Held  BY DEF Typed
<1>1. IsRun(work[r]) /\ work[r].kind = "rename"
  BY RunsAreRuns DEF Held, Recount, Store, On, IsRun, Early, Holding, Late
<1>2. SameKinds
  <2> SUFFICES ASSUME NEW i \in Ids  PROVE pages'[i].kind = pages[i].kind
    BY DEF SameKinds
  <2>1. pages'[i] = pages[i] \/ pages'[i] = [pages[i] EXCEPT !.count = work[r].sum]
    BY DEF Recount, Store
  <2>2. IsDocument(pages[i], Ids)  BY DEF Typed, IsCollection, Ids
  <2> QED  BY <2>1, <2>2 DEF IsDocument
<1>3. CASE Recount(r) /\ ~End(r)
  <2>1. PICK i : work' = [work EXCEPT ![r].at = "store", ![r].todo = @ \ {i},
                                      ![r].ids = {i}, ![r].sum = Recounted(i)]
    BY <1>3, ZenonT(60) DEF Recount
  <2>2. /\ Moves(r)
        /\ work'[r] = [work[r] EXCEPT !.at = "store", !.todo = @ \ {i},
                                      !.ids = {i}, !.sum = Recounted(i)]
    BY <2>1 DEF Held, WorkShape, Moves
  <2>3. Unmoved(work[r], work'[r]) /\ work'[r].at = "store"
    BY <1>1, <2>2 DEF IsRun, HasFields, Unmoved
  <2>4. Leads(work[r].kind, work[r].recursively, work[r].at, "store")
    BY <1>1 DEF Leads
  <2> QED  BY <1>1, <1>2, <2>2, <2>3, <2>4, TurningWalks, ZenonT(60) DEF Turns
<1>4. CASE Store(r)
  <2>1. Moves(r) /\ work'[r] = [work[r] EXCEPT !.at = "recount", !.ids = {}]
    BY <1>4 DEF Held, WorkShape, Moves, Store
  <2>2. Unmoved(work[r], work'[r]) /\ work'[r].at = "recount"
    BY <1>1, <2>1 DEF IsRun, HasFields, Unmoved
  <2>3. Leads(work[r].kind, work[r].recursively, work[r].at, "recount")
    BY <1>1 DEF Leads
  <2> QED  BY <1>1, <1>2, <2>1, <2>2, <2>3, TurningWalks DEF Turns
<1> QED  BY <1>2, <1>3, <1>4, EndingWalks, SMTT(60)

LEMMA DoneWalks ==
    ASSUME Typed, Removing, NEW r \in Runs, Done(r) \/ Cleanup(r)
    PROVE  Walks(r) /\ SameKinds
<1> Held  BY DEF Typed
<1>1. IsRun(work[r])  BY RunsAreRuns DEF Held, Done, Cleanup, On
<1>2. SameKinds  BY DEF Done, Cleanup, SameKinds
<1>3. CASE ~End(r)
  <2>1. PICK todo : work' = [work EXCEPT ![r].at = "recount", ![r].todo = todo]
    BY <1>3 DEF Done, Cleanup
  <2>2. Moves(r) /\ work'[r] = [work[r] EXCEPT !.at = "recount", !.todo = todo]
    BY <2>1 DEF Held, WorkShape, Moves
  <2>3. Unmoved(work[r], work'[r]) /\ work'[r].at = "recount"
    BY <1>1, <2>2 DEF IsRun, HasFields, Unmoved
  <2>4. Leads(work[r].kind, work[r].recursively, work[r].at, "recount")
    BY DEF Leads, FillAts, Beyond
  <2> QED  BY <1>1, <1>2, <2>2, <2>3, <2>4, TurningWalks DEF Turns
<1> QED  BY <1>2, <1>3, EndingWalks

LEMMA PruneWalks ==
    ASSUME Typed, Removing, NEW r \in Runs, Prune(r)
    PROVE  Walks(r) /\ SameKinds
<1> Held  BY DEF Typed
<1>1. IsRun(work[r])  BY RunsAreRuns DEF Held, Prune, On
<1>2. SameKinds  BY DEF Prune, SameKinds
<1>3. /\ Moves(r)
      /\ work'[r] = [work[r] EXCEPT !.at = "pruned", !.ids = LeafEmpties(work[r].copy.parent)]
  BY DEF Held, WorkShape, Moves, Prune
<1>4. Unmoved(work[r], work'[r]) /\ work'[r].at = "pruned"
  BY <1>1, <1>3 DEF IsRun, HasFields, Unmoved
<1>5. Leads(work[r].kind, work[r].recursively, work[r].at, "pruned")
  BY DEF Leads, FillAts, Beyond
<1> QED  BY <1>1, <1>2, <1>3, <1>4, <1>5, TurningWalks DEF Turns

LEMMA ExtendExpiryDateWalks ==
    ASSUME Typed, Removing, NEW r \in Runs, ExtendExpiryDate(r)
    PROVE  Walks(r) /\ SameKinds
<1> Held  BY DEF Typed
<1>1. IsRun(work[r]) /\ work[r].at = "batch"  BY RunsAreRuns DEF Held, ExtendExpiryDate, On
<1>2. SameKinds  BY DEF ExtendExpiryDate, SameKinds
<1>3. Moves(r) /\ work'[r] = [work[r] EXCEPT !.ticked = TRUE]
  BY DEF Held, WorkShape, Moves, ExtendExpiryDate
<1>4. Unmoved(work[r], work'[r]) /\ work'[r].at = work[r].at /\ work'[r].todo = work[r].todo
  BY <1>1, <1>3 DEF IsRun, HasFields, Unmoved
<1> QED  BY <1>1, <1>2, <1>3, <1>4, TurningWalks DEF Turns

LEMMA LessToDo ==
    ASSUME Typed, Removing, NEW r \in Runs, IsRun(work[r]), NEW x,
           work' = [work EXCEPT ![r].todo = @ \ {x}]
    PROVE  Walks(r)
<1> Held  BY DEF Typed
<1>1. Moves(r) /\ work'[r] = [work[r] EXCEPT !.todo = @ \ {x}]
  BY DEF Held, WorkShape, Moves
<1>2. /\ Unmoved(work[r], work'[r]) /\ work'[r].at = work[r].at
      /\ work'[r].todo \subseteq work[r].todo
  BY <1>1 DEF IsRun, HasFields, Unmoved
<1> QED  BY <1>1, <1>2, TurningWalks DEF Turns

LEMMA EraseRedirectsWalks ==
    ASSUME Typed, Removing, NEW r \in Runs, EraseRedirects(r)
    PROVE  Walks(r) /\ SameKinds
<1>1. IsRun(work[r])  BY RunsAreRuns DEF Typed, Held, EraseRedirects, On
<1> QED  BY <1>1, LessToDo DEF EraseRedirects, SameKinds

LEMMA BatchFailsWalks ==
    ASSUME Typed, Removing, NEW r \in Runs, NEW x, BatchFails(r, x)
    PROVE  Walks(r) /\ SameKinds
<1>1. IsRun(work[r])  BY RunsAreRuns DEF Typed, Held, BatchFails, On
<1> QED  BY <1>1, LessToDo DEF BatchFails, SameKinds

LEMMA AwaitFailsWalks ==
    ASSUME Typed, Removing, NEW r \in Runs, AwaitFails(r)
    PROVE  Walks(r) /\ SameKinds
<1>1. IsRun(work[r])
  BY DEF AwaitFails, InFlight, Typed, Held, WorkShape, Idle, Over
<1> QED  BY <1>1, ThrowingWalks DEF AwaitFails, Typed

LEMMA ReplaceWalks ==
    ASSUME Typed, Removing, NEW r \in Runs, Replace(r)
    PROVE  Walks(r) /\ SameKinds
<1> Held  BY DEF Typed
<1>1. IsRun(work[r])  BY RunsAreRuns DEF Held, Replace, On
<1>2. CASE ~Throw(r)
  <2>1. SameKinds  BY <1>2, JoinedKinds DEF Replace
  <2>2. Moves(r) /\ work'[r] = [work[r] EXCEPT !.at = "adopt", !.parent = NewId(0)]
    BY <1>2 DEF Held, WorkShape, Moves, Replace
  <2>3. Unmoved(work[r], work'[r]) /\ work'[r].at = "adopt"
    BY <1>1, <2>2 DEF IsRun, HasFields, Unmoved
  <2>4. Leads(work[r].kind, work[r].recursively, work[r].at, "adopt")
    BY DEF Leads, FillAts, Beyond
  <2> QED  BY <1>1, <2>1, <2>2, <2>3, <2>4, TurningWalks DEF Turns
<1> QED  BY <1>1, <1>2, ThrowingWalks

-----------------------------------------------------------------------------
(* The steps that change kinds.                                              *)

(* What is pruned is empty, unless it was read too early.                    *)
LEMMA PrunedWalks ==
    ASSUME Typed, Removing, NEW r \in Runs, Pruned(r), ~history'.stale
    PROVE  Walks(r) /\ Changes /\ Spares
<1> Held  BY DEF Typed
<1>1. IsRun(work[r])  BY RunsAreRuns DEF Held, Pruned, On
<1>2. work[r].ids = LeafEmpties(work[r].copy.parent)
  BY DEF Pruned, Stale, Held, HasHistory
<1>3. \A i \in Ids : pages'[i] = IF i \in work[r].ids THEN NoPage ELSE pages[i]  BY DEF Pruned
<1>4. \A i \in work[r].ids : pages[i].kind = "empty"
  BY <1>2, LeafEmptiesAreLeaves DEF Typed
<1>5. Changes /\ Spares  BY <1>3, <1>4 DEF Changes, Spares, NoPage
<1> DEFINE at == IF Removes(r) /\ work[r].recursively THEN "recordDelete"
                 ELSE IF Removes(r) THEN "answered" ELSE "done"
<1>6. Moves(r) /\ work'[r] = [work[r] EXCEPT !.ids = {}, !.at = at]
  BY DEF Held, WorkShape, Moves, Pruned
<1>7. Leads(work[r].kind, work[r].recursively, work[r].at, at)
  BY <1>1 DEF Leads, FillAts, Beyond, IsRun, Early, Holding, Late, Removes, Delete, Erase
<1> HIDE DEF at
<1>8. Unmoved(work[r], work'[r]) /\ work'[r].at = at
  BY <1>1, <1>6 DEF IsRun, HasFields, Unmoved
<1> QED  BY <1>1, <1>5, <1>6, <1>7, <1>8, TurningWalks DEF Turns

(* A page is trashed, and only an empty one removed.                         *)
LEMMA TrashTargetWalks ==
    ASSUME Typed, Removing, NEW r \in Runs, TrashTarget(r)
    PROVE  Walks(r) /\ Changes /\ Spares
<1> Held  BY DEF Typed
<1>1. IsRun(work[r]) /\ work[r].at = "trash" /\ work[r].kind = "delete"
  <2>1. IsRun(work[r]) /\ work[r].at = "trash"  BY RunsAreRuns DEF Held, TrashTarget, On
  <2>2. work[r].kind \in {"delete", "erase"}  BY <2>1 DEF IsRun, Early, Holding, Late
  <2> QED  BY <2>1, <2>2 DEF Removing, Lasting
<1>2. PICK to \in {"signpost", "shrink"} : Go(r, to)  BY DEF TrashTarget
<1>3. Leads(work[r].kind, work[r].recursively, work[r].at, to)
  BY <1>1 DEF Leads, FillAts, Beyond
<1>4. Walks(r)  BY <1>1, <1>2, <1>3, GoingWalks
<1>5. work[r].copy.kind \in {"page", "empty"}
  BY <1>1 DEF Typed, RunTyped
<1>6. \A i \in Ids :
        \/ pages'[i] = pages[i]
        \/ pages'[i].kind = "trash"
        \/ pages'[i] = NoPage /\ pages[i].kind = "empty"
  <2> SUFFICES ASSUME NEW i \in Ids, pages'[i] # pages[i]
               PROVE  \/ pages'[i].kind = "trash"
                      \/ pages'[i] = NoPage /\ pages[i].kind = "empty"
    OBVIOUS
  <2>1. i = work[r].id
    BY DEF TrashTarget, Ids
  <2>2. CASE work[r].copy.kind = "page"
    <3>1. pages'[i] = [NoPage EXCEPT !.kind = "trash", !.path = TrashPath]
      BY <2>1, <2>2 DEF TrashTarget, Ids
    <3>2. PICK doc : doc = [NoPage EXCEPT !.kind = "trash", !.path = TrashPath]  OBVIOUS
    <3>3. doc.kind = "trash"  BY <3>2 DEF NoPage
    <3> QED  BY <3>1, <3>2, <3>3
  <2>3. CASE work[r].copy.kind = "empty"
    <3>1. pages'[i] = IF pages[i].kind = "empty" THEN NoPage ELSE pages[i]
      BY <2>1, <2>3 DEF TrashTarget, Ids
    <3> QED  BY <3>1
  <2> QED  BY <1>5, <2>2, <2>3
<1>7. IsRun(work[r]) /\ Delete(r)  BY <1>1 DEF Delete
<1>8. Changes /\ Spares  BY <1>6, <1>7 DEF Changes, Spares, NoPage
<1> QED  BY <1>4, <1>8

(* A complete deletion removes its target.                                   *)
LEMMA ErasePageWalks ==
    ASSUME Typed, Removing, NEW r \in Runs, ErasePage(r)
    PROVE  Walks(r) /\ Changes /\ Spares
<1> Held  BY DEF Typed
<1>1. IsRun(work[r]) /\ work[r].at = "erase"  BY RunsAreRuns DEF Held, ErasePage, On
<1>2. work[r].kind = "erase"  BY <1>1 DEF Removing, Lasting, IsRun, Early, Holding, Late
<1>3. Walks(r)  BY <1>1, LessToDo DEF ErasePage
<1>4. \A i \in Ids : pages'[i] = IF i = work[r].id THEN NoPage ELSE pages[i]
  BY DEF ErasePage, Ids
<1>5. AskedToErase(work[r].id)
  <2>1. r \in InFlight  BY <1>1 DEF InFlight
  <2> QED  BY <1>2, <2>1 DEF AskedToErase, Erase
<1>6. Changes /\ Spares  BY <1>4, <1>5 DEF Changes, Spares, NoPage
<1> QED  BY <1>3, <1>6

(* A batch trashes the pages, and removes those that were empty and are.     *)
LEMMA ErasedBelow ==
    ASSUME Typed, Ordered, NEW fam, NEW left, Nested(fam, left), NEW r \in Runs, IsRun(work[r]),
           work[r].kind = "erase", work[r].at = "batch", NEW x \in work[r].todo,
           pages[x[1]].kind = "page", x[1] \in Ids
    PROVE  UnderTarget(work[r].copy.path, pages[x[1]].path)
<1>1. PICK o \in Runs : o = work[r].op  BY DEF IsRun
<1>2. Holds(r, o)  BY <1>1 DEF Holds, Holding
<1>3. /\ Broad(o) /\ ~Renames(o) /\ From(o) = work[r].copy.path
  BY <1>2, HolderClaims DEF Rename, Create
<1>4. Family(pages, Claimed(o), fam[o], left[o]) /\ left[o] = {}
  BY <1>3 DEF Nested, Housings, Housing, Moving
<1>5. Claimed(o).now = work[r].copy.path  BY <1>3 DEF Claimed, Moving
<1>6. x[1] \in fam[o]
  <2>1. ToDo(r) \subseteq fam[o]  BY <1>1 DEF Nested, Stands, Batching, On
  <2> QED  BY <2>1 DEF ToDo
<1>7. x[1] \in LiveOf(pages)  BY DEF LiveOf, Ids
<1> QED  BY <1>4, <1>5, <1>6, <1>7 DEF Family, UnderTarget

LEMMA BatchWalks ==
    ASSUME Typed, KindsKept, Removing, NEW r \in Runs, NEW x, Batch(r, x),
           \/ history.damaged \/ history.doubled
           \/ Ordered /\ \E fam, left : Nested(fam, left)
    PROVE  Walks(r) /\ Changes /\ Spares
<1> Held  BY DEF Typed
<1>1. IsRun(work[r]) /\ work[r].at = "batch"  BY RunsAreRuns DEF Held, Batch, On
<1>2. work[r].kind \in {"rename", "delete", "erase"}  BY <1>1 DEF IsRun, Early, Holding, Late
<1>3. Walks(r)  BY <1>1, LessToDo DEF Batch
<1>4. PICK i : i = x[1]  OBVIOUS
<1>5. x \in work[r].todo /\ i \in Ids
  BY <1>1, <1>4 DEF Batch, Typed, StageTyped
<1> DEFINE to == IF Rename(r) THEN Moved(x[2], work[r].copy.path, work[r].to) ELSE TrashPath
           doc == CASE Rename(r) -> [pages[i] EXCEPT !.path = to]
                    [] Delete(r) /\ x[3] = "page" ->
                          [NoPage EXCEPT !.kind = "trash", !.path = TrashPath]
                    [] OTHER -> NoPage
<1>10. pages' = pages \/ pages' = [pages EXCEPT ![i] = doc]  BY <1>4 DEF Batch
<1>11. /\ Rename(r) => doc = [pages[i] EXCEPT !.path = to]
       /\ Delete(r) /\ x[3] = "page" =>
             doc = [NoPage EXCEPT !.kind = "trash", !.path = TrashPath]
       /\ Delete(r) /\ x[3] # "page" => doc = NoPage
       /\ Erase(r) => doc = NoPage
  BY DEF Rename, Delete, Erase
<1> HIDE DEF to, doc
<1>12. pages'[i] = pages[i] \/ pages'[i] = doc  BY <1>5, <1>10 DEF Ids
<1>6. \A j \in Ids \ {i} : pages'[j] = pages[j]  BY <1>10 DEF Ids
<1>7. CASE Rename(r)
  <2>1. pages'[i] = pages[i] \/ pages'[i] = [pages[i] EXCEPT !.path = to]
    BY <1>7, <1>11, <1>12
  <2>2. IsDocument(pages[i], Ids)  BY <1>5 DEF Typed, IsCollection, Ids
  <2>3. pages'[i].kind = pages[i].kind  BY <2>1, <2>2 DEF IsDocument
  <2> QED  BY <1>3, <1>6, <2>3, SameKindsSpare DEF SameKinds
<1>8. CASE Delete(r)
  <2>1. \/ pages'[i] = pages[i]
        \/ pages'[i] = [NoPage EXCEPT !.kind = "trash", !.path = TrashPath]
        \/ pages'[i] = NoPage /\ x[3] # "page"
    BY <1>8, <1>11, <1>12
  <2>2. x[3] # "page" => pages[i].kind # "page"
    BY <1>1, <1>4, <1>5, <1>8 DEF KindsKept, On
  <2>3. PICK trash : trash = [NoPage EXCEPT !.kind = "trash", !.path = TrashPath]  OBVIOUS
  <2>4. trash.kind = "trash"  BY <2>3 DEF NoPage
  <2>7. \E s \in Runs : IsRun(work[s]) /\ Delete(s)  BY <1>1, <1>8
  <2>9. NoPage.kind = "none"  BY DEF NoPage
  <2>8. pages'[i].kind = "page" => pages[i].kind = "page"
    <3>1. pages'[i] = pages[i] \/ pages'[i].kind \in {"trash", "none"}
      BY <2>1, <2>3, <2>4, <2>9
    <3> QED  BY <3>1
  <2>5. Changes  BY <1>6, <2>7, <2>8 DEF Changes
  <2>6. Spares  BY <1>6, <2>1, <2>2, <2>3, <2>4 DEF Spares, NoPage
  <2> QED  BY <1>3, <2>5, <2>6
<1>9. CASE Erase(r)
  <2>1. pages'[i] = pages[i] \/ pages'[i] = NoPage
    BY <1>9, <1>11, <1>12
  <2>2. pages[i].kind = "page" => AskedToErase(i)
    <3> SUFFICES ASSUME pages[i].kind = "page"  PROVE AskedToErase(i)
      OBVIOUS
    <3>1. r \in InFlight  BY <1>1 DEF InFlight
    <3>2. work[r].recursively  BY <1>1, <1>9 DEF Removing, Lasting, Beyond, Erase
    <3>3. UnderTarget(work[r].copy.path, pages[i].path) \/ history.damaged \/ history.doubled
      BY <1>1, <1>4, <1>5, <1>9, ErasedBelow DEF Erase
    <3> QED  BY <1>9, <3>1, <3>2, <3>3 DEF AskedToErase
  <2>3. Changes /\ Spares  BY <1>6, <2>1, <2>2 DEF Changes, Spares, NoPage
  <2> QED  BY <1>3, <2>3
<1> QED  BY <1>2, <1>7, <1>8, <1>9 DEF Rename, Delete, Erase

LEMMA StreamWalks ==
    ASSUME Typed, Removing, NEW r \in Runs, Stream(r)
    PROVE  Walks(r) /\ SameKinds
<1> Held  BY DEF Typed
<1>1. IsRun(work[r]) /\ work[r].at = "stream"  BY RunsAreRuns DEF Held, Stream, On
<1>2. SameKinds  BY DEF Stream, SameKinds
<1> DEFINE todo == {<<i, pages[i].path, pages[i].kind>> : i \in Descendants(work[r].id)}
<1>3. Sorted(todo)  BY DEF Sorted, Descendants
<1>4. Moves(r) /\ work'[r] = [work[r] EXCEPT !.at = "batch", !.todo = todo]
  BY DEF Held, WorkShape, Moves, Stream
<1> HIDE DEF todo
<1>5. Unmoved(work[r], work'[r]) /\ work'[r].at = "batch" /\ work'[r].todo = todo
  BY <1>1, <1>4 DEF IsRun, HasFields, Unmoved
<1>6. \A s \in Runs \ {r} : work'[s] = work[s]  BY <1>4 DEF Held, WorkShape, Moves
<1>7. Lasting(work'[r])
  <2>1. Lasting(work[r])  BY <1>1 DEF Removing
  <2> QED  BY <1>1, <1>5, <2>1 DEF Lasting, Unmoved, Beyond
<1>8. ~Fills(r)'  BY <1>5 DEF Fills, Open, Early
<1> QED  BY <1>1, <1>2, <1>3, <1>5, <1>6, <1>7, <1>8 DEF Walks, Unmoved

(* The page that a creation saves is new, or one that it filled.             *)
LEMMA SaveWalks ==
    ASSUME Typed, Removing, NEW r \in Runs, Save(r)
    PROVE  Walks(r) /\ Changes /\ Spares
<1> Held  BY DEF Typed
<1>1. IsRun(work[r]) /\ work[r].at = "save"  BY RunsAreRuns DEF Held, Save, On
<1>2. work[r].kind = "create"  BY <1>1 DEF IsRun, Early, Holding, Late
<1>3. CASE ~Throw(r)
  <2>1. PICK id, page :
              /\ id = (IF work[r].id = NoId THEN Size ELSE work[r].id)
              /\ id # Top /\ id \in Ids \cup {Size} /\ (work[r].id # NoId => Found(id))
              /\ page.kind = "page" /\ IsDocument(page, Ids)
              /\ page.path = (IF work[r].id = NoId THEN work[r].to ELSE pages[id].path)
              /\ \/ page.parent = work[r].parent
                 \/ work[r].id # NoId /\ page.parent = pages[id].parent
              /\ DOMAIN pages' = Ids \cup {id} /\ pages'[id] = page
              /\ \A i \in Ids \ {id} : pages'[i] = pages[i]
              /\ work' = [work EXCEPT ![r].at = "recordCreate", ![r].id = id, ![r].copy = page]
              /\ UNCHANGED <<ops, asked>> /\ history'.fresh = history.fresh \cup {id}
              /\ history'.stale = (history.stale
                                     \/ work[r].parent \notin At(Dirname(work[r].to)))
    BY <1>3, SaveWrites
  <2>2. Moves(r) /\ work'[r] = [work[r] EXCEPT !.at = "recordCreate", !.id = id, !.copy = page]
    BY <2>1 DEF Held, WorkShape, Moves
  <2>3. work'[r].at = "recordCreate" /\ work'[r].kind = work[r].kind
    BY <1>1, <2>2 DEF IsRun, HasFields
  <2>4. \A s \in Runs \ {r} : work'[s] = work[s]  BY <2>2 DEF Held, WorkShape, Moves
  <2>5. Walks(r)  BY <1>1, <1>2, <2>3, <2>4 DEF Walks, Lasting, Fills, On
  <2>6. id \in Ids => Fills(r)
    <3>1. id \in Ids => work[r].id # NoId  BY <2>1, IdsAreCounted DEF Typed
    <3> QED  BY <1>1, <1>2, <3>1 DEF Fills, Open, Create, On, Early
  <2>7. Changes
    <3> SUFFICES ASSUME NEW i \in Ids
                 PROVE  /\ pages'[i].kind = "page" =>
                               pages[i].kind = "page" \/ \E s \in Runs : Fills(s)
                        /\ pages'[i].kind = "trash" => pages[i].kind = "trash"
      BY DEF Changes
    <3>1. CASE i = id  BY <2>1, <2>6, <3>1
    <3>2. CASE i # id  BY <2>1, <3>2
    <3> QED  BY <3>1, <3>2
  <2>8. Spares  BY <2>1 DEF Spares
  <2> QED  BY <2>5, <2>7, <2>8
<1>4. CASE Throw(r)  BY <1>1, <1>4, ThrowingWalks, SameKindsSpare
<1> QED  BY <1>3, <1>4

(* Who fills a page is alone.                                                *)
LEMMA PrepareFills ==
    ASSUME Typed, KindsKept, Removing, NEW r \in Runs, Prepare(r), ~history'.stale
    PROVE  KindsKept' /\ Removing' /\ SameKinds
<1> Held  BY DEF Typed
<1>1. IsRun(work[r]) /\ work[r].at = "prepare" /\ work[r].kind = "create"
  BY RunsAreRuns DEF Held, Prepare, On, IsRun, Early, Holding, Late
<1>2. pages' = pages  BY DEF Prepare
<1>3. SameKinds  BY <1>2 DEF SameKinds
<1>6. PICK empties, e : /\ empties = {i \in At(work[r].to) : pages[i].kind = "empty"}
                        /\ e = Earliest(empties)
  OBVIOUS
<1>7. /\ \A s \in Runs \ {r} : work'[s] = work[s]
      /\ empties = {} => work'[r] = [work[r] EXCEPT !.at = "find"]
      /\ empties # {} => work'[r] = [work[r] EXCEPT !.at = "find", !.id = e, !.copy = pages[e],
                                                   !.sum = Recounted(e)]
      /\ Moves(r)
      /\ Stale(empties # {} /\ InFlight # {r})
  BY <1>6 DEF Prepare, Held, WorkShape, Moves
<1>4. CASE empties = {}
  <2>2. Moves(r) /\ work'[r] = [work[r] EXCEPT !.at = "find"]  BY <1>4, <1>7
  <2>3. Unmoved(work[r], work'[r]) /\ work'[r].at = "find"
    BY <1>1, <2>2 DEF IsRun, HasFields, Unmoved
  <2>4. Leads(work[r].kind, work[r].recursively, work[r].at, "find")
    BY <1>1 DEF Leads, FillAts
  <2>5. Walks(r)  BY <1>1, <2>2, <2>3, <2>4, TurningWalks DEF Turns
  <2> QED  BY <1>3, <2>5, SameKindsSpare, WalkingKeeps
<1>5. CASE empties # {}
  <2>1. e \in Ids /\ pages[e].kind = "empty"
    <3>1. empties \subseteq Ids  BY <1>6 DEF At
    <3>2. e \in empties  BY <1>5, <1>6, <3>1, EarliestIsId DEF Typed
    <3> QED  BY <1>6, <3>1, <3>2
  <2>2. InFlight = {r}  BY <1>5, <1>7 DEF Stale, Held, HasHistory
  <2>3. \A s \in Runs \ {r} : ~IsRun(work[s])
    BY <2>2 DEF InFlight, IsRun, Early, Holding, Late
  <2>5. /\ work'[r] = [work[r] EXCEPT !.at = "find", !.id = e, !.copy = pages[e],
                                       !.sum = Recounted(e)]
        /\ \A s \in Runs \ {r} : work'[s] = work[s]
    BY <1>5, <1>7
  <2>6. work'[r].at = "find" /\ work'[r].kind = "create" /\ work'[r].id = e
    BY <1>1, <2>5 DEF IsRun, HasFields
  <2>7. \A s \in Runs : IsRun(work'[s]) => s = r  BY <2>3, <2>5
  <2>8. KindsKept'  BY <1>2, <2>1, <2>6, <2>7 DEF KindsKept, Fills, Delete
  <2>9. Removing'  BY <2>6, <2>7 DEF Removing, Lasting
  <2> QED  BY <1>3, <2>8, <2>9
<1> QED  BY <1>4, <1>5

-----------------------------------------------------------------------------
(* A request finds nobody that fills a page.                                 *)
LEMMA BeginFinds ==
    ASSUME Held, NEW r \in Runs, NEW kind, NEW id, NEW to, NEW redirect, NEW recursively, NEW at,
           Begin(r, kind, id, to, redirect, recursively, at), ~history'.crowded
    PROVE  /\ pages' = pages
           /\ \A s \in Runs : ~Fills(s)
           /\ \A s \in Runs \ {r} : work'[s] = work[s]
           /\ work'[r].kind = kind /\ work'[r].at = at /\ work'[r].id = id
<1> DEFINE copy == IF id = NoId THEN NoPage ELSE pages[id]
           todo == IF kind = "erase" THEN {"page", "redirects"} ELSE {}
<1>1. /\ pages' = pages
      /\ work' = [work EXCEPT ![r] =
          [at |-> at, kind |-> kind, op |-> r, id |-> id, to |-> to,
           copy |-> copy, parent |-> NoId,
           redirect |-> redirect, recursively |-> recursively, ids |-> {},
           todo |-> todo, sum |-> 0, seen |-> Recorded, resumed |-> FALSE, ticked |-> FALSE]]
      /\ history' = [history EXCEPT !.crowded = @ \/ Unrecorded]
  BY DEF Begin
<1> HIDE DEF copy, todo
<1>2. ~Unrecorded  BY <1>1 DEF Held, HasHistory
<1>3. ASSUME NEW s \in Runs, Fills(s)  PROVE FALSE
  <2>1. work[s].op \notin Recorded  BY <1>3 DEF Fills, Open, Held, NotYet
  <2>2. s \in InFlight  BY <1>3 DEF Fills, InFlight, IsRun, Early, Holding, Late
  <2> QED  BY <1>2, <2>1, <2>2 DEF Unrecorded
<1>4. /\ \A s \in Runs \ {r} : work'[s] = work[s]
      /\ work'[r].kind = kind /\ work'[r].at = at /\ work'[r].id = id
  BY <1>1 DEF Held, WorkShape
<1> QED  BY <1>1, <1>3, <1>4

LEMMA RequestKinds ==
    ASSUME Typed, KindsKept, Removing, NEW r \in Runs, Request(r), ~history'.crowded
    PROVE  KindsKept' /\ Removing'
<1> Held  BY DEF Typed
<1>1. /\ pages' = pages
      /\ \A s \in Runs : ~Fills(s)
      /\ \A s \in Runs \ {r} : work'[s] = work[s]
      /\ \/ work'[r].kind = "create" /\ work'[r].at = "clear" /\ work'[r].id = NoId
         \/ work'[r].kind # "create" /\ work'[r].at = "check"
  <2>1. ASSUME NEW i \in Ids, NEW to, NEW redirect, BeginRename(r, i, to, redirect)
        PROVE  /\ pages' = pages
               /\ \A s \in Runs : ~Fills(s)
               /\ \A s \in Runs \ {r} : work'[s] = work[s]
               /\ \/ work'[r].kind = "create" /\ work'[r].at = "clear" /\ work'[r].id = NoId
                  \/ work'[r].kind # "create" /\ work'[r].at = "check"
    <3>1. PICK yes : yes = TRUE  OBVIOUS
    <3>2. Begin(r, "rename", i, to, redirect, yes, "check")  BY <2>1, <3>1 DEF BeginRename
    <3> QED  BY <3>2, BeginFinds
  <2>2. ASSUME NEW path, BeginCreate(r, path)
        PROVE  /\ pages' = pages
               /\ \A s \in Runs : ~Fills(s)
               /\ \A s \in Runs \ {r} : work'[s] = work[s]
               /\ \/ work'[r].kind = "create" /\ work'[r].at = "clear" /\ work'[r].id = NoId
                  \/ work'[r].kind # "create" /\ work'[r].at = "check"
    <3>1. PICK no : no = FALSE  OBVIOUS
    <3>2. Begin(r, "create", NoId, path, no, no, "clear")  BY <2>2, <3>1 DEF BeginCreate
    <3> QED  BY <3>2, BeginFinds
  <2>3. ASSUME NEW i \in Ids, NEW recursively,
               BeginDelete(r, i, recursively) \/ BeginErase(r, i, recursively)
        PROVE  /\ pages' = pages
               /\ \A s \in Runs : ~Fills(s)
               /\ \A s \in Runs \ {r} : work'[s] = work[s]
               /\ \/ work'[r].kind = "create" /\ work'[r].at = "clear" /\ work'[r].id = NoId
                  \/ work'[r].kind # "create" /\ work'[r].at = "check"
    <3>1. PICK no : no = FALSE  OBVIOUS
    <3>2. \E kind \in {"delete", "erase"} : Begin(r, kind, i, NoPath, no, recursively, "check")
      BY <2>3, <3>1 DEF BeginDelete, BeginErase
    <3> QED  BY <3>2, BeginFinds
  <2> QED  BY <2>1, <2>2, <2>3 DEF Request
<1>2. ASSUME NEW s \in Runs  PROVE ~Fills(s)'
  BY <1>1 DEF Fills, Open, Create, On
<1>3. ASSUME NEW s \in Runs, IsRun(work'[s])  PROVE Lasting(work'[s])
  <2>1. CASE s = r  BY <1>1, <2>1 DEF Lasting, Beyond
  <2>2. CASE s # r  BY <1>1, <1>3, <2>2 DEF Removing
  <2> QED  BY <2>1, <2>2
<1>4. ASSUME NEW s \in Runs, IsRun(work'[s]), Delete(s)', On(s, "batch")', NEW x \in work'[s].todo
      PROVE  x[3] = "page" \/ pages'[x[1]].kind # "page"
  <2>1. s # r  BY <1>1, <1>4 DEF On
  <2> QED  BY <1>1, <1>4, <2>1 DEF KindsKept, Delete, On
<1> QED  BY <1>2, <1>3, <1>4 DEF KindsKept, Removing

(* Resumed renames, and runs that end, neither fill nor remove.              *)
LEMMA RestingKinds ==
    ASSUME KindsKept, Removing, pages' = pages,
           \A s \in Runs : \/ work'[s] = work[s]
                           \/ ~IsRun(work'[s])
                           \/ work'[s].kind = "rename"
    PROVE  KindsKept' /\ Removing'
<1>1. ASSUME NEW s \in Runs, IsRun(work'[s]), work'[s].kind # "rename"
      PROVE  work'[s] = work[s]
  BY <1>1
<1>2. \A s \in Runs : Fills(s)' => work'[s] = work[s] /\ Fills(s)
  BY <1>1 DEF Fills, Open, Create, On
<1>3. \A s \in Runs : IsRun(work'[s]) /\ Delete(s)' => work'[s] = work[s] /\ Delete(s)
  BY <1>1 DEF Delete
<1>4. ASSUME NEW s \in Runs, IsRun(work'[s])  PROVE Lasting(work'[s])
  BY <1>1, <1>4 DEF Removing, Lasting
<1>5. ASSUME NEW s \in Runs, IsRun(work'[s]), Delete(s)', On(s, "batch")', NEW x \in work'[s].todo
      PROVE  x[3] = "page" \/ pages'[x[1]].kind # "page"
  BY <1>3, <1>5 DEF KindsKept, On
<1> QED  BY <1>2, <1>3, <1>4, <1>5 DEF KindsKept, Removing

LEMMA ResumingKinds ==
    ASSUME Held, KindsKept, Removing,
           \/ \E o \in Runs : TimePasses(o) \/ \E r \in Runs : Resume(o, r)
           \/ Crash \/ Boot
    PROVE  KindsKept' /\ Removing' /\ pages' = pages
<1>1. ASSUME NEW o \in Runs, TimePasses(o)
      PROVE  pages' = pages /\ work' = work
  BY <1>1 DEF TimePasses
<1>2. ASSUME NEW o \in Runs, NEW r \in Runs, Resume(o, r)
      PROVE  pages' = pages /\ \A s \in Runs : work'[s] = work[s] \/ work'[s].kind = "rename"
  <2>1. pages' = pages /\ work' = [work EXCEPT ![r] = Resumed(o)]  BY <1>2 DEF Resume
  <2>2. \A s \in Runs \ {r} : work'[s] = work[s]  BY <2>1
  <2>3. work'[r] = Resumed(o)  BY <2>1 DEF Held, WorkShape
  <2>4. Resumed(o).kind = "rename"  BY DEF Resumed
  <2> QED  BY <2>1, <2>2, <2>3, <2>4
<1>3. CASE Crash
  <2>1. pages' = pages /\ \A s \in Runs : work'[s] = Over \/ work'[s] = work[s]
    BY <1>3 DEF Crash
  <2>2. ~IsRun(Over)  BY RunIsNeither
  <2> QED  BY <2>1, <2>2, RestingKinds
<1>4. CASE Boot
  <2>1. pages' = pages /\ \A s \in Runs : work'[s] = work[s] \/ work'[s] = Resumed(s)
    BY <1>4 DEF Boot
  <2>2. \A s : Resumed(s).kind = "rename"  BY DEF Resumed
  <2> QED  BY <2>1, <2>2, RestingKinds
<1> QED  BY <1>1, <1>2, <1>3, <1>4, RestingKinds

-----------------------------------------------------------------------------
(* Each step spares the pages, and keeps the kinds.                          *)
Sound == history.damaged \/ history.doubled \/ (Ordered /\ \E fam, left : Nested(fam, left))

LEMMA AdvanceKinds ==
    ASSUME Typed, KindsKept, Removing, Sound, NEW r \in Runs, Advance(r), ~history'.stale
    PROVE  KindsKept' /\ Removing' /\ Spares
<1>1. CASE \/ Record(r) \/ Signpost(r) \/ ClearRedirect(r) \/ RecordCreate(r) \/ RecordDelete(r)
           \/ Erased(r) \/ BatchesEnd(r) \/ Bump(r) \/ Unbump(r)
  BY <1>1, PassingWalks, SameKindsSpare, WalkingKeeps
<1>2. CASE TakeOff(r) \/ SetStage(r) \/ CreateRedirect(r) \/ Check(r) \/ Adopt(r) \/ Put(r)
  BY <1>2, TakeOffWalks, SetStageWalks, CheckWalks, AdoptWalks, PutWalks, SameKindsSpare, WalkingKeeps
<1>3. CASE Find(r) \/ Insert(r) \/ Plant(r) \/ Link(r) \/ Graft(r)
  BY <1>3, FindWalks, InsertWalks, PlantWalks, LinkWalks, GraftWalks, SameKindsSpare, WalkingKeeps
<1>4. CASE Shrink(r) \/ Grow(r) \/ Shrunk(r) \/ Grown(r) \/ Recount(r) \/ Store(r)
  BY <1>4, ClimbWalks, CountWalks, RecountWalks, SameKindsSpare, WalkingKeeps
<1>5. CASE \/ Done(r) \/ Cleanup(r) \/ Prune(r) \/ EraseRedirects(r) \/ Replace(r) \/ Stream(r)
  BY <1>5, DoneWalks, PruneWalks, EraseRedirectsWalks, ReplaceWalks, StreamWalks,
     SameKindsSpare, WalkingKeeps
<1>6. CASE Pruned(r) \/ TrashTarget(r) \/ ErasePage(r) \/ Save(r)
  BY <1>6, PrunedWalks, TrashTargetWalks, ErasePageWalks, SaveWalks, WalkingKeeps
<1>7. CASE Prepare(r)  BY <1>7, PrepareFills, SameKindsSpare
<1>8. CASE On(r, "batch") /\ \E x \in work[r].todo : Batch(r, x)
  BY <1>8, BatchWalks, WalkingKeeps DEF Sound
<1> QED  BY Zenon, <1>1, <1>2, <1>3, <1>4, <1>5, <1>6, <1>7, <1>8 DEF Advance

LEMMA NextKinds ==
    ASSUME Typed, KindsKept, Removing, Sound, [Next]_vars, ~history'.stale
    PROVE  Spares /\ (~history'.crowded => KindsKept' /\ Removing')
<1> Held  BY DEF Typed
<1>1. ASSUME pages' = pages  PROVE Spares
  BY <1>1, SameKindsSpare DEF SameKinds
<1>2. CASE UNCHANGED vars
  <2>1. pages' = pages /\ work' = work  BY <1>2 DEF vars
  <2> QED  BY <1>1, <2>1, RestingKinds
<1>3. ASSUME NEW r \in Runs, Request(r)
      PROVE  Spares /\ (~history'.crowded => KindsKept' /\ Removing')
  <2>1. pages' = pages  BY <1>3, RequestReads
  <2> QED  BY <1>1, <1>3, <2>1, RequestKinds
<1>4. ASSUME NEW r \in Runs, Advance(r)  PROVE Spares /\ KindsKept' /\ Removing'
  BY <1>4, AdvanceKinds
<1>5. ASSUME NEW r \in Runs, ExtendExpiryDate(r) \/ AwaitFails(r)
      PROVE  Spares /\ KindsKept' /\ Removing'
  BY <1>5, ExtendExpiryDateWalks, AwaitFailsWalks, SameKindsSpare, WalkingKeeps
<1>6. ASSUME NEW r \in Runs, NEW x, BatchFails(r, x)
      PROVE  Spares /\ KindsKept' /\ Removing'
  BY <1>6, BatchFailsWalks, SameKindsSpare, WalkingKeeps
<1>7. CASE \/ \E o \in Runs : TimePasses(o) \/ \E r \in Runs : Resume(o, r)
           \/ Crash \/ Boot
  BY <1>1, <1>7, ResumingKinds
<1> QED  BY Zenon, <1>2, <1>3, <1>4, <1>5, <1>6, <1>7 DEF Next

-----------------------------------------------------------------------------
(* The invariant: as long as nothing is crowded or stale, the kinds hold;    *)
(* and when nothing disturbs the tree, it is ordered and the pages nest.     *)
Nests == \E fam, left : Nested(fam, left)
PagesInv ==
    /\ Typed
    /\ ~history.crowded /\ ~history.stale => KindsKept /\ Removing
    /\ Undisturbed => Ordered /\ Nests

LEMMA InitPages ==
    ASSUME Init
    PROVE  PagesInv
<1>1. Typed  BY InitTyped
<1>2. \A r \in Runs : ~IsRun(work[r])  BY RunIsNeither DEF Init
<1>3. KindsKept /\ Removing  BY <1>2 DEF KindsKept, Removing, Fills
<1> QED  BY <1>1, <1>3, InitOrdered, InitNests DEF PagesInv, Nests

LEMMA NextPages ==
    ASSUME PagesInv, [Next]_vars
    PROVE  /\ PagesInv'
           /\ history.crowded \/ history'.stale \/ Spares
<1>1. Typed /\ Typed' /\ HasHistory
  BY NextTyped DEF PagesInv, Typed, Held
<1>2. Grows  BY <1>1, NextGrows
<1>3. ASSUME ~history.crowded, ~history'.stale
      PROVE  Spares /\ (~history'.crowded => KindsKept' /\ Removing')
  <2>1. ~history.stale  BY <1>2, <1>3 DEF Grows
  <2>2. KindsKept /\ Removing  BY <1>3, <2>1 DEF PagesInv
  <2>3. Sound  BY <1>3, <2>1 DEF PagesInv, Sound, Undisturbed, Nests
  <2> QED  BY <1>1, <1>3, <2>2, <2>3, NextKinds
<1>4. ~history'.crowded /\ ~history'.stale => KindsKept' /\ Removing'
  BY <1>2, <1>3 DEF Grows
<1>5. ASSUME Undisturbed'  PROVE Ordered' /\ Nests'
  <2>1. Undisturbed  BY <1>2, <1>5 DEF Grows, Undisturbed
  <2>2. Ordered /\ KindsKept  BY <2>1 DEF PagesInv, Undisturbed
  <2>3. PICK fam, left : Nested(fam, left)  BY <2>1 DEF PagesInv, Nests
  <2>4. Ordered'
    <3>1. Placed(pages)  BY <2>3, NestedIsPlaced
    <3> QED  BY <1>1, <1>5, <2>2, <3>1, NextOrders
  <2>5. \E fam2, left2 : Nested(fam2, left2)'
    BY <1>1, <1>5, <2>2, <2>3, <2>4, NextNests
  <2> QED  BY <2>4, <2>5 DEF Nests
<1> QED  BY <1>1, <1>3, <1>4, <1>5 DEF PagesInv

(* Whatever requests, resumptions, crashes and errors interleave: the kinds  *)
(* hold as long as nothing is crowded or stale, and as long as nothing       *)
(* disturbs the tree, the operations are apart and their pages nest in it.   *)
THEOREM PagesNest == Spec => []PagesInv
<1>1. Init => PagesInv  BY InitPages
<1>2. PagesInv /\ [Next]_vars => PagesInv'  BY NextPages
<1> QED  BY <1>1, <1>2, PTL DEF Spec

(* A page that is not empty is trashed at most, never removed: not by        *)
(* removeLeafEmptyPagesRecursively, nor by the batches of a deletion or what *)
(* replaces its target; a complete deletion removes only its target and,     *)
(* recursively, what is still below it (PagesKept).                          *)
THEOREM PagesAreKept == Spec => PagesKept
<1>1. PagesInv /\ [Next]_vars =>
        [history.crowded \/ history'.stale \/
          \A i \in Ids : pages[i].kind = "page" =>
              pages'[i].kind \in {"page", "trash"} \/ AskedToErase(i)]_vars
  BY NextPages DEF Spares
<1> QED  BY <1>1, PagesNest, PTL DEF Spec, PagesKept

-----------------------------------------------------------------------------
(* What the invariant says of the tree, whatever runs meanwhile.             *)

LEMMA FrontAndLast ==
    ASSUME NEW p \in Paths, NEW q \in Paths, p # <<>>, Front(p) = q
    PROVE  p = Append(q, Last(p))
<1>1. Len(p) \in Nat /\ Len(p) # 0 /\ Len(q) = Len(p) - 1  BY EmptyPath, FrontIsPath DEF Paths
<1>2. Last(p) = p[Len(p)] /\ Last(p) \in Names  BY <1>1 DEF Last, Paths
<1>3. PICK a \in Paths : a = Append(q, Last(p))
  <2>1. Append(q, Last(p)) \in Paths  BY <1>2, AppendProperties DEF Paths
  <2> QED  BY <2>1
<1>4. Len(a) = Len(p) /\ a[Len(p)] = Last(p)
      /\ \A k \in 1 .. Len(q) : a[k] = q[k]
  BY <1>1, <1>2, <1>3 DEF Paths
<1>5. \A k \in 1 .. Len(p) - 1 : p[k] = q[k]  BY FrontIsPath
<1>6. \A k \in 1 .. Len(a) : a[k] = p[k]
  <2> SUFFICES ASSUME NEW k \in 1 .. Len(a)  PROVE a[k] = p[k]
    OBVIOUS
  <2>1. CASE k = Len(p)  BY <1>2, <1>4, <2>1
  <2>2. CASE k # Len(p)
    <3>1. k \in 1 .. Len(q) /\ k \in 1 .. Len(p) - 1  BY <1>1, <1>4, <2>2
    <3> QED  BY <1>4, <1>5, <3>1
  <2> QED  BY <2>1, <2>2
<1> QED  BY <1>3, <1>4, <1>6, PathsEqual

(* A page that no operation moves or removes is below the page of its parent *)
(* path, at any time: when renameMainOperation moves a target and when its   *)
(* batches move the descendants, when createEmptyPagesByPaths and            *)
(* connectPageTree make parents, when a target is replaced.                  *)
Follows ==
    Undisturbed => \A i \in Live \ {Top} :
        OnTree(i) /\ Clear(pages[i].path) =>
            /\ pages[i].parent \in Live /\ OnTree(pages[i].parent)
            /\ pages[i].path = Append(pages[pages[i].parent].path, Last(pages[i].path))

THEOREM PathsFollow == Spec => []Follows
<1>1. PagesInv => Follows
  <2> SUFFICES ASSUME PagesInv, Undisturbed, NEW i \in Live \ {Top}, OnTree(i),
                      Clear(pages[i].path)
               PROVE  /\ pages[i].parent \in Live /\ OnTree(pages[i].parent)
                      /\ pages[i].path = Append(pages[pages[i].parent].path, Last(pages[i].path))
    BY DEF Follows
  <2>1. Typed /\ Ordered  BY DEF PagesInv
  <2>2. PICK fam, left : Nested(fam, left)  BY DEF PagesInv, Nests
  <2>3. Live = LivePages /\ \A j : j \in LivePages => j \in DOMAIN pages
    BY DEF Live, LivePages, LiveOf, Ids
  <2>4. i \in LivePages \ {Top} /\ Rooted(pages, i)  BY <2>3 DEF OnTree, Rooted
  <2>5. /\ i \notin Housed(fam)
        /\ pages[i].parent \in LivePages /\ Rooted(pages, pages[i].parent)
        /\ Front(pages[i].path) = pages[pages[i].parent].path
    <3>1. i \notin Housed(fam)  BY <2>1, <2>2, <2>4, HousedInArea DEF Nested, Clear
    <3>2. pages[i].parent # NoId  BY <2>4 DEF Rooted
    <3> QED  BY <2>1, <2>2, <2>4, <3>1, <3>2, PagesAreBelow
  <2>6. IsPath(pages[i].path) /\ pages[i].path # <<>> /\ IsPath(pages[pages[i].parent].path)
    BY <2>2, <2>4, <2>5 DEF Nested, Coherent, LivePages
  <2>7. pages[i].path \in Paths /\ pages[pages[i].parent].path \in Paths
    BY <2>6 DEF IsPath, Paths
  <2> QED  BY <2>3, <2>5, <2>6, <2>7, FrontAndLast DEF Rooted, OnTree
<1> QED  BY <1>1, PagesNest, PTL

(* The operations are apart (Apart): none has a path in the area of another, *)
(* nor has a request that has passed its check.                              *)
StayApart == Undisturbed => Apart

THEOREM AreasStayApart == Spec => []StayApart
<1>1. PagesInv => StayApart  BY DEF PagesInv, Ordered, StayApart
<1> QED  BY <1>1, PagesNest, PTL
==============================================================================
