------------------------ MODULE VaultDispatcher_proofs ------------------------
(***************************************************************************)
(* Proofs about the dispatcher, for any pages, paths, namespaces, grants,  *)
(* thresholds and failures: an entry of the vault was called for by some   *)
(* page, and a path whose events never crowded shows what the pages call   *)
(* for as soon as its own entries are written.                             *)
(***************************************************************************)
EXTENDS VaultDispatcher, WellFoundedInduction, TLAPS

-----------------------------------------------------------------------------
(* Instructions, and what waits to be written. *)

Instruction ==
    [op : {"upsert"}, ns : Namespaces, entries : Seq(Entry)]
        \cup [op : {"remove"}, ns : Namespaces, path : Paths]
        \cup [op : {"rename-prefix"}, ns : Namespaces]

(* Instruction i sets the path to rev in namespace ns; a remove sets it to   *)
(* NoRevision.                                                               *)
Says(i, ns, path, rev) ==
    /\ i.ns = ns
    /\ \/ /\ i.op = "upsert"
          /\ \E k \in DOMAIN i.entries :
                i.entries[k].path = path /\ i.entries[k].rev = rev
       \/ i.op = "remove" /\ i.path = path /\ rev = NoRevision

Waits(ns, path, rev) ==
    \E k \in DOMAIN buffer[ns] : buffer[ns][k].path = path /\ buffer[ns][k].rev = rev

Pending(ns, path, rev) ==
    \/ Waits(ns, path, rev)
    \/ \E w \in writing : Says(w.instr, ns, path, rev)

-----------------------------------------------------------------------------
(* The inductive invariant of the dispatcher. *)

Shape ==
    /\ pages \in [Pages -> Page \cup {Absent}]
    /\ buffer \in [Namespaces -> Seq(Entry)]
    /\ \A ns \in Namespaces : Len(buffer[ns]) < ChunkSize
    /\ writing \subseteq [at : Nat, tries : {1, 2}, instr : Instruction]
    /\ vault \in [Namespaces -> [Paths -> 0 .. MaxOps]]
    /\ clock \in 0 .. MaxOps

OnePagePerPath ==
    \A p, q \in Pages : Live(p) /\ pages[p].path = pages[q].path => p = q

(* What a page calls for, what waits and what is written was called for. *)
Called ==
    /\ \A p \in Pages : Live(p) =>
          \A ns \in pages[p].grant : <<ns, pages[p].path, pages[p].rev>> \in held
    /\ \A ns \in Namespaces, path \in Paths, rev \in 1 .. MaxOps :
          Pending(ns, path, rev) => <<ns, path, rev>> \in held
    /\ EntriesOnceHeld

(* Where the path is not unsure, all that waits for it agrees with the       *)
(* pages, and where nothing waits the vault does.                            *)
Mirrored ==
    \A path \in Paths \ unsure, ns \in Namespaces :
        /\ \A rev \in 0 .. MaxOps : Pending(ns, path, rev) => rev = Expected[ns][path]
        /\ (\A rev \in 0 .. MaxOps : ~Pending(ns, path, rev)) =>
              vault[ns][path] = Expected[ns][path]

DInv == Shape /\ OnePagePerPath /\ Called /\ Mirrored

-----------------------------------------------------------------------------
(* The last entry for a path. *)

(* A finite set of positions has a last one. *)
LEMMA LastPosition ==
    ASSUME NEW n \in Nat, NEW S \in SUBSET (1 .. n), S # {}
    PROVE  Max(S) \in S
  <1> DEFINE R == {ss \in Nat \X Nat : ss[1] < ss[2]}
             Gaps == {n - k : k \in S}
  <1>1. IsWellFoundedOn(R, Nat)
    BY NatLessThanWellFounded DEF OpToRel
  <1>2. Gaps \subseteq Nat /\ Gaps # {}
    <2>1. \A k \in S : n - k \in Nat
      OBVIOUS
    <2>2. PICK k \in S : TRUE
      OBVIOUS
    <2>3. n - k \in Gaps
      BY <2>2
    <2> QED  BY <2>1, <2>3
  <1>3. PICK g \in Gaps : \A h \in Gaps : <<h, g>> \notin R
    <2> HIDE DEF R, Gaps
    <2> QED  BY <1>1, <1>2, WFMin
  <1>4. PICK k \in S : g = n - k
    OBVIOUS
  <1>5. ASSUME NEW j \in S PROVE k >= j
    <2>1. n - j \in Gaps
      OBVIOUS
    <2>2. g \in Nat /\ n - j \in Nat
      BY <1>2, <2>1
    <2>3. ~(n - j < n - k)
      BY <1>3, <1>4, <2>1, <2>2
    <2>4. j \in 1 .. n /\ k \in 1 .. n
      OBVIOUS
    <2> QED  BY <2>3, <2>4
  <1> QED
    BY <1>5 DEF Max

(* An instruction sets in the vault what it says, and nothing else. *)
LEMMA Effect ==
    ASSUME NEW i \in Instruction, NEW v \in [Namespaces -> [Paths -> 0 .. MaxOps]]
    PROVE  /\ After(v, i) \in [Namespaces -> [Paths -> 0 .. MaxOps]]
           /\ \A ns \in Namespaces, path \in Paths :
                 \/ Says(i, ns, path, After(v, i)[ns][path])
                 \/ /\ \A rev \in 0 .. MaxOps : ~Says(i, ns, path, rev)
                    /\ After(v, i)[ns][path] = v[ns][path]
  <1>1. CASE i.op = "upsert"
    <2>1. i.ns \in Namespaces /\ i.entries \in Seq(Entry)
      BY <1>1 DEF Instruction
    <2> DEFINE At(path) == {k \in DOMAIN i.entries : i.entries[k].path = path}
               row == [path \in Paths |->
                         IF At(path) = {} THEN v[i.ns][path]
                         ELSE i.entries[Max(At(path))].rev]
    <2>2. After(v, i) = [v EXCEPT ![i.ns] = row]
      BY <1>1 DEF After
    <2>3. \A path \in Paths : At(path) # {} => Max(At(path)) \in At(path)
      <3> TAKE path \in Paths
      <3>1. At(path) \in SUBSET (1 .. Len(i.entries)) /\ Len(i.entries) \in Nat
        BY <2>1
      <3> HIDE DEF At
      <3> QED  BY <3>1, LastPosition
    <2>4. \A path \in Paths :
             /\ row[path] \in 0 .. MaxOps
             /\ At(path) = {} => row[path] = v[i.ns][path]
             /\ At(path) # {} => \E k \in At(path) : row[path] = i.entries[k].rev
      <3> TAKE path \in Paths
      <3>1. CASE At(path) = {}
        BY <2>1, <3>1
      <3>2. CASE At(path) # {}
        <4> DEFINE m == Max(At(path))
        <4>1. m \in DOMAIN i.entries /\ m \in At(path)
          BY <2>3, <3>2
        <4>2. row[path] = i.entries[m].rev
          BY <3>2
        <4> HIDE DEF m, At, row
        <4>3. i.entries[m] \in Entry
          BY <2>1, <4>1
        <4>4. i.entries[m].rev \in 0 .. MaxOps
          BY <4>3, DispatcherAssumption DEF Entry, DispatcherAssumption
        <4> QED  BY <3>2, <4>1, <4>2, <4>4
      <3> QED  BY <3>1, <3>2
    <2> HIDE DEF row
    <2>5. row \in [Paths -> 0 .. MaxOps]
      <3>1. row = [path \in Paths |-> row[path]]
        BY DEF row
      <3> QED  BY <2>4, <3>1
    <2>6. After(v, i) \in [Namespaces -> [Paths -> 0 .. MaxOps]]
      BY <2>1, <2>2, <2>5
    <2>7. ASSUME NEW ns \in Namespaces, NEW path \in Paths
          PROVE  \/ Says(i, ns, path, After(v, i)[ns][path])
                 \/ /\ \A rev \in 0 .. MaxOps : ~Says(i, ns, path, rev)
                    /\ After(v, i)[ns][path] = v[ns][path]
      <3>1. CASE ns # i.ns
        BY <2>1, <2>2, <3>1 DEF Says
      <3>2. CASE ns = i.ns
        <4>1. After(v, i)[ns] = row
          BY <2>1, <2>2, <3>2
        <4>2. CASE At(path) = {}
          BY <1>1, <2>4, <3>2, <4>1, <4>2 DEF Says
        <4>3. CASE At(path) # {}
          BY <1>1, <2>4, <3>2, <4>1, <4>3 DEF Says
        <4> QED  BY <4>2, <4>3
      <3> QED  BY <3>1, <3>2
    <2> QED  BY <2>6, <2>7
  <1>2. CASE i.op = "remove"
    <2>1. i.ns \in Namespaces /\ i.path \in Paths
      BY <1>2 DEF Instruction
    <2>2. After(v, i) = [v EXCEPT ![i.ns][i.path] = NoRevision]
      BY <1>2 DEF After
    <2>3. NoRevision \in 0 .. MaxOps
      BY DispatcherAssumption DEF DispatcherAssumption, NoRevision
    <2> QED  BY <1>2, <2>1, <2>2, <2>3 DEF Says
  <1>3. CASE i.op = "rename-prefix"
    BY <1>3 DEF After, Says
  <1> QED
    BY <1>1, <1>2, <1>3 DEF Instruction

(* What waits for a path keeps it unsettled, and what an instruction says    *)
(* of a path it writes.                                                      *)
LEMMA PendingUnsettled ==
    /\ \A i, ns, path, rev : i \in Instruction /\ Says(i, ns, path, rev) => path \in Writes(i)
    /\ Shape => \A ns \in Namespaces : \A path, rev :
                   Pending(ns, path, rev) => path \in Unsettled
  <1>1. ASSUME NEW i \in Instruction, NEW ns, NEW path, NEW rev, Says(i, ns, path, rev)
        PROVE  path \in Writes(i)
    BY <1>1 DEF Says, Writes, ToSet
  <1>2. ASSUME Shape, NEW ns \in Namespaces, NEW path, NEW rev, Pending(ns, path, rev)
        PROVE  path \in Unsettled
    <2>1. CASE Waits(ns, path, rev)
      <3>1. PICK k \in DOMAIN buffer[ns] : buffer[ns][k].path = path
        BY <2>1 DEF Waits
      <3>2. buffer[ns][k] \in ToSet(buffer[ns])
        BY DEF ToSet
      <3>3. path \in {e.path : e \in ToSet(buffer[ns])}
        BY <3>1, <3>2
      <3> QED  BY <3>3 DEF Unsettled
    <2>2. CASE \E w \in writing : Says(w.instr, ns, path, rev)
      <3>1. PICK w \in writing : Says(w.instr, ns, path, rev)
        BY <2>2
      <3>2. w.instr \in Instruction
        BY <1>2 DEF Shape
      <3>3. path \in Writes(w.instr)
        BY <1>1, <3>1, <3>2
      <3> QED  BY <3>3 DEF Unsettled
    <2> QED  BY <1>2, <2>1, <2>2 DEF Pending
  <1> QED
    BY <1>1, <1>2

-----------------------------------------------------------------------------
(* What the pages call for. *)

(* No two pages want the same path, so the vault is to hold the revision of  *)
(* the page that does, if one does.                                          *)
LEMMA ExpectedRevision ==
    /\ OnePagePerPath => \A ns \in Namespaces, path \in Paths :
          /\ \A p \in Pages : Wants(pages[p], ns, path) => Expected[ns][path] = pages[p].rev
          /\ (\A p \in Pages : ~Wants(pages[p], ns, path)) => Expected[ns][path] = NoRevision
    /\ OnePagePerPath' => \A ns \in Namespaces, path \in Paths :
          /\ \A p \in Pages : Wants(pages'[p], ns, path) => Expected'[ns][path] = pages'[p].rev
          /\ (\A p \in Pages : ~Wants(pages'[p], ns, path)) => Expected'[ns][path] = NoRevision
  <1>1. ASSUME OnePagePerPath, NEW ns \in Namespaces, NEW path \in Paths
        PROVE  /\ \A p \in Pages : Wants(pages[p], ns, path) =>
                     Expected[ns][path] = pages[p].rev
               /\ (\A p \in Pages : ~Wants(pages[p], ns, path)) =>
                     Expected[ns][path] = NoRevision
    <2> DEFINE there == {p \in Pages : Wants(pages[p], ns, path)}
    <2>1. Expected[ns][path] = IF there = {} THEN NoRevision
                               ELSE pages[CHOOSE p \in there : TRUE].rev
      BY DEF Expected
    <2>2. \A p, q \in there : p = q
      BY <1>1 DEF OnePagePerPath, Wants, Live, Absent
    <2>3. there # {} => (CHOOSE p \in there : TRUE) \in there
      OBVIOUS
    <2> QED  BY <2>1, <2>2, <2>3
  <1>2. ASSUME OnePagePerPath', NEW ns \in Namespaces, NEW path \in Paths
        PROVE  /\ \A p \in Pages : Wants(pages'[p], ns, path) =>
                     Expected'[ns][path] = pages'[p].rev
               /\ (\A p \in Pages : ~Wants(pages'[p], ns, path)) =>
                     Expected'[ns][path] = NoRevision
    <2> DEFINE there == {p \in Pages : Wants(pages'[p], ns, path)}
    <2>1. Expected'[ns][path] = IF there = {} THEN NoRevision
                                ELSE pages'[CHOOSE p \in there : TRUE].rev
      BY DEF Expected
    <2>2. \A p, q \in there : p = q
      BY <1>2 DEF OnePagePerPath, Wants, Live, Absent
    <2>3. there # {} => (CHOOSE p \in there : TRUE) \in there
      OBVIOUS
    <2> QED  BY <2>1, <2>2, <2>3
  <1> QED
    BY <1>1, <1>2

-----------------------------------------------------------------------------
(* What the handlers add to what waits. *)

(* What an event that calls for a page at path posts, and what one that      *)
(* takes it away posts.                                                      *)
Posted(nss, path, rev) ==
    IF rev = NoRevision THEN {} ELSE {<<ns, path, rev>> : ns \in nss}
Removed(nss, path) == {<<ns, path, NoRevision>> : ns \in nss}

(* The outbox stays well formed, and now N waits as well. *)
Adds(N) ==
    /\ buffer' \in [Namespaces -> Seq(Entry)]
    /\ \A ns \in Namespaces : Len(buffer'[ns]) < ChunkSize
    /\ writing' \subseteq [at : Nat, tries : {1, 2}, instr : Instruction]
    /\ \A ns \in Namespaces, path \in Paths, rev \in 0 .. MaxOps :
          Pending(ns, path, rev)' <=> Pending(ns, path, rev) \/ <<ns, path, rev>> \in N

(* Whether the entry joins its buffer or fills the chunk, it waits. *)
LEMMA EnqueueAdds ==
    ASSUME Shape, NEW nss \in SUBSET Namespaces, NEW path \in Paths,
           NEW rev \in 0 .. MaxOps, Enqueue(nss, path, rev)
    PROVE  Adds(Posted(nss, path, rev))
  <1> DEFINE entry == [path |-> path, rev |-> rev]
             into == IF rev = NoRevision THEN {} ELSE nss
             full == {ns \in into : Len(buffer[ns]) + 1 >= ChunkSize}
             up(ns) == Upsert(ns, Append(buffer[ns], entry))
             flushed == {Write(clock + 1, up(ns)) : ns \in full}
  <1>1. /\ buffer' = [ns \in Namespaces |->
                        CASE ns \in full -> <<>>
                          [] ns \in into \ full -> Append(buffer[ns], entry)
                          [] OTHER -> buffer[ns]]
        /\ writing' = writing \cup flushed
    BY DEF Enqueue
  <1>2. into \subseteq Namespaces /\ full \subseteq into
    OBVIOUS
  <1>3. into # {} => entry \in Entry
    BY DEF Entry, NoRevision
  <1>4. /\ \A ns \in full : buffer'[ns] = <<>>
        /\ \A ns \in into \ full : buffer'[ns] = Append(buffer[ns], entry)
        /\ \A ns \in Namespaces \ into : buffer'[ns] = buffer[ns]
        /\ buffer' = [ns \in Namespaces |-> buffer'[ns]]
    <2> HIDE DEF into, full, entry, flushed
    <2> QED  BY <1>1, <1>2
  <1>5. \A ns \in Namespaces : buffer[ns] \in Seq(Entry) /\ Len(buffer[ns]) < ChunkSize
    BY DEF Shape
  <1>6. ChunkSize \in Nat /\ 0 < ChunkSize
    BY DispatcherAssumption DEF DispatcherAssumption
  <1>7. \A ns \in into \ full : Len(buffer[ns]) + 1 < ChunkSize
    BY <1>2, <1>5, <1>6
  <1>8. \A ns \in into : /\ Append(buffer[ns], entry) \in Seq(Entry)
                         /\ Len(Append(buffer[ns], entry)) = Len(buffer[ns]) + 1
    <2> HIDE DEF into, entry
    <2> QED  BY <1>2, <1>3, <1>5
  <1> HIDE DEF full
  <1>9. \A ns \in Namespaces : buffer'[ns] \in Seq(Entry) /\ Len(buffer'[ns]) < ChunkSize
    <2> TAKE ns \in Namespaces
    <2> HIDE DEF into, entry
    <2>1. CASE ns \in full
      <3>1. <<>> \in Seq(Entry) /\ Len(<<>>) = 0
        OBVIOUS
      <3>2. buffer'[ns] = <<>>
        BY <1>4, <2>1
      <3> QED  BY <1>6, <3>1, <3>2
    <2>2. CASE ns \in into \ full
      BY <1>4, <1>7, <1>8, <2>2
    <2>3. CASE ns \in Namespaces \ into
      BY <1>4, <1>5, <2>3
    <2> QED  BY <2>1, <2>2, <2>3
  <1>10. flushed \subseteq [at : Nat, tries : {1, 2}, instr : Instruction]
    <2>1. clock + 1 \in Nat
      BY DispatcherAssumption DEF Shape, DispatcherAssumption
    <2>2. \A ns \in full : Upsert(ns, Append(buffer[ns], entry)) \in Instruction
      <3> HIDE DEF into, entry
      <3> QED  BY <1>2, <1>8 DEF Upsert, Instruction
    <2> QED  BY <2>1, <2>2 DEF Write
  <1>11. ASSUME NEW ns \in Namespaces, NEW q \in Paths, NEW v \in 0 .. MaxOps
         PROVE  Pending(ns, q, v)' <=>
                  Pending(ns, q, v) \/ <<ns, q, v>> \in Posted(nss, path, rev)
    <2>1. <<ns, q, v>> \in Posted(nss, path, rev) <=> ns \in into /\ q = path /\ v = rev
      BY DEF Posted
    <2>2. \A s \in Seq(Entry) :
             (\E k \in DOMAIN Append(s, entry) :
                 Append(s, entry)[k].path = q /\ Append(s, entry)[k].rev = v)
             <=> \/ \E k \in DOMAIN s : s[k].path = q /\ s[k].rev = v
                 \/ (q = path /\ v = rev)
      <3> TAKE s \in Seq(Entry)
      <3> DEFINE s1 == Append(s, entry)
      <3>1. /\ DOMAIN s1 = 1 .. Len(s) + 1 /\ DOMAIN s = 1 .. Len(s) /\ Len(s) \in Nat
            /\ s1[Len(s) + 1] = entry
            /\ \A k \in 1 .. Len(s) : s1[k] = s[k]
        OBVIOUS
      <3> HIDE DEF s1
      <3>2. entry.path = path /\ entry.rev = rev
        OBVIOUS
      <3>3. \A k \in 1 .. Len(s) + 1 : k \in 1 .. Len(s) \/ k = Len(s) + 1
        BY <3>1
      <3>4. \A k \in 1 .. Len(s) : k \in 1 .. Len(s) + 1
        BY <3>1
      <3>5. Len(s) + 1 \in 1 .. Len(s) + 1
        BY <3>1
      <3> HIDE DEF entry
      <3>6. (\E k \in DOMAIN s1 : s1[k].path = q /\ s1[k].rev = v)
            <=> \/ \E k \in DOMAIN s : s[k].path = q /\ s[k].rev = v
                \/ (q = path /\ v = rev)
        BY <3>1, <3>2, <3>3, <3>4, <3>5
      <3> QED  BY <3>6 DEF s1
    <2> HIDE DEF into, entry
    <2>3. (\E w \in flushed : Says(w.instr, ns, q, v)) <=>
             ns \in full /\ (Waits(ns, q, v) \/ (q = path /\ v = rev))
      <3>1. (\E w \in flushed : Says(w.instr, ns, q, v)) <=>
               \E m \in full : Says(up(m), ns, q, v)
        <4> HIDE DEF up
        <4>1. \A m : Write(clock + 1, up(m)).instr = up(m)
          BY DEF Write
        <4> QED  BY Zenon, <4>1
      <3>2. ASSUME NEW m \in full
            PROVE  Says(up(m), ns, q, v) <=>
                      ns = m /\ (Waits(ns, q, v) \/ (q = path /\ v = rev))
        <4>1. m \in Namespaces /\ buffer[m] \in Seq(Entry)
          BY <1>2, <1>5
        <4>2. Says(up(m), ns, q, v) <=>
                 /\ m = ns
                 /\ \E k \in DOMAIN Append(buffer[m], entry) :
                       /\ Append(buffer[m], entry)[k].path = q
                       /\ Append(buffer[m], entry)[k].rev = v
          <5> DEFINE s == Append(buffer[m], entry)
          <5>1. up(m) = [op |-> "upsert", ns |-> m, entries |-> s]
            BY DEF Upsert
          <5> HIDE DEF s, up
          <5>2. up(m).op = "upsert" /\ up(m).ns = m /\ up(m).entries = s
            BY <5>1
          <5>3. Says(up(m), ns, q, v) <=>
                   m = ns /\ \E k \in DOMAIN s : s[k].path = q /\ s[k].rev = v
            BY <5>2 DEF Says
          <5> QED  BY <5>3 DEF s
        <4> QED  BY <2>2, <4>1, <4>2 DEF Waits
      <3> HIDE DEF up, flushed
      <3> QED  BY <3>1, <3>2
    <2> HIDE DEF flushed
    <2>4. Pending(ns, q, v)' <=>
             \/ Waits(ns, q, v)'
             \/ \E w \in writing : Says(w.instr, ns, q, v)
             \/ \E w \in flushed : Says(w.instr, ns, q, v)
      BY <1>1 DEF Pending, Says
    <2>5. CASE ns \in full
      <3>1. buffer'[ns] = <<>> /\ DOMAIN <<>> = {}
        BY <1>4, <2>5
      <3>2. ~Waits(ns, q, v)'
        <4>1. \A k : k \notin DOMAIN buffer'[ns]
          BY <3>1, Zenon
        <4> QED  BY <4>1 DEF Waits
      <3> QED  BY <1>2, <2>1, <2>3, <2>4, <2>5, <3>2 DEF Pending
    <2>6. CASE ns \in into \ full
      <3>1. Waits(ns, q, v)' <=> Waits(ns, q, v) \/ (q = path /\ v = rev)
        <4>1. buffer'[ns] = Append(buffer[ns], entry) /\ buffer[ns] \in Seq(Entry)
          BY <1>4, <1>5, <2>6, Zenon
        <4> QED  BY <2>2, <4>1 DEF Waits
      <3> QED  BY <2>1, <2>3, <2>4, <2>6, <3>1 DEF Pending
    <2>7. CASE ns \notin into
      <3>1. Waits(ns, q, v)' <=> Waits(ns, q, v)
        BY <1>4, <2>7 DEF Waits
      <3> QED  BY <1>2, <2>1, <2>3, <2>4, <2>7, <3>1 DEF Pending
    <2> QED  BY <2>5, <2>6, <2>7
  <1>12. buffer' \in [Namespaces -> Seq(Entry)]
    BY <1>4, <1>9
  <1>13. writing' \subseteq [at : Nat, tries : {1, 2}, instr : Instruction]
    <2> HIDE DEF flushed
    <2> QED  BY <1>1, <1>10 DEF Shape
  <1> QED
    BY <1>9, <1>11, <1>12, <1>13 DEF Adds

(* The removes and upserts of a handler that writes at once all wait. *)
LEMMA WritesAdd ==
    ASSUME Shape, NEW old \in SUBSET Namespaces, NEW now \in SUBSET Namespaces,
           NEW from \in Paths, NEW to \in Paths, NEW rev \in 0 .. MaxOps,
           writing' = writing \cup RemoveFrom(old, from) \cup UpsertInto(now, to, rev),
           UNCHANGED buffer
    PROVE  Adds(Removed(old, from) \cup Posted(now, to, rev))
  <1> DEFINE out == RemoveFrom(old, from)
             in == UpsertInto(now, to, rev)
             entries == <<[path |-> to, rev |-> rev]>>
  <1>1. clock + 1 \in Nat
    BY DispatcherAssumption DEF Shape, DispatcherAssumption
  <1>2. out \subseteq [at : Nat, tries : {1, 2}, instr : Instruction]
    <2>1. \A ns \in old : RemovePage(ns, from) \in Instruction
      BY DEF RemovePage, Instruction
    <2> QED  BY <1>1, <2>1 DEF RemoveFrom, Write
  <1>3. in \subseteq [at : Nat, tries : {1, 2}, instr : Instruction]
    <2>1. ASSUME rev # NoRevision, NEW ns \in now
          PROVE  Upsert(ns, entries) \in Instruction
      <3>1. [path |-> to, rev |-> rev] \in Entry
        BY <2>1 DEF Entry, NoRevision
      <3>2. entries \in Seq(Entry)
        BY <3>1
      <3> QED  BY <3>2 DEF Upsert, Instruction
    <2> QED  BY <1>1, <2>1 DEF UpsertInto, Write
  <1>4. ASSUME NEW ns \in Namespaces, NEW q \in Paths, NEW v \in 0 .. MaxOps
        PROVE  Pending(ns, q, v)' <=>
                 \/ Pending(ns, q, v)
                 \/ <<ns, q, v>> \in Removed(old, from) \cup Posted(now, to, rev)
    <2>1. (\E w \in out : Says(w.instr, ns, q, v)) <=> <<ns, q, v>> \in Removed(old, from)
      <3>1. (\E w \in out : Says(w.instr, ns, q, v)) <=>
               \E m \in old : Says(RemovePage(m, from), ns, q, v)
        <4>1. \A i : Write(clock + 1, i).instr = i
          BY DEF Write
        <4> QED  BY Zenon, <4>1 DEF RemoveFrom
      <3>2. \A m \in old : Says(RemovePage(m, from), ns, q, v) <=>
                             m = ns /\ q = from /\ v = NoRevision
        BY DEF Says, RemovePage
      <3> QED  BY <3>1, <3>2 DEF Removed
    <2>2. (\E w \in in : Says(w.instr, ns, q, v)) <=> <<ns, q, v>> \in Posted(now, to, rev)
      <3>1. (\E w \in in : Says(w.instr, ns, q, v)) <=>
               rev # NoRevision /\ \E m \in now : Says(Upsert(m, entries), ns, q, v)
        <4>1. \A i : Write(clock + 1, i).instr = i
          BY DEF Write
        <4> QED  BY Zenon, <4>1 DEF UpsertInto
      <3>2. \A m \in now : Says(Upsert(m, entries), ns, q, v) <=>
                             m = ns /\ q = to /\ v = rev
        <4>1. DOMAIN entries = {1} /\ entries[1].path = to /\ entries[1].rev = rev
          OBVIOUS
        <4> HIDE DEF entries
        <4> QED  BY <4>1 DEF Says, Upsert
      <3> HIDE DEF entries
      <3> QED  BY <3>1, <3>2 DEF Posted
    <2> HIDE DEF in, out
    <2> QED  BY <2>1, <2>2 DEF Pending, Waits, Says, in, out
  <1> HIDE DEF in, out
  <1> QED
    BY <1>2, <1>3, <1>4 DEF Adds, Shape, in, out

-----------------------------------------------------------------------------
(* Page operations. *)

(* Page p becomes page, and N is what its event adds.  What was called for   *)
(* is the entries of N, and if the event carries the change then N says what *)
(* the pages now call for wherever that is not what they called for before.  *)
Reports(operation, p, page, N) ==
    /\ \A ns \in Namespaces, path \in Paths, rev \in 0 .. MaxOps :
          <<ns, path, rev>> \in N =>
             /\ path \in {pages[p].path, page.path}
             /\ rev # NoRevision => ns \in page.grant /\ path = page.path /\ rev = page.rev
    /\ operation \in Carried =>
       \A ns \in Namespaces, path \in Paths \cap {pages[p].path, page.path} :
          /\ \A rev \in 0 .. MaxOps : <<ns, path, rev>> \in N => rev = Expected'[ns][path]
          /\ (\A rev \in 0 .. MaxOps : <<ns, path, rev>> \notin N) =>
                Expected'[ns][path] = Expected[ns][path]

LEMMA ChangeKeeps ==
    ASSUME DInv, NEW operation, NEW p \in Pages, NEW page \in Page \cup {Absent}, NEW N,
           page = Absent \/ Free(page.path) \/ (Live(p) /\ page.path = pages[p].path),
           Change(operation, p, page), Adds(N),
           OnePagePerPath' => Reports(operation, p, page, N)
    PROVE  DInv'
  <1>1. /\ pages \in [Pages -> Page \cup {Absent}]
        /\ pages' = [pages EXCEPT ![p] = page]
        /\ clock' = clock + 1 /\ clock < MaxOps
        /\ UNCHANGED vault
    BY DEF DInv, Shape, Change
  <1>2. Shape'
    <2>1. pages' \in [Pages -> Page \cup {Absent}]
      BY <1>1
    <2>2. clock' \in 0 .. MaxOps
      BY <1>1, DispatcherAssumption DEF DInv, Shape, DispatcherAssumption
    <2> QED  BY <1>1, <2>1, <2>2 DEF DInv, Shape, Adds
  <1>3. pages'[p] = page /\ \A q \in Pages \ {p} : pages'[q] = pages[q]
    BY <1>1
  <1>4. OnePagePerPath'
    <2> SUFFICES ASSUME NEW q \in Pages, NEW r \in Pages, pages'[q] # Absent,
                        pages'[q].path = pages'[r].path
                 PROVE  q = r
      BY DEF OnePagePerPath, Live
    <2>1. pages'[r] # Absent
      BY <1>2, DispatcherAssumption DEF Shape, Page, Absent, DispatcherAssumption
    <2>2. \A x, y \in Pages : pages[x] # Absent /\ pages[x].path = pages[y].path => x = y
      BY DEF DInv, OnePagePerPath, Live
    <2>3. CASE page = Absent
      BY <1>3, <2>1, <2>2, <2>3
    <2>4. CASE Free(page.path)
      BY <1>3, <2>2, <2>4 DEF Free
    <2>5. CASE Live(p) /\ page.path = pages[p].path
      BY <1>3, <2>1, <2>2, <2>5 DEF Live
    <2> QED  BY <2>3, <2>4, <2>5
  <1>5. Reports(operation, p, page, N)
    BY <1>4
  <1>6. held' = held \cup {<<ns, page.path, page.rev>> : ns \in page.grant}
    BY DEF Change
  <1>7. Called'
    <2>1. ASSUME NEW q \in Pages, Live(q)', NEW ns \in pages'[q].grant
          PROVE  <<ns, pages'[q].path, pages'[q].rev>> \in held'
      <3>1. CASE q = p
        BY <1>3, <1>6, <2>1, <3>1
      <3>2. CASE q # p
        BY <1>3, <1>6, <2>1, <3>2 DEF DInv, Called, Live
      <3> QED  BY <3>1, <3>2
    <2>2. ASSUME NEW ns \in Namespaces, NEW path \in Paths, NEW rev \in 1 .. MaxOps,
                 Pending(ns, path, rev)'
          PROVE  <<ns, path, rev>> \in held'
      <3>1. rev \in 0 .. MaxOps /\ rev # NoRevision
        BY DEF NoRevision
      <3>2. CASE Pending(ns, path, rev)
        BY <1>6, <3>2 DEF DInv, Called
      <3>3. CASE <<ns, path, rev>> \in N
        BY <1>5, <1>6, <3>1, <3>3 DEF Reports
      <3> QED  BY <2>2, <3>1, <3>2, <3>3 DEF Adds
    <2>3. EntriesOnceHeld'
      BY <1>1, <1>6 DEF DInv, Called, EntriesOnceHeld
    <2> QED  BY <2>1, <2>2, <2>3 DEF Called
  <1>8. Mirrored'
    <2> SUFFICES ASSUME NEW path \in Paths \ unsure', NEW ns \in Namespaces
                 PROVE  /\ \A rev \in 0 .. MaxOps :
                              Pending(ns, path, rev)' => rev = Expected'[ns][path]
                        /\ (\A rev \in 0 .. MaxOps : ~Pending(ns, path, rev)') =>
                              vault'[ns][path] = Expected'[ns][path]
      BY DEF Mirrored
    <2> DEFINE touched == {pages[p].path, page.path} \cap Paths
    <2>1. unsure' = unsure \cup IF operation \in Carried THEN touched \cap Unsettled
                                ELSE touched
      BY DEF Change
    <2>2. path \notin unsure
      BY <2>1
    <2>3. /\ \A rev \in 0 .. MaxOps : Pending(ns, path, rev) => rev = Expected[ns][path]
          /\ (\A rev \in 0 .. MaxOps : ~Pending(ns, path, rev)) =>
                vault[ns][path] = Expected[ns][path]
      BY <2>2 DEF DInv, Mirrored
    <2>4. \A rev \in 0 .. MaxOps :
             Pending(ns, path, rev)' <=> Pending(ns, path, rev) \/ <<ns, path, rev>> \in N
      BY DEF Adds
    <2>5. CASE path \in touched
      <3>1. operation \in Carried /\ path \notin Unsettled
        BY <2>1, <2>5
      <3>2. \A rev \in 0 .. MaxOps : ~Pending(ns, path, rev)
        BY <3>1, PendingUnsettled DEF DInv
      <3>3. /\ \A rev \in 0 .. MaxOps : <<ns, path, rev>> \in N => rev = Expected'[ns][path]
            /\ (\A rev \in 0 .. MaxOps : <<ns, path, rev>> \notin N) =>
                  Expected'[ns][path] = Expected[ns][path]
        <4>1. path \in Paths \cap {pages[p].path, page.path}
          BY <2>5
        <4> QED  BY <1>5, <3>1, <4>1 DEF Reports
      <3> QED  BY <1>1, <2>3, <2>4, <3>2, <3>3
    <2>6. CASE path \notin touched
      <3>1. \A rev \in 0 .. MaxOps : <<ns, path, rev>> \notin N
        BY <1>5, <2>6 DEF Reports
      <3>2. \A q \in Pages : Wants(pages'[q], ns, path) <=> Wants(pages[q], ns, path)
        BY <1>3, <2>6 DEF Wants
      <3>3. \A q \in Pages : Wants(pages[q], ns, path) => pages'[q].rev = pages[q].rev
        BY <1>3, <2>6 DEF Wants
      <3>4. /\ \A q \in Pages : Wants(pages[q], ns, path) =>
                  Expected[ns][path] = pages[q].rev
            /\ (\A q \in Pages : ~Wants(pages[q], ns, path)) =>
                  Expected[ns][path] = NoRevision
        BY ExpectedRevision DEF DInv
      <3>5. /\ \A q \in Pages : Wants(pages'[q], ns, path) =>
                  Expected'[ns][path] = pages'[q].rev
            /\ (\A q \in Pages : ~Wants(pages'[q], ns, path)) =>
                  Expected'[ns][path] = NoRevision
        BY <1>4, ExpectedRevision
      <3>6. Expected'[ns][path] = Expected[ns][path]
        BY <3>2, <3>3, <3>4, <3>5
      <3> QED  BY <1>1, <2>3, <2>4, <3>1, <3>6
    <2> QED  BY <2>5, <2>6
  <1> QED
    BY <1>2, <1>4, <1>7, <1>8 DEF DInv

(* A page of the vault has a path and a grant of its namespaces.             *)
LEMMA LiveFields ==
    ASSUME DInv, NEW p \in Pages, Live(p)
    PROVE  /\ pages[p] \in Page
           /\ pages[p] = [rev |-> pages[p].rev, grant |-> pages[p].grant, path |-> pages[p].path]
           /\ pages[p].path \in Paths /\ pages[p].grant \in Grants
           /\ pages[p].grant \subseteq Namespaces /\ pages[p].rev \in 0 .. MaxOps
  <1>1. pages[p] \in Page
    BY DEF DInv, Shape, Live
  <1> QED
    BY <1>1, DispatcherAssumption DEF Page, DispatcherAssumption

(* What the pages call for at the paths of a page, before and after it       *)
(* changes.                                                                  *)
LEMMA ExpectedOfPage ==
    ASSUME DInv, NEW p \in Pages, NEW page \in Page \cup {Absent},
           pages' = [pages EXCEPT ![p] = page], OnePagePerPath',
           NEW ns \in Namespaces, NEW path \in Paths
    PROVE  /\ page.path = path =>
                 Expected'[ns][path] = IF ns \in page.grant THEN page.rev ELSE NoRevision
           /\ Live(p) /\ pages[p].path = path /\ page.path # path =>
                 Expected'[ns][path] = NoRevision
           /\ Live(p) /\ pages[p].path = path /\ ns \notin pages[p].grant =>
                 Expected[ns][path] = NoRevision
           /\ Free(path) => Expected[ns][path] = NoRevision
  <1>1. pages'[p] = page /\ \A q \in Pages \ {p} : pages'[q] = pages[q]
    BY DEF DInv, Shape
  <1>2. /\ \A q \in Pages : Wants(pages[q], ns, path) => Expected[ns][path] = pages[q].rev
        /\ (\A q \in Pages : ~Wants(pages[q], ns, path)) => Expected[ns][path] = NoRevision
    BY ExpectedRevision DEF DInv
  <1>3. /\ \A q \in Pages : Wants(pages'[q], ns, path) => Expected'[ns][path] = pages'[q].rev
        /\ (\A q \in Pages : ~Wants(pages'[q], ns, path)) => Expected'[ns][path] = NoRevision
    BY ExpectedRevision
  <1>4. \A q, r \in Pages : pages[q] # Absent /\ pages[q].path = pages[r].path => q = r
    BY DEF DInv, OnePagePerPath, Live
  <1>5. \A q, r \in Pages : pages'[q] # Absent /\ pages'[q].path = pages'[r].path => q = r
    BY DEF OnePagePerPath, Live
  <1>6. ASSUME page.path = path
        PROVE  Expected'[ns][path] = IF ns \in page.grant THEN page.rev ELSE NoRevision
    <2>1. page # Absent
      BY <1>6, DispatcherAssumption DEF Absent, DispatcherAssumption
    <2>2. \A q \in Pages : pages'[q].path = path => q = p
      BY <1>1, <1>5, <1>6, <2>1
    <2> QED  BY <1>1, <1>3, <1>6, <2>2 DEF Wants
  <1>7. ASSUME Live(p), pages[p].path = path
        PROVE  \A q \in Pages : pages[q].path = path => q = p
    BY <1>4, <1>7 DEF Live
  <1>8. Live(p) /\ pages[p].path = path /\ page.path # path => Expected'[ns][path] = NoRevision
    BY <1>1, <1>3, <1>7 DEF Wants
  <1>9. Live(p) /\ pages[p].path = path /\ ns \notin pages[p].grant =>
           Expected[ns][path] = NoRevision
    BY <1>2, <1>7 DEF Wants
  <1>10. Free(path) => Expected[ns][path] = NoRevision
    BY <1>2 DEF Free, Wants
  <1> QED
    BY <1>6, <1>8, <1>9, <1>10

LEMMA CreateKeeps ==
    ASSUME DInv, NEW p \in Pages, NEW path \in Paths, NEW grant \in Grants,
           NEW rev \in 0 .. MaxOps, Create(p, path, grant, rev)
    PROVE  DInv'
  <1> DEFINE page == [rev |-> rev, grant |-> grant, path |-> path]
             N == Posted(grant, path, rev)
  <1>1. ~Live(p) /\ Free(path) /\ Change("create", p, page) /\ Enqueue(grant, path, rev)
    BY DEF Create
  <1>2. page \in Page /\ grant \subseteq Namespaces
    BY DispatcherAssumption DEF Page, DispatcherAssumption
  <1>3. Adds(N)
    BY <1>1, <1>2, EnqueueAdds DEF DInv
  <1>4. pages' = [pages EXCEPT ![p] = page]
    BY <1>1 DEF Change
  <1>5. ASSUME OnePagePerPath' PROVE Reports("create", p, page, N)
    <2>1. pages[p].path \notin Paths
      BY <1>1, DispatcherAssumption DEF Live, Absent, DispatcherAssumption
    <2>2. ASSUME NEW ns \in Namespaces
          PROVE  /\ Expected'[ns][path] = IF ns \in grant THEN rev ELSE NoRevision
                 /\ Expected[ns][path] = NoRevision
      <3> HIDE DEF page
      <3>1. page.path = path /\ page.grant = grant /\ page.rev = rev
        BY DEF page
      <3>2. page \in Page \cup {Absent}
        BY <1>2
      <3> QED  BY <1>1, <1>4, <1>5, <3>1, <3>2, ExpectedOfPage, Zenon
    <2> QED  BY <2>1, <2>2 DEF Reports, Posted
  <1> HIDE DEF page, N
  <1>6. page.path = path
    BY DEF page
  <1> QED
    BY <1>1, <1>2, <1>3, <1>5, <1>6, ChangeKeeps

LEMMA EditKeeps ==
    ASSUME DInv, NEW p \in Pages, Edit(p)
    PROVE  DInv'
  <1> DEFINE old == pages[p]
             rev == clock + 1
             page == [rev |-> rev, grant |-> old.grant, path |-> old.path]
             N == Posted(old.grant, old.path, rev)
  <1>1. /\ old \in Page
        /\ old = [rev |-> old.rev, grant |-> old.grant, path |-> old.path]
        /\ old.path \in Paths /\ old.grant \in Grants /\ old.grant \subseteq Namespaces
        /\ Live(p)
    BY LiveFields DEF Edit
  <1>2. Change("edit", p, page) /\ Enqueue(old.grant, old.path, rev)
    <2>1. [old EXCEPT !.rev = clock + 1] = page
      BY <1>1
    <2> QED  BY <2>1 DEF Edit
  <1>3. rev \in 0 .. MaxOps
    BY <1>2, DispatcherAssumption DEF DInv, Shape, Change, DispatcherAssumption
  <1>4. page \in Page
    BY <1>1, <1>3 DEF Page
  <1>5. Adds(N)
    <2> HIDE DEF rev
    <2> QED  BY <1>1, <1>2, <1>3, EnqueueAdds DEF DInv
  <1>6. pages' = [pages EXCEPT ![p] = page]
    BY <1>2 DEF Change
  <1>7. page.path = old.path /\ page.grant = old.grant /\ page.rev = rev
    OBVIOUS
  <1> HIDE DEF page, rev
  <1>8. ASSUME OnePagePerPath' PROVE Reports("edit", p, page, N)
    <2>1. rev # NoRevision
      BY <1>3, DispatcherAssumption DEF DInv, Shape, rev, NoRevision, DispatcherAssumption
    <2>2. ASSUME NEW ns \in Namespaces
          PROVE  /\ Expected'[ns][old.path] = IF ns \in old.grant THEN rev ELSE NoRevision
                 /\ ns \notin old.grant => Expected[ns][old.path] = NoRevision
      <3>1. page \in Page \cup {Absent}
        BY <1>4
      <3>2. /\ page.path = old.path =>
                  Expected'[ns][old.path] = IF ns \in page.grant THEN page.rev ELSE NoRevision
            /\ Live(p) /\ ns \notin old.grant => Expected[ns][old.path] = NoRevision
        BY <1>1, <1>6, <1>8, <3>1, ExpectedOfPage, Zenon
      <3> QED  BY <1>1, <1>7, <3>2
    <2> HIDE DEF old
    <2>3. \A ns, path, v : <<ns, path, v>> \in N <=>
             ns \in old.grant /\ path = old.path /\ v = rev
      BY <2>1 DEF Posted
    <2>4. pages[p].path = old.path
      BY DEF old
    <2> HIDE DEF N
    <2>5. \A ns \in Namespaces, path \in Paths \cap {pages[p].path, page.path} :
             /\ \A v \in 0 .. MaxOps : <<ns, path, v>> \in N => v = Expected'[ns][path]
             /\ (\A v \in 0 .. MaxOps : <<ns, path, v>> \notin N) =>
                   Expected'[ns][path] = Expected[ns][path]
      <3> TAKE ns \in Namespaces, path \in Paths \cap {pages[p].path, page.path}
      <3>1. path = old.path
        BY <1>7, <2>4
      <3>2. /\ Expected'[ns][path] = IF ns \in old.grant THEN rev ELSE NoRevision
            /\ ns \notin old.grant => Expected[ns][path] = NoRevision
        BY <2>2, <3>1
      <3>3. CASE ns \in old.grant
        <4>1. <<ns, path, rev>> \in N
          BY <2>3, <3>1, <3>3
        <4>3. \A v : <<ns, path, v>> \in N => v = rev
          BY <2>3
        <4>2. Expected'[ns][path] = rev
          BY <3>2, <3>3
        <4> QED  BY <1>3, <4>1, <4>2, <4>3, Zenon
      <3>4. CASE ns \notin old.grant
        BY <2>3, <3>2, <3>4
      <3> QED  BY <3>3, <3>4
    <2> QED  BY <1>7, <2>3, <2>4, <2>5 DEF Reports
  <1> QED
    BY <1>1, <1>2, <1>4, <1>5, <1>7, <1>8, ChangeKeeps

LEMMA ChangeGrantKeeps ==
    ASSUME DInv, NEW p \in Pages, NEW grant \in Grants, ChangeGrant(p, grant)
    PROVE  DInv'
  <1> DEFINE old == pages[p]
             page == [rev |-> old.rev, grant |-> grant, path |-> old.path]
             N == Posted(grant, old.path, old.rev)
  <1>1. /\ old = [rev |-> old.rev, grant |-> old.grant, path |-> old.path]
        /\ old.path \in Paths /\ old.rev \in 0 .. MaxOps /\ Live(p)
    BY LiveFields DEF ChangeGrant
  <1>2. Change("grant", p, page) /\ Enqueue(grant, old.path, old.rev)
    <2>1. [old EXCEPT !.grant = grant] = page
      BY <1>1
    <2> QED  BY <2>1 DEF ChangeGrant
  <1>3. page \in Page /\ grant \subseteq Namespaces
    BY <1>1, DispatcherAssumption DEF Page, DispatcherAssumption
  <1>4. Adds(N)
    BY <1>1, <1>2, <1>3, EnqueueAdds DEF DInv
  <1>5. page.path = old.path /\ page.grant = grant /\ page.rev = old.rev
    OBVIOUS
  <1> HIDE DEF page
  <1>6. Reports("grant", p, page, N)
    BY <1>5 DEF Reports, Posted, Carried
  <1> QED
    BY <1>1, <1>2, <1>3, <1>4, <1>5, <1>6, ChangeKeeps

(* The handlers that remove the page where it was and upsert it where it now *)
(* is, if it is anywhere.                                                    *)
LEMMA MoveKeeps ==
    ASSUME DInv, NEW p \in Pages, Live(p), NEW page \in Page \cup {Absent}, NEW operation,
           NEW now \in SUBSET Namespaces, NEW to \in Paths, Change(operation, p, page),
           \/ page = Absent /\ now = {}
           \/ page.path = to /\ page.grant = now /\ page.rev = pages[p].rev,
           page = Absent \/ Free(page.path) \/ page.path = pages[p].path,
           (operation \in Carried /\ page.path = pages[p].path) =>
              now \cap pages[p].grant = {},
           writing' = writing \cup RemoveFrom(pages[p].grant, pages[p].path)
                              \cup UpsertInto(now, to, pages[p].rev),
           UNCHANGED buffer
    PROVE  DInv'
  <1> DEFINE from == pages[p].path
             old == pages[p].grant
             rev == pages[p].rev
             N == Removed(old, from) \cup Posted(now, to, rev)
  <1>1. from \in Paths /\ old \in SUBSET Namespaces /\ rev \in 0 .. MaxOps
    BY LiveFields
  <1>2. Adds(N)
    <2> HIDE DEF from, old, rev
    <2>1. writing' = writing \cup RemoveFrom(old, from) \cup UpsertInto(now, to, rev)
      BY DEF from, old, rev
    <2> QED  BY <1>1, <2>1, WritesAdd DEF DInv
  <1>3. pages' = [pages EXCEPT ![p] = page]
    BY DEF Change
  <1>4. page.path \in Paths => page # Absent
    BY DispatcherAssumption DEF Absent, DispatcherAssumption
  <1>5. page = Absent => page.path # from
    BY <1>1, <1>4
  <1>6. Free(page.path) => page.path # from
    BY DEF Free
  <1>7. \A ns, path, v : <<ns, path, v>> \in N <=>
           \/ ns \in old /\ path = from /\ v = NoRevision
           \/ ns \in now /\ path = to /\ v = rev /\ rev # NoRevision
    <2> HIDE DEF from, old, rev
    <2> QED  BY DEF Removed, Posted
  <1>8. ASSUME OnePagePerPath' PROVE Reports(operation, p, page, N)
    <2>1. ASSUME NEW ns \in Namespaces, NEW path \in Paths
          PROVE  /\ page.path = path =>
                       Expected'[ns][path] = IF ns \in page.grant THEN page.rev ELSE NoRevision
                 /\ from = path /\ page.path # path => Expected'[ns][path] = NoRevision
                 /\ from = path /\ ns \notin old => Expected[ns][path] = NoRevision
                 /\ Free(path) => Expected[ns][path] = NoRevision
      <3>1. /\ page.path = path =>
                  Expected'[ns][path] = IF ns \in page.grant THEN page.rev ELSE NoRevision
            /\ Live(p) /\ pages[p].path = path /\ page.path # path =>
                  Expected'[ns][path] = NoRevision
            /\ Live(p) /\ pages[p].path = path /\ ns \notin pages[p].grant =>
                  Expected[ns][path] = NoRevision
            /\ Free(path) => Expected[ns][path] = NoRevision
        BY <1>3, <1>8, ExpectedOfPage, Zenon
      <3> QED  BY <3>1
    <2>2. ASSUME NEW ns \in Namespaces, NEW path \in Paths, NEW v \in 0 .. MaxOps,
                 <<ns, path, v>> \in N
          PROVE  /\ path \in {from, page.path}
                 /\ v # NoRevision => ns \in page.grant /\ path = page.path /\ v = page.rev
      <3> HIDE DEF N, from, old
      <3>1. \/ ns \in old /\ path = from /\ v = NoRevision
            \/ ns \in now /\ path = to /\ v = rev /\ rev # NoRevision
        BY <1>7, <2>2
      <3>2. ns \in now => page.path = to /\ page.grant = now /\ page.rev = rev
        OBVIOUS
      <3> HIDE DEF rev
      <3> QED  BY <3>1, <3>2
    <2>3. ASSUME operation \in Carried, NEW ns \in Namespaces,
                 NEW path \in Paths \cap {from, page.path}
          PROVE  /\ \A v \in 0 .. MaxOps : <<ns, path, v>> \in N => v = Expected'[ns][path]
                 /\ (\A v \in 0 .. MaxOps : <<ns, path, v>> \notin N) =>
                       Expected'[ns][path] = Expected[ns][path]
      <3>1. path = page.path => path = to /\ page.grant = now /\ page.rev = rev
        BY <1>4
      <3>2. path \in Paths /\ (path = from \/ path = page.path)
        OBVIOUS
      <3>3. \/ page = Absent /\ now = {}
            \/ page.path = to /\ page.grant = now /\ page.rev = rev
        OBVIOUS
      <3>4. page = Absent \/ Free(page.path) \/ page.path = from
        OBVIOUS
      <3>5. page.path = from => now \cap old = {}
        BY <2>3
      <3>6. NoRevision \in 0 .. MaxOps
        BY DispatcherAssumption DEF NoRevision, DispatcherAssumption
      <3>7. /\ ns \in old /\ path = from => <<ns, path, NoRevision>> \in N
            /\ (ns \in now /\ path = to /\ rev # NoRevision) => <<ns, path, rev>> \in N
        BY <1>7
      <3>8. \A v : <<ns, path, v>> \in N =>
               \/ ns \in old /\ path = from /\ v = NoRevision
               \/ ns \in now /\ path = to /\ v = rev /\ rev # NoRevision
        BY <1>7
      <3> HIDE DEF N, from, old, rev
      <3>9. CASE path = page.path /\ path = from
        <4>1. path = to /\ now \cap old = {}
          BY <3>1, <3>5, <3>9
        <4>2. /\ Expected'[ns][path] = IF ns \in now THEN rev ELSE NoRevision
              /\ ns \notin old => Expected[ns][path] = NoRevision
          BY <2>1, <3>1, <3>2, <3>9
        <4> QED  BY <1>1, <3>6, <3>7, <3>8, <3>9, <4>1, <4>2
      <3>10. CASE path = page.path /\ path # from
        <4>1. path = to /\ Free(path)
          BY <1>4, <3>1, <3>2, <3>4, <3>10
        <4>2. /\ Expected'[ns][path] = IF ns \in now THEN rev ELSE NoRevision
              /\ Expected[ns][path] = NoRevision
          BY <2>1, <3>1, <3>2, <3>10, <4>1
        <4> QED  BY <1>1, <3>7, <3>8, <3>10, <4>1, <4>2
      <3>11. CASE path # page.path
        <4>1. path = from /\ (ns \in now => path # to)
          BY <3>2, <3>3, <3>11
        <4>2. /\ Expected'[ns][path] = NoRevision
              /\ ns \notin old => Expected[ns][path] = NoRevision
          BY <2>1, <3>2, <3>11, <4>1
        <4> QED  BY <3>6, <3>7, <3>8, <3>11, <4>1, <4>2
      <3> QED  BY <3>9, <3>10, <3>11
    <2> HIDE DEF N
    <2> QED  BY <2>2, <2>3 DEF Reports
  <1> HIDE DEF N
  <1> QED
    BY <1>2, <1>8, ChangeKeeps

LEMMA RenameKeeps ==
    ASSUME DInv, NEW p \in Pages, NEW path \in Paths, Rename(p, path)
    PROVE  DInv'
  <1> DEFINE old == pages[p]
             page == [rev |-> old.rev, grant |-> old.grant, path |-> path]
  <1>1. /\ Live(p) /\ Free(path)
        /\ old = [rev |-> old.rev, grant |-> old.grant, path |-> old.path]
        /\ old.grant \in Grants /\ old.grant \subseteq Namespaces /\ old.rev \in 0 .. MaxOps
    BY LiveFields DEF Rename
  <1>2. /\ Change("rename", p, page)
        /\ writing' = writing \cup RemoveFrom(pages[p].grant, pages[p].path)
                              \cup UpsertInto(pages[p].grant, path, pages[p].rev)
        /\ UNCHANGED buffer
    <2>1. [old EXCEPT !.path = path] = page
      BY <1>1
    <2> QED  BY <2>1 DEF Rename
  <1>3. page \in Page
    BY <1>1 DEF Page
  <1>4. page.path = path /\ page.grant = pages[p].grant /\ page.rev = pages[p].rev
    OBVIOUS
  <1>5. path # pages[p].path
    BY <1>1 DEF Free
  <1> HIDE DEF page
  <1> QED
    BY <1>1, <1>2, <1>3, <1>4, <1>5, MoveKeeps

LEMMA DeleteKeeps ==
    ASSUME DInv, NEW p \in Pages, Delete(p)
    PROVE  DInv'
  <1>1. Live(p) /\ pages[p].path \in Paths
    BY LiveFields DEF Delete
  <1>2. /\ Change("delete", p, Absent)
        /\ writing' = writing \cup RemoveFrom(pages[p].grant, pages[p].path)
        /\ UNCHANGED buffer
    BY DEF Delete
  <1>3. UpsertInto({}, pages[p].path, pages[p].rev) = {}
    BY DEF UpsertInto
  <1>4. Absent.path # pages[p].path
    BY <1>1, DispatcherAssumption DEF Absent, DispatcherAssumption
  <1>5. writing' = writing \cup RemoveFrom(pages[p].grant, pages[p].path)
                          \cup UpsertInto({}, pages[p].path, pages[p].rev)
    BY <1>2, <1>3
  <1> QED
    BY <1>1, <1>2, <1>4, <1>5, MoveKeeps

LEMMA ChangeDescendantGrantKeeps ==
    ASSUME DInv, NEW p \in Pages, NEW grant \in Grants, ChangeDescendantGrant(p, grant)
    PROVE  DInv'
  <1> DEFINE old == pages[p]
             page == [rev |-> old.rev, grant |-> grant, path |-> old.path]
             operation == IF grant \cap pages[p].grant = {} THEN "descendant-grant"
                          ELSE "descendant-overlapping-grant"
  <1>1. /\ Live(p) /\ old.path \in Paths /\ old.rev \in 0 .. MaxOps
        /\ old = [rev |-> old.rev, grant |-> old.grant, path |-> old.path]
    BY LiveFields DEF ChangeDescendantGrant
  <1>2. /\ Change(operation, p, page)
        /\ writing' = writing \cup RemoveFrom(pages[p].grant, pages[p].path)
                              \cup UpsertInto(grant, pages[p].path, pages[p].rev)
        /\ UNCHANGED buffer
    <2>1. [old EXCEPT !.grant = grant] = page
      BY <1>1
    <2> QED  BY <2>1 DEF ChangeDescendantGrant
  <1>3. page \in Page /\ grant \in SUBSET Namespaces
    BY <1>1, DispatcherAssumption DEF Page, DispatcherAssumption
  <1>4. page.path = pages[p].path /\ page.grant = grant /\ page.rev = pages[p].rev
    OBVIOUS
  <1>5. operation \in Carried => grant \cap pages[p].grant = {}
    BY DEF Carried
  <1> HIDE DEF page, operation
  <1> QED
    BY <1>1, <1>2, <1>3, <1>4, <1>5, MoveKeeps

(* The handlers that write nothing about a path.                             *)
LEMMA SilentChangeKeeps ==
    ASSUME DInv, NEW p \in Pages, NEW page \in Page \cup {Absent}, NEW operation,
           page = Absent \/ Free(page.path), Change(operation, p, page),
           operation \notin Carried, NEW M \in SUBSET Namespaces,
           writing' = writing \cup {Write(clock + 1, RenameRegExp(ns)) : ns \in M},
           UNCHANGED buffer
    PROVE  DInv'
  <1> DEFINE new == {Write(clock + 1, RenameRegExp(ns)) : ns \in M}
  <1>1. clock + 1 \in Nat
    BY DispatcherAssumption DEF DInv, Shape, DispatcherAssumption
  <1>2. new \subseteq [at : Nat, tries : {1, 2}, instr : Instruction]
    <2>1. \A ns \in M : RenameRegExp(ns) \in Instruction
      BY DEF RenameRegExp, Instruction
    <2> QED  BY <1>1, <2>1 DEF Write
  <1>3. \A w \in new : w.instr.op = "rename-prefix"
    BY DEF Write, RenameRegExp
  <1> HIDE DEF new
  <1>4. writing' = writing \cup new
    BY DEF new
  <1>5. \A w \in new : \A ns, path, rev : ~Says(w.instr, ns, path, rev)
    BY <1>3 DEF Says
  <1>6. \A ns, path, rev : Pending(ns, path, rev)' <=> Pending(ns, path, rev)
    <2> TAKE ns, path, rev
    <2>1. Pending(ns, path, rev)' <=>
             \/ Waits(ns, path, rev)
             \/ \E w \in writing : Says(w.instr, ns, path, rev)
             \/ \E w \in new : Says(w.instr, ns, path, rev)
      BY <1>4 DEF Pending, Waits, Says
    <2> QED  BY <1>5, <2>1 DEF Pending
  <1>7. Adds({})
    BY <1>2, <1>4, <1>6 DEF Adds, DInv, Shape
  <1>8. Reports(operation, p, page, {})
    BY DEF Reports
  <1> QED
    BY <1>7, <1>8, ChangeKeeps

LEMMA RenameDescendantKeeps ==
    ASSUME DInv, NEW p \in Pages, NEW path \in Paths, RenameDescendant(p, path)
    PROVE  DInv'
  <1> DEFINE old == pages[p]
             page == [rev |-> old.rev, grant |-> old.grant, path |-> path]
  <1>1. /\ Free(path)
        /\ old = [rev |-> old.rev, grant |-> old.grant, path |-> old.path]
        /\ old.grant \in Grants /\ old.grant \in SUBSET Namespaces /\ old.rev \in 0 .. MaxOps
    BY LiveFields DEF RenameDescendant
  <1>2. /\ Change("descendant-rename", p, page)
        /\ writing' = writing \cup {Write(clock + 1, RenameRegExp(ns)) : ns \in old.grant}
        /\ UNCHANGED buffer
    <2>1. [old EXCEPT !.path = path] = page
      BY <1>1
    <2> QED  BY <2>1 DEF RenameDescendant
  <1>3. page \in Page /\ page.path = path
    BY <1>1 DEF Page
  <1>4. "descendant-rename" \notin Carried
    BY DEF Carried
  <1> HIDE DEF page
  <1> QED
    BY <1>1, <1>2, <1>3, <1>4, SilentChangeKeeps

LEMMA DeleteDescendantKeeps ==
    ASSUME DInv, NEW p \in Pages, DeleteDescendant(p)
    PROVE  DInv'
  <1>1. Change("descendant-delete", p, Absent) /\ UNCHANGED <<buffer, writing>>
    BY DEF DeleteDescendant
  <1>2. "descendant-delete" \notin Carried
    BY DEF Carried
  <1>3. writing' = writing \cup {Write(clock + 1, RenameRegExp(ns)) : ns \in {}}
    BY <1>1
  <1>4. buffer' = buffer /\ {} \in SUBSET Namespaces /\ Absent \in Page \cup {Absent}
    BY <1>1
  <1> QED
    BY <1>1, <1>2, <1>3, <1>4, SilentChangeKeeps, Zenon

-----------------------------------------------------------------------------
(* Timers, writes and crashes. *)

(* What is flushed when the window ends still waits, as writes. *)
LEMMA TimerFiresKeeps ==
    ASSUME DInv, NEW ns \in Namespaces, TimerFires(ns)
    PROVE  DInv'
  <1> DEFINE entries == buffer[ns]
             bulk == {Write(clock, Upsert(ns, entries))}
             single == {Write(clock, Upsert(ns, <<e>>)) : e \in ToSet(entries)}
             new == IF Len(entries) >= Threshold THEN bulk ELSE single
  <1>1. /\ buffer' = [buffer EXCEPT ![ns] = <<>>]
        /\ writing' = writing \cup new
        /\ UNCHANGED <<pages, vault, clock, held, unsure, failures>>
    BY DEF TimerFires
  <1>2. entries \in Seq(Entry) /\ clock \in Nat
    BY DispatcherAssumption DEF DInv, Shape, DispatcherAssumption
  <1>3. \A e \in ToSet(entries) : e \in Entry /\ <<e>> \in Seq(Entry)
    BY <1>2 DEF ToSet
  <1>4. new \subseteq [at : Nat, tries : {1, 2}, instr : Instruction]
    <2>1. \A s \in Seq(Entry) : Write(clock, Upsert(ns, s))
                                  \in [at : Nat, tries : {1, 2}, instr : Instruction]
      BY <1>2 DEF Write, Upsert, Instruction
    <2> HIDE DEF entries
    <2> QED  BY <1>2, <1>3, <2>1
  <1>5. ASSUME NEW m, NEW path, NEW rev
        PROVE  (\E w \in new : Says(w.instr, m, path, rev)) <=>
                  /\ m = ns
                  /\ \E k \in DOMAIN entries :
                        entries[k].path = path /\ entries[k].rev = rev
    <2>1. \A s : LET w == Write(clock, Upsert(ns, s))
                 IN  Says(w.instr, m, path, rev) <=>
                        m = ns /\ \E k \in DOMAIN s : s[k].path = path /\ s[k].rev = rev
      <3> TAKE s
      <3> DEFINE i == Write(clock, Upsert(ns, s)).instr
      <3>1. i.op = "upsert" /\ i.ns = ns /\ i.entries = s
        BY DEF Write, Upsert
      <3> HIDE DEF i
      <3>2. Says(i, m, path, rev) <=>
               m = ns /\ \E k \in DOMAIN s : s[k].path = path /\ s[k].rev = rev
        BY <3>1 DEF Says
      <3> QED  BY <3>2 DEF i
    <2>2. CASE new = bulk
      <3> HIDE DEF entries
      <3> QED  BY <2>1, <2>2
    <2>3. CASE new = single
      <3>1. (\E w \in single : Says(w.instr, m, path, rev)) <=>
               \E e \in ToSet(entries) :
                  Says(Write(clock, Upsert(ns, <<e>>)).instr, m, path, rev)
        BY Zenon
      <3>2. \A e : Says(Write(clock, Upsert(ns, <<e>>)).instr, m, path, rev) <=>
                     m = ns /\ e.path = path /\ e.rev = rev
        <4> TAKE e
        <4> DEFINE s == <<e>>
        <4>1. DOMAIN s = {1} /\ s[1] = e
          OBVIOUS
        <4> HIDE DEF s
        <4>2. (\E k \in DOMAIN s : s[k].path = path /\ s[k].rev = rev) <=>
                 e.path = path /\ e.rev = rev
          BY <4>1
        <4>3. Says(Write(clock, Upsert(ns, s)).instr, m, path, rev) <=>
                 m = ns /\ \E k \in DOMAIN s : s[k].path = path /\ s[k].rev = rev
          BY <2>1
        <4> QED  BY <4>2, <4>3 DEF s
      <3>3. (\E e \in ToSet(entries) : m = ns /\ e.path = path /\ e.rev = rev) <=>
               m = ns /\ \E k \in DOMAIN entries :
                            entries[k].path = path /\ entries[k].rev = rev
        <4> HIDE DEF entries
        <4> QED  BY DEF ToSet
      <3> HIDE DEF single, new, entries
      <3> QED  BY <2>3, <3>1, <3>2, <3>3
    <2> QED  BY <2>2, <2>3
  <1> HIDE DEF new
  <1>6. /\ buffer'[ns] = <<>> /\ \A m \in Namespaces \ {ns} : buffer'[m] = buffer[m]
        /\ \A k : k \notin DOMAIN buffer'[ns]
    <2>1. buffer'[ns] = <<>> /\ \A m \in Namespaces \ {ns} : buffer'[m] = buffer[m]
      BY <1>1 DEF DInv, Shape
    <2>2. DOMAIN <<>> = {}
      OBVIOUS
    <2> QED  BY <2>1, <2>2, Zenon
  <1>7. \A m \in Namespaces : \A path, rev : Pending(m, path, rev)' <=> Pending(m, path, rev)
    <2> TAKE m \in Namespaces
    <2> TAKE path, rev
    <2>1. Pending(m, path, rev)' <=>
             \/ Waits(m, path, rev)'
             \/ \E w \in writing : Says(w.instr, m, path, rev)
             \/ \E w \in new : Says(w.instr, m, path, rev)
      BY <1>1 DEF Pending, Says
    <2>2. CASE m = ns
      <3>1. ~Waits(m, path, rev)'
        BY <1>6, <2>2 DEF Waits
      <3>2. (\E w \in new : Says(w.instr, m, path, rev)) <=> Waits(m, path, rev)
        BY <1>5, <2>2 DEF Waits
      <3> QED  BY <2>1, <3>1, <3>2 DEF Pending
    <2>3. CASE m # ns
      <3>1. Waits(m, path, rev)' <=> Waits(m, path, rev)
        BY <1>6, <2>3 DEF Waits
      <3>2. ~\E w \in new : Says(w.instr, m, path, rev)
        BY <1>5, <2>3
      <3> QED  BY <2>1, <3>1, <3>2 DEF Pending
    <2> QED  BY <2>2, <2>3
  <1>8. Shape'
    <2>1. <<>> \in Seq(Entry) /\ Len(<<>>) = 0 /\ 0 < ChunkSize
      BY DispatcherAssumption DEF DispatcherAssumption
    <2>2. buffer' \in [Namespaces -> Seq(Entry)]
      BY <1>1, <2>1 DEF DInv, Shape
    <2>3. \A m \in Namespaces : Len(buffer'[m]) < ChunkSize
      BY <1>6, <2>1 DEF DInv, Shape
    <2> QED  BY <1>1, <1>4, <2>2, <2>3 DEF DInv, Shape
  <1>9. OnePagePerPath' /\ Expected' = Expected
    BY <1>1 DEF DInv, OnePagePerPath, Live, Expected, Wants
  <1>10. Called'
    BY <1>1, <1>7 DEF DInv, Called, EntriesOnceHeld, Live
  <1>11. Mirrored'
    BY <1>1, <1>7, <1>9 DEF DInv, Mirrored
  <1> QED
    BY <1>8, <1>9, <1>10, <1>11 DEF DInv

(* A write has had its effect: the path shows what the instruction said, and *)
(* whatever else waits for it says the same.                                 *)
LEMMA WriteDoneKeeps ==
    ASSUME DInv, NEW w \in writing, WriteDone(w)
    PROVE  DInv'
  <1>1. /\ vault' = After(vault, w.instr)
        /\ writing' = writing \ {w}
        /\ UNCHANGED <<pages, buffer, clock, held, unsure, failures>>
    BY DEF WriteDone
  <1>2. /\ vault \in [Namespaces -> [Paths -> 0 .. MaxOps]]
        /\ w.instr \in Instruction
    BY DEF DInv, Shape
  <1>3. /\ vault' \in [Namespaces -> [Paths -> 0 .. MaxOps]]
        /\ \A ns \in Namespaces, path \in Paths :
              \/ Says(w.instr, ns, path, vault'[ns][path])
              \/ /\ \A rev \in 0 .. MaxOps : ~Says(w.instr, ns, path, rev)
                 /\ vault'[ns][path] = vault[ns][path]
    BY <1>1, <1>2, Effect
  <1>4. \A ns, path, rev : Pending(ns, path, rev)' => Pending(ns, path, rev)
    BY <1>1 DEF Pending, Waits, Says
  <1>5. \A ns, path, rev :
           Pending(ns, path, rev) => Pending(ns, path, rev)' \/ Says(w.instr, ns, path, rev)
    BY <1>1 DEF Pending, Waits, Says
  <1>6. \A ns, path, rev : Says(w.instr, ns, path, rev) => Pending(ns, path, rev)
    BY DEF Pending
  <1>7. Shape'
    BY <1>1, <1>3 DEF DInv, Shape
  <1>8. OnePagePerPath' /\ Expected' = Expected
    BY <1>1 DEF DInv, OnePagePerPath, Live, Expected, Wants
  <1>9. EntriesOnceHeld'
    <2> SUFFICES ASSUME NEW ns \in Namespaces, NEW path \in Paths,
                        vault'[ns][path] # NoRevision
                 PROVE  <<ns, path, vault'[ns][path]>> \in held'
      BY DEF EntriesOnceHeld
    <2>1. vault'[ns][path] \in 1 .. MaxOps
      BY <1>3, DispatcherAssumption DEF NoRevision, DispatcherAssumption
    <2>2. CASE Says(w.instr, ns, path, vault'[ns][path])
      BY <1>1, <1>6, <2>1, <2>2 DEF DInv, Called
    <2>3. CASE vault'[ns][path] = vault[ns][path]
      BY <1>1, <2>3 DEF DInv, Called, EntriesOnceHeld
    <2> QED  BY <1>3, <2>2, <2>3
  <1>10. Called'
    BY <1>1, <1>4, <1>9 DEF DInv, Called, Live
  <1>11. Mirrored'
    <2> SUFFICES ASSUME NEW path \in Paths \ unsure, NEW ns \in Namespaces
                 PROVE  /\ \A rev \in 0 .. MaxOps :
                              Pending(ns, path, rev)' => rev = Expected[ns][path]
                        /\ (\A rev \in 0 .. MaxOps : ~Pending(ns, path, rev)') =>
                              vault'[ns][path] = Expected[ns][path]
      BY <1>1, <1>8 DEF Mirrored
    <2>1. /\ \A rev \in 0 .. MaxOps : Pending(ns, path, rev) => rev = Expected[ns][path]
          /\ (\A rev \in 0 .. MaxOps : ~Pending(ns, path, rev)) =>
                vault[ns][path] = Expected[ns][path]
      BY DEF DInv, Mirrored
    <2>2. CASE Says(w.instr, ns, path, vault'[ns][path])
      <3>1. vault'[ns][path] \in 0 .. MaxOps
        BY <1>3
      <3> QED  BY <1>4, <1>6, <2>1, <2>2, <3>1
    <2>3. CASE /\ \A rev \in 0 .. MaxOps : ~Says(w.instr, ns, path, rev)
               /\ vault'[ns][path] = vault[ns][path]
      BY <1>4, <1>5, <2>1, <2>3
    <2> QED  BY <1>3, <2>2, <2>3
  <1> QED
    BY <1>7, <1>8, <1>10, <1>11 DEF DInv

(* A failed write leaves its paths unsure, whether or not it had its effect. *)
LEMMA WriteFailsKeeps ==
    ASSUME DInv, NEW w \in writing, WriteFails(w)
    PROVE  DInv'
  <1> DEFINE again == IF w.tries = 1 THEN {[w EXCEPT !.tries = 2]} ELSE {}
  <1>1. /\ vault' \in {vault, After(vault, w.instr)}
        /\ writing' = (writing \ {w}) \cup again
        /\ unsure' = unsure \cup Writes(w.instr)
        /\ UNCHANGED <<pages, buffer, clock, held>>
    BY DEF WriteFails
  <1>2. /\ vault \in [Namespaces -> [Paths -> 0 .. MaxOps]]
        /\ w.instr \in Instruction
        /\ w \in [at : Nat, tries : {1, 2}, instr : Instruction]
    BY DEF DInv, Shape
  <1>3. /\ vault' \in [Namespaces -> [Paths -> 0 .. MaxOps]]
        /\ \A ns \in Namespaces, path \in Paths :
              Says(w.instr, ns, path, vault'[ns][path]) \/ vault'[ns][path] = vault[ns][path]
    <2>1. CASE vault' = vault
      BY <1>2, <2>1
    <2>2. CASE vault' = After(vault, w.instr)
      BY <1>2, <2>2, Effect
    <2> QED  BY <1>1, <2>1, <2>2
  <1>4. /\ again \subseteq [at : Nat, tries : {1, 2}, instr : Instruction]
        /\ \A x \in again : x.instr = w.instr
    BY <1>2
  <1> HIDE DEF again
  <1>5. \A ns, path, rev : Pending(ns, path, rev)' => Pending(ns, path, rev)
    BY <1>1, <1>4 DEF Pending, Waits, Says
  <1>6. \A ns, path, rev :
           Pending(ns, path, rev) => Pending(ns, path, rev)' \/ Says(w.instr, ns, path, rev)
    BY <1>1 DEF Pending, Waits, Says
  <1>7. \A ns, path, rev : Says(w.instr, ns, path, rev) =>
                              Pending(ns, path, rev) /\ path \in Writes(w.instr)
    BY <1>2, PendingUnsettled DEF Pending
  <1>8. Shape'
    BY <1>1, <1>3, <1>4 DEF DInv, Shape
  <1>9. OnePagePerPath' /\ Expected' = Expected
    BY <1>1 DEF DInv, OnePagePerPath, Live, Expected, Wants
  <1>10. EntriesOnceHeld'
    <2> SUFFICES ASSUME NEW ns \in Namespaces, NEW path \in Paths,
                        vault'[ns][path] # NoRevision
                 PROVE  <<ns, path, vault'[ns][path]>> \in held'
      BY DEF EntriesOnceHeld
    <2>1. vault'[ns][path] \in 1 .. MaxOps
      BY <1>3, DispatcherAssumption DEF NoRevision, DispatcherAssumption
    <2>2. CASE Says(w.instr, ns, path, vault'[ns][path])
      BY <1>1, <1>7, <2>1, <2>2 DEF DInv, Called
    <2>3. CASE vault'[ns][path] = vault[ns][path]
      BY <1>1, <2>3 DEF DInv, Called, EntriesOnceHeld
    <2> QED  BY <1>3, <2>2, <2>3
  <1>11. Called'
    BY <1>1, <1>5, <1>10 DEF DInv, Called, Live
  <1>12. Mirrored'
    <2> SUFFICES ASSUME NEW path \in Paths \ unsure', NEW ns \in Namespaces
                 PROVE  /\ \A rev \in 0 .. MaxOps :
                              Pending(ns, path, rev)' => rev = Expected[ns][path]
                        /\ (\A rev \in 0 .. MaxOps : ~Pending(ns, path, rev)') =>
                              vault'[ns][path] = Expected[ns][path]
      BY <1>9 DEF Mirrored
    <2>1. path \in Paths \ unsure /\ \A rev : ~Says(w.instr, ns, path, rev)
      BY <1>1, <1>7
    <2>2. vault'[ns][path] = vault[ns][path]
      BY <1>3, <2>1
    <2>3. /\ \A rev \in 0 .. MaxOps : Pending(ns, path, rev) => rev = Expected[ns][path]
          /\ (\A rev \in 0 .. MaxOps : ~Pending(ns, path, rev)) =>
                vault[ns][path] = Expected[ns][path]
      BY <2>1 DEF DInv, Mirrored
    <2> QED  BY <1>5, <1>6, <2>1, <2>2, <2>3
  <1> QED
    BY <1>8, <1>9, <1>11, <1>12 DEF DInv

(* What a crash loses leaves its paths unsure. *)
LEMMA CrashKeeps ==
    ASSUME DInv, Crash
    PROVE  DInv'
  <1>1. /\ writing' = {}
        /\ buffer' = [ns \in Namespaces |-> <<>>]
        /\ unsure' = unsure \cup Unsettled
        /\ UNCHANGED <<pages, vault, clock, held>>
    BY DEF Crash
  <1>2. \A ns \in Namespaces : \A path, rev : ~Pending(ns, path, rev)'
    <2>1. \A k : k \notin DOMAIN <<>>
      OBVIOUS
    <2>2. \A ns \in Namespaces : buffer'[ns] = <<>>
      BY <1>1
    <2>3. \A ns \in Namespaces : \A k : k \notin DOMAIN buffer'[ns]
      BY <2>1, <2>2, Zenon
    <2> QED  BY <1>1, <2>3 DEF Pending, Waits
  <1>3. Shape'
    <2>1. <<>> \in Seq(Entry) /\ Len(<<>>) = 0 /\ 0 < ChunkSize
      BY DispatcherAssumption DEF DispatcherAssumption
    <2>2. buffer' \in [Namespaces -> Seq(Entry)]
      BY <1>1, <2>1
    <2>3. \A ns \in Namespaces : Len(buffer'[ns]) < ChunkSize
      BY <1>1, <2>1
    <2> QED  BY <1>1, <2>2, <2>3 DEF DInv, Shape
  <1>4. OnePagePerPath' /\ Expected' = Expected
    BY <1>1 DEF DInv, OnePagePerPath, Live, Expected, Wants
  <1>5. Called'
    BY <1>1, <1>2 DEF DInv, Called, EntriesOnceHeld, Live
  <1>6. Mirrored'
    <2> SUFFICES ASSUME NEW path \in Paths \ unsure', NEW ns \in Namespaces
                 PROVE  vault[ns][path] = Expected[ns][path]
      BY <1>1, <1>2, <1>4 DEF Mirrored
    <2>1. path \in Paths \ unsure /\ path \notin Unsettled
      BY <1>1
    <2>2. \A rev \in 0 .. MaxOps : ~Pending(ns, path, rev)
      BY <2>1, PendingUnsettled DEF DInv
    <2> QED  BY <2>1, <2>2 DEF DInv, Mirrored
  <1> QED
    BY <1>3, <1>4, <1>5, <1>6 DEF DInv

-----------------------------------------------------------------------------
(* The invariant holds. *)

LEMMA DInvInit == Init => DInv
  <1> SUFFICES ASSUME Init PROVE DInv
    OBVIOUS
  <1>1. 0 \in 0 .. MaxOps
    BY DispatcherAssumption DEF DispatcherAssumption
  <1>2. Shape
    <2>1. <<>> \in Seq(Entry) /\ Len(<<>>) = 0 /\ 0 < ChunkSize
      BY DispatcherAssumption DEF DispatcherAssumption
    <2>2. buffer \in [Namespaces -> Seq(Entry)]
      BY <2>1 DEF Init
    <2>3. \A ns \in Namespaces : Len(buffer[ns]) < ChunkSize
      BY <2>1 DEF Init
    <2> QED  BY <1>1, <2>2, <2>3 DEF Init, Shape, NoRevision
  <1>3. \A p \in Pages : ~Live(p) /\ pages[p].path \notin Paths
    BY DispatcherAssumption DEF Init, Live, Absent, DispatcherAssumption
  <1>4. \A ns \in Namespaces : \A path, rev : ~Pending(ns, path, rev)
    <2>1. \A k : k \notin DOMAIN <<>>
      OBVIOUS
    <2>2. \A ns \in Namespaces : buffer[ns] = <<>>
      BY DEF Init
    <2>3. \A ns \in Namespaces : \A k : k \notin DOMAIN buffer[ns]
      BY <2>1, <2>2, Zenon
    <2> QED  BY <2>3 DEF Init, Pending, Waits
  <1>5. OnePagePerPath
    BY <1>3 DEF OnePagePerPath
  <1>6. Called
    BY <1>3, <1>4 DEF Called, EntriesOnceHeld, Init
  <1>7. Mirrored
    <2>1. \A ns \in Namespaces, path \in Paths : Expected[ns][path] = NoRevision
      BY <1>3, <1>5, ExpectedRevision DEF Wants
    <2> QED  BY <1>4, <2>1 DEF Mirrored, Init
  <1> QED
    BY <1>2, <1>5, <1>6, <1>7 DEF DInv

LEMMA DInvStep == DInv /\ [Next]_vars => DInv'
  <1> SUFFICES ASSUME DInv, [Next]_vars PROVE DInv'
    OBVIOUS
  <1>1. CASE UNCHANGED vars
    <2>1. UNCHANGED <<pages, buffer, writing, vault, clock, held, unsure>>
      BY <1>1 DEF vars
    <2>2. \A ns, path, rev : Pending(ns, path, rev)' <=> Pending(ns, path, rev)
      BY <2>1 DEF Pending, Waits, Says
    <2>3. Shape' /\ OnePagePerPath' /\ Expected' = Expected
      BY <2>1 DEF DInv, Shape, OnePagePerPath, Live, Expected, Wants
    <2>4. Called'
      BY <2>1, <2>2 DEF DInv, Called, EntriesOnceHeld, Live
    <2>5. Mirrored'
      BY <2>1, <2>2, <2>3 DEF DInv, Mirrored
    <2> QED  BY <2>3, <2>4, <2>5 DEF DInv
  <1>2. CASE PageOperation
    BY <1>2, CreateKeeps, EditKeeps, DeleteKeeps, DeleteDescendantKeeps, RenameKeeps,
       RenameDescendantKeeps, ChangeGrantKeeps, ChangeDescendantGrantKeeps DEF PageOperation
  <1>3. CASE Dispatch
    BY <1>3, TimerFiresKeeps, WriteDoneKeeps, WriteFailsKeeps DEF Dispatch
  <1>4. CASE Crash
    BY <1>4, CrashKeeps
  <1> QED
    BY <1>1, <1>2, <1>3, <1>4 DEF Next

LEMMA DInvAlways == Spec => []DInv
  BY DInvInit, DInvStep, PTL DEF Spec

(* A buffer never reaches the chunk size, however many events crowd into its *)
(* window, and no write is tried a third time.                               *)
THEOREM TypeCorrect == Spec => []TypeOK
  <1>1. DInv => TypeOK
    BY DEF DInv, Shape, TypeOK, Instruction
  <1> QED
    BY <1>1, DInvAlways, PTL

(* Whatever is coalesced, overtaken, lost or written twice, an entry of the  *)
(* vault is one that some page once called for in that namespace.            *)
THEOREM NothingInvented == Spec => []EntriesOnceHeld
  <1>1. DInv => EntriesOnceHeld
    BY DEF DInv, Called
  <1> QED
    BY <1>1, DInvAlways, PTL

(* Coalescing and parallel writes mix up no two paths and no two namespaces: *)
(* a path whose events never crowded, failed or went unsent shows what the   *)
(* pages call for as soon as none of its own entries waits.                  *)
THEOREM CalmPathsAgree == Spec => []CalmPathsMirror
  <1>1. DInv => CalmPathsMirror
    <2> SUFFICES ASSUME DInv, NEW path \in Paths \ (unsure \cup Unsettled),
                        NEW ns \in Namespaces
                 PROVE  vault[ns][path] = Expected[ns][path]
      BY DEF CalmPathsMirror
    <2>1. \A rev \in 0 .. MaxOps : ~Pending(ns, path, rev)
      BY PendingUnsettled DEF DInv
    <2> QED  BY <2>1 DEF DInv, Mirrored
  <1> QED
    BY <1>1, DInvAlways, PTL
===============================================================================
