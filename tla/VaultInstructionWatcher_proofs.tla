-------------------- MODULE VaultInstructionWatcher_proofs --------------------
(***************************************************************************)
(* Proofs about the instruction watcher, for any number of instructions,   *)
(* failures and restarts and any size of the drain's batches: what is      *)
(* processed is never applied again, nothing falls between the drain and   *)
(* the change stream, and neither overtakes what was issued and inserted   *)
(* before.                                                                 *)
(***************************************************************************)
EXTENDS VaultInstructionWatcher, FiniteSetTheorems, TLAPS

-----------------------------------------------------------------------------
(* The inductive invariant. *)

Types ==
    /\ oplog \in Seq(Ids)
    /\ \A k, m \in 1 .. Len(oplog) : oplog[k] = oplog[m] => k = m
    /\ done \subseteq Ids
    /\ token # NoToken => token \in 0 .. Len(oplog)
    /\ phase \in {"down", "drain", "live"}
    /\ stream \in {"none", "opening", "open", "ended"}
    /\ handled \in Nat /\ delivered \in Nat
    /\ handled <= delivered /\ delivered <= Len(oplog)
    /\ position \in Nat /\ batch \subseteq Ids /\ exhausted \in BOOLEAN
    /\ current \in Processing \cup {Idle}
    /\ applied \in Seq(Ids) /\ failed \subseteq Ids

(* What the phases of the process and of the stream imply. *)
Phases ==
    /\ phase = "live" => exhausted /\ batch = {}
    /\ (phase = "down") <=> (stream = "none")
    /\ phase = "down" => current = Idle /\ batch = {}
    /\ stream = "opening" => missed = {} /\ delivered = 0 /\ handled = 0

(* Nothing that is marked is about to be applied. *)
Unmarked ==
    /\ batch \cap done = {}
    /\ current # Idle => current.id \notin batch
    /\ current.at = "apply" => current.id \notin done

(* Where the instruction in progress comes from and what became of it. *)
CurrentIsNext ==
    /\ current.at = "token" => current.id \in done
    /\ current.at = "record" => current.id \in failed
    /\ (current # Idle /\ current.event # 0) =>
          /\ phase = "live"
          /\ current.event = handled + 1 /\ handled < delivered
          /\ current.id = oplog[current.event]

(* The drain has the instruction still before it, or this process has tried it. *)
Taken(i) ==
    \/ i \in batch \cup failed
    \/ current # Idle /\ current.id = i
    \/ ~exhausted /\ i > position

Behind(k) == {oplog[m] : m \in {n \in 1 .. Len(oplog) : n > k}}

(* Every unprocessed instruction is taken, or the stream will bring it up. *)
Covered ==
    phase # "down" =>
        \A i \in Inserted \ done :
            \/ Taken(i) \/ i \in missed
            \/ stream = "opening" /\ (token = NoToken \/ i \in Behind(token))
            \/ stream = "open" /\ i \in Behind(handled)
            \/ stream = "ended"

WInv == Types /\ Phases /\ Unmarked /\ CurrentIsNext /\ Covered

-----------------------------------------------------------------------------
(* Lemmas. *)

LEMMA ConstantFacts ==
    /\ N \in Nat /\ BatchSize \in Nat \ {0} /\ NoToken \notin Nat
    /\ Ids = 1 .. N
  BY WatcherAssumption DEF Ids

LEMMA InsertedAt ==
    ASSUME Types
    PROVE  /\ Inserted = {oplog[k] : k \in 1 .. Len(oplog)}
           /\ Inserted \subseteq Ids
           /\ Len(oplog) \in Nat
  BY DEF Types, Inserted, ToSet

LEMMA SameOplog ==
    ASSUME oplog' = oplog
    PROVE  /\ Inserted' = Inserted
           /\ \A k : Behind(k)' = Behind(k)
  BY DEF Inserted, Behind

(* One more event of the stream has been dealt with. *)
LEMMA BehindNext ==
    ASSUME Types, NEW k \in Nat, k < Len(oplog)
    PROVE  Behind(k) \subseteq Behind(k + 1) \cup {oplog[k + 1]}
  <1>1. Len(oplog) \in Nat
    BY InsertedAt
  <1>2. ASSUME NEW n \in 1 .. Len(oplog), n > k
        PROVE  oplog[n] \in Behind(k + 1) \cup {oplog[k + 1]}
    <2>1. CASE n = k + 1
      BY <2>1
    <2>2. CASE n # k + 1
      <3>1. n > k + 1
        BY <1>1, <1>2, <2>2
      <3> QED
        BY <1>2, <3>1 DEF Behind
    <2> QED
      BY <2>1, <2>2
  <1> QED
    BY <1>2 DEF Behind

(* The fields of the instruction in progress. *)
LEMMA InProgress ==
    ASSUME Types, current.at \in {"apply", "mark", "token", "record"}
    PROVE  /\ current \in Processing /\ current # Idle
           /\ current.id \in Ids /\ current.event \in Nat
           /\ \A stage \in {"apply", "mark", "token", "record"} :
                 /\ [current EXCEPT !.at = stage] \in Processing
                 /\ [current EXCEPT !.at = stage].at = stage
                 /\ [current EXCEPT !.at = stage].id = current.id
                 /\ [current EXCEPT !.at = stage].event = current.event
  <1>1. current # Idle
    BY DEF Idle
  <1>2. current \in Processing
    BY <1>1 DEF Types
  <1> QED
    BY <1>1, <1>2 DEF Processing

LEMMA IdleIsNone == \A stage \in {"apply", "mark", "token", "record"} :
                        Idle.at # stage /\ Idle \notin Processing
  BY DEF Idle, Processing

LEMMA OpenStreamKeeps ==
    ASSUME WInv, OpenStream
    PROVE  WInv'
  <1> USE ConstantFacts, InsertedAt, IdleIsNone DEF WInv, OpenStream, Undrained, store, process, events, counters, history
  <1>1. Types'
    BY DEF Types, Phases, CurrentIsNext, Processing
  <1>2. Phases'
    BY DEF Types, Phases, CurrentIsNext
  <1>3. Unmarked'
    BY DEF Types, Phases, Unmarked, CurrentIsNext
  <1>4. CurrentIsNext'
    BY DEF Types, Phases, CurrentIsNext
  <1>5. Covered'
    <2>1. oplog' = oplog
      OBVIOUS
    <2>2. Inserted' = Inserted /\ \A k : Behind(k)' = Behind(k)
      BY ONLY <2>1, SameOplog
    <2> QED
      BY <2>2 DEF Types, Phases, CurrentIsNext, Covered, Taken
  <1> QED
    BY <1>1, <1>2, <1>3, <1>4, <1>5

LEMMA DeliverKeeps ==
    ASSUME WInv, Deliver
    PROVE  WInv'
  <1> USE ConstantFacts, InsertedAt, IdleIsNone DEF WInv, Deliver, store, process, events, counters, history
  <1>1. Types'
    BY DEF Types, Phases, CurrentIsNext, Processing
  <1>2. Phases'
    BY DEF Types, Phases, CurrentIsNext
  <1>3. Unmarked'
    BY DEF Types, Phases, Unmarked, CurrentIsNext
  <1>4. CurrentIsNext'
    BY DEF Types, Phases, CurrentIsNext
  <1>5. Covered'
    <2>1. oplog' = oplog
      OBVIOUS
    <2>2. Inserted' = Inserted /\ \A k : Behind(k)' = Behind(k)
      BY ONLY <2>1, SameOplog
    <2> QED
      BY <2>2 DEF Types, Phases, CurrentIsNext, Covered, Taken
  <1> QED
    BY <1>1, <1>2, <1>3, <1>4, <1>5

LEMMA StreamErrorKeeps ==
    ASSUME WInv, StreamError
    PROVE  WInv'
  <1> USE ConstantFacts, InsertedAt, IdleIsNone DEF WInv, StreamError, store, process, events, counters, history
  <1>1. Types'
    BY DEF Types, Phases, CurrentIsNext, Processing
  <1>2. Phases'
    BY DEF Types, Phases, CurrentIsNext
  <1>3. Unmarked'
    BY DEF Types, Phases, Unmarked, CurrentIsNext
  <1>4. CurrentIsNext'
    BY DEF Types, Phases, CurrentIsNext
  <1>5. Covered'
    <2>1. oplog' = oplog
      OBVIOUS
    <2>2. Inserted' = Inserted /\ \A k : Behind(k)' = Behind(k)
      BY ONLY <2>1, SameOplog
    <2> QED
      BY <2>2 DEF Types, Phases, CurrentIsNext, Covered, Taken
  <1> QED
    BY <1>1, <1>2, <1>3, <1>4, <1>5

LEMMA StartKeeps ==
    ASSUME WInv, Start
    PROVE  WInv'
  <1> USE ConstantFacts, InsertedAt, IdleIsNone DEF WInv, Start, store, process, events, counters, history
  <1>1. Types'
    <2>1. 0 <= Len(oplog) /\ 0 \in Nat /\ {} \subseteq Ids /\ FALSE \in BOOLEAN
      BY DEF Types
    <2>2. UNCHANGED <<oplog, done, token, current, applied, failed>>
      OBVIOUS
    <2>3. /\ phase' = "drain" /\ stream' = "opening" /\ position' = 0
          /\ batch' = {} /\ exhausted' = FALSE /\ delivered' = 0 /\ handled' = 0
      OBVIOUS
    <2>4. exhausted' \in BOOLEAN
      BY ONLY <2>3
    <2> QED
      BY ONLY <2>1, <2>2, <2>3, <2>4, Types DEF Types
  <1>2. Phases'
    BY DEF Types, Phases, CurrentIsNext
  <1>3. Unmarked'
    BY DEF Types, Phases, Unmarked, CurrentIsNext
  <1>4. CurrentIsNext'
    BY DEF Types, Phases, CurrentIsNext
  <1>5. Covered'
    <2>1. oplog' = oplog
      OBVIOUS
    <2>2. Inserted' = Inserted /\ \A k : Behind(k)' = Behind(k)
      BY ONLY <2>1, SameOplog
    <2> QED
      BY <2>2 DEF Types, Phases, CurrentIsNext, Covered, Taken
  <1> QED
    BY <1>1, <1>2, <1>3, <1>4, <1>5

LEMMA StopKeeps ==
    ASSUME WInv, Stop
    PROVE  WInv'
  <1> USE ConstantFacts, InsertedAt, IdleIsNone DEF WInv, Stop, store, process, events, counters, history
  <1>1. Types'
    BY DEF Types, Phases, CurrentIsNext, Processing
  <1>2. Phases'
    BY DEF Types, Phases, CurrentIsNext
  <1>3. Unmarked'
    BY DEF Types, Phases, Unmarked, CurrentIsNext
  <1>4. CurrentIsNext'
    BY DEF Types, Phases, CurrentIsNext
  <1>5. Covered'
    <2>1. oplog' = oplog
      OBVIOUS
    <2>2. Inserted' = Inserted /\ \A k : Behind(k)' = Behind(k)
      BY ONLY <2>1, SameOplog
    <2> QED
      BY <2>2 DEF Types, Phases, CurrentIsNext, Covered, Taken
  <1> QED
    BY <1>1, <1>2, <1>3, <1>4, <1>5

LEMMA DrainOneKeeps ==
    ASSUME WInv, DrainOne
    PROVE  WInv'
  <1> USE ConstantFacts, InsertedAt, IdleIsNone DEF WInv, DrainOne, Begin, store, process, events, counters, history
  <1>1. Types'
    BY DEF Types, Phases, CurrentIsNext, Processing
  <1>2. Phases'
    BY DEF Types, Phases, CurrentIsNext
  <1>3. Unmarked'
    BY DEF Types, Phases, Unmarked, CurrentIsNext
  <1>4. CurrentIsNext'
    BY DEF Types, Phases, CurrentIsNext
  <1>5. Covered'
    <2>1. oplog' = oplog
      OBVIOUS
    <2>2. Inserted' = Inserted /\ \A k : Behind(k)' = Behind(k)
      BY ONLY <2>1, SameOplog
    <2>3. PICK i \in batch : Begin(i, 0) /\ batch' = batch \ {i}
      OBVIOUS
    <2>4. current' # Idle /\ current'.id = i
      BY <2>3 DEF Idle
    <2>5. ASSUME NEW j, Taken(j) PROVE Taken(j)'
      BY <2>3, <2>4, <2>5 DEF Taken
    <2> QED
      BY <2>2, <2>5 DEF Covered
  <1> QED
    BY <1>1, <1>2, <1>3, <1>4, <1>5

LEMMA DrainCompleteKeeps ==
    ASSUME WInv, DrainComplete
    PROVE  WInv'
  <1> USE ConstantFacts, InsertedAt, IdleIsNone DEF WInv, DrainComplete, store, process, events, counters, history
  <1>1. Types'
    BY DEF Types, Phases, CurrentIsNext, Processing
  <1>2. Phases'
    BY DEF Types, Phases, CurrentIsNext
  <1>3. Unmarked'
    BY DEF Types, Phases, Unmarked, CurrentIsNext
  <1>4. CurrentIsNext'
    BY DEF Types, Phases, CurrentIsNext
  <1>5. Covered'
    <2>1. oplog' = oplog
      OBVIOUS
    <2>2. Inserted' = Inserted /\ \A k : Behind(k)' = Behind(k)
      BY ONLY <2>1, SameOplog
    <2> QED
      BY <2>2 DEF Types, Phases, CurrentIsNext, Covered, Taken
  <1> QED
    BY <1>1, <1>2, <1>3, <1>4, <1>5

LEMMA SkipEventKeeps ==
    ASSUME WInv, SkipEvent
    PROVE  WInv'
  <1> USE ConstantFacts, InsertedAt, IdleIsNone DEF WInv, SkipEvent, CanHandle, store, process, events, counters, history
  <1>1. Types'
    BY DEF Types, Phases, CurrentIsNext, Processing
  <1>2. Phases'
    BY DEF Types, Phases, CurrentIsNext
  <1>3. Unmarked'
    BY DEF Types, Phases, Unmarked, CurrentIsNext
  <1>4. CurrentIsNext'
    BY DEF Types, Phases, CurrentIsNext
  <1>5. Covered'
    <2>1. oplog' = oplog
      OBVIOUS
    <2>2. Inserted' = Inserted /\ \A k : Behind(k)' = Behind(k)
      BY ONLY <2>1, SameOplog
    <2>3. /\ handled \in Nat /\ handled < Len(oplog)
          /\ stream # "opening" /\ exhausted
      BY DEF Types, Phases
    <2>4. Behind(handled) \subseteq Behind(handled + 1) \cup {oplog[handled + 1]}
      BY <2>3, BehindNext
    <2> QED
      BY <2>2, <2>3, <2>4 DEF Covered, Taken
  <1> QED
    BY <1>1, <1>2, <1>3, <1>4, <1>5

LEMMA LookupFailsKeeps ==
    ASSUME WInv, LookupFails
    PROVE  WInv'
  <1> USE ConstantFacts, InsertedAt, IdleIsNone DEF WInv, LookupFails, CanHandle, store, process, events, counters, history
  <1>1. Types'
    BY DEF Types, Phases, CurrentIsNext, Processing
  <1>2. Phases'
    BY DEF Types, Phases, CurrentIsNext
  <1>3. Unmarked'
    BY DEF Types, Phases, Unmarked, CurrentIsNext
  <1>4. CurrentIsNext'
    BY DEF Types, Phases, CurrentIsNext
  <1>5. Covered'
    <2>1. oplog' = oplog
      OBVIOUS
    <2>2. Inserted' = Inserted /\ \A k : Behind(k)' = Behind(k)
      BY ONLY <2>1, SameOplog
    <2>3. /\ handled \in Nat /\ handled < Len(oplog)
          /\ stream # "opening" /\ exhausted
      BY DEF Types, Phases
    <2>4. Behind(handled) \subseteq Behind(handled + 1) \cup {oplog[handled + 1]}
      BY <2>3, BehindNext
    <2> QED
      BY <2>2, <2>3, <2>4 DEF Covered, Taken
  <1> QED
    BY <1>1, <1>2, <1>3, <1>4, <1>5

LEMMA HandleEventKeeps ==
    ASSUME WInv, HandleEvent
    PROVE  WInv'
  <1> USE ConstantFacts, InsertedAt, IdleIsNone DEF WInv, HandleEvent, CanHandle, Begin, store, process, events, counters, history
  <1>1. Types'
    <2>1. current' \in Processing \cup {Idle}
      BY DEF Types, Phases, CurrentIsNext, Processing
    <2> QED
      BY <2>1 DEF Types, Phases, CurrentIsNext
  <1>2. Phases'
    BY DEF Types, Phases, CurrentIsNext
  <1>3. Unmarked'
    BY DEF Types, Phases, Unmarked, CurrentIsNext
  <1>4. CurrentIsNext'
    BY DEF Types, Phases, CurrentIsNext
  <1>5. Covered'
    <2>1. oplog' = oplog
      OBVIOUS
    <2>2. Inserted' = Inserted /\ \A k : Behind(k)' = Behind(k)
      BY ONLY <2>1, SameOplog
    <2> QED
      BY <2>2 DEF Types, Phases, CurrentIsNext, Covered, Taken
  <1> QED
    BY <1>1, <1>2, <1>3, <1>4, <1>5

LEMMA ApplyKeeps ==
    ASSUME WInv, Apply
    PROVE  WInv'
  <1> USE ConstantFacts, InsertedAt, IdleIsNone, InProgress DEF WInv, Apply, store, process, events, counters, history
  <1>1. Types'
    <2>1. current' \in Processing \cup {Idle}
      BY DEF Types, Phases, CurrentIsNext
    <2>2. applied' \in Seq(Ids)
      BY DEF Types
    <2> QED
      BY <2>1, <2>2 DEF Types, Phases, CurrentIsNext
  <1>2. Phases'
    BY DEF Types, Phases, CurrentIsNext
  <1>3. Unmarked'
    BY DEF Types, Phases, Unmarked, CurrentIsNext
  <1>4. CurrentIsNext'
    BY DEF Types, Phases, CurrentIsNext
  <1>5. Covered'
    <2>1. oplog' = oplog
      OBVIOUS
    <2>2. Inserted' = Inserted /\ \A k : Behind(k)' = Behind(k)
      BY ONLY <2>1, SameOplog
    <2> QED
      BY <2>2 DEF Types, Phases, CurrentIsNext, Covered, Taken
  <1> QED
    BY <1>1, <1>2, <1>3, <1>4, <1>5

LEMMA ApplyFailsKeeps ==
    ASSUME WInv, ApplyFails
    PROVE  WInv'
  <1> USE ConstantFacts, InsertedAt, IdleIsNone, InProgress DEF WInv, ApplyFails, Failure, store, process, events, counters, history
  <1>1. Types'
    <2>1. current' \in Processing \cup {Idle}
      OBVIOUS
    <2>2. current.id \in Ids /\ applied \in Seq(Ids)
      BY DEF Types
    <2>3. Append(applied, current.id) \in Seq(Ids)
      BY ONLY <2>2
    <2>4. applied' \in Seq(Ids)
      BY <2>2, <2>3
    <2> QED
      BY <2>1, <2>4 DEF Types
  <1>2. Phases'
    BY DEF Types, Phases, CurrentIsNext
  <1>3. Unmarked'
    BY DEF Types, Phases, Unmarked, CurrentIsNext
  <1>4. CurrentIsNext'
    BY DEF Types, Phases, CurrentIsNext
  <1>5. Covered'
    <2>1. oplog' = oplog
      OBVIOUS
    <2>2. Inserted' = Inserted /\ \A k : Behind(k)' = Behind(k)
      BY ONLY <2>1, SameOplog
    <2> QED
      BY <2>2 DEF Types, Phases, CurrentIsNext, Covered, Taken
  <1> QED
    BY <1>1, <1>2, <1>3, <1>4, <1>5

LEMMA MarkProcessedKeeps ==
    ASSUME WInv, MarkProcessed
    PROVE  WInv'
  <1> USE ConstantFacts, InsertedAt, IdleIsNone, InProgress DEF WInv, MarkProcessed, store, process, events, counters, history
  <1>1. Types'
    BY DEF Types, Phases, CurrentIsNext, Processing
  <1>2. Phases'
    BY DEF Types, Phases, CurrentIsNext
  <1>3. Unmarked'
    BY DEF Types, Phases, Unmarked, CurrentIsNext
  <1>4. CurrentIsNext'
    BY DEF Types, Phases, CurrentIsNext
  <1>5. Covered'
    <2>1. oplog' = oplog
      OBVIOUS
    <2>2. Inserted' = Inserted /\ \A k : Behind(k)' = Behind(k)
      BY ONLY <2>1, SameOplog
    <2> QED
      BY <2>2 DEF Types, Phases, CurrentIsNext, Covered, Taken
  <1> QED
    BY <1>1, <1>2, <1>3, <1>4, <1>5

LEMMA MarkFailsKeeps ==
    ASSUME WInv, MarkFails
    PROVE  WInv'
  <1> USE ConstantFacts, InsertedAt, IdleIsNone, InProgress DEF WInv, MarkFails, Failure, store, process, events, counters, history
  <1>1. Types'
    BY DEF Types, Phases, CurrentIsNext, Processing
  <1>2. Phases'
    BY DEF Types, Phases, CurrentIsNext
  <1>3. Unmarked'
    BY DEF Types, Phases, Unmarked, CurrentIsNext
  <1>4. CurrentIsNext'
    BY DEF Types, Phases, CurrentIsNext
  <1>5. Covered'
    <2>1. oplog' = oplog
      OBVIOUS
    <2>2. Inserted' = Inserted /\ \A k : Behind(k)' = Behind(k)
      BY ONLY <2>1, SameOplog
    <2> QED
      BY <2>2 DEF Types, Phases, CurrentIsNext, Covered, Taken
  <1> QED
    BY <1>1, <1>2, <1>3, <1>4, <1>5

LEMMA UpdateWatcherFieldsKeeps ==
    ASSUME WInv, UpdateWatcherFields
    PROVE  WInv'
  <1> USE ConstantFacts, InsertedAt, IdleIsNone, InProgress DEF WInv, UpdateWatcherFields, Return, SaveToken, store, process, events, counters, history
  <1>1. Types'
    <2>1. current' \in Processing \cup {Idle}
      OBVIOUS
    <2>2. UNCHANGED <<oplog, done, phase, stream, missed, delivered, position,
                      batch, exhausted, applied, failed>>
      OBVIOUS
    <2>3. \/ handled' = handled /\ token' = token
          \/ /\ handled' = handled + 1 /\ token' = handled + 1
             /\ handled < delivered
      BY DEF CurrentIsNext
    <2>4. /\ handled' \in Nat /\ handled' <= delivered
          /\ token' # NoToken => token' \in 0 .. Len(oplog)
      BY <2>3 DEF Types
    <2> QED
      BY ONLY <2>1, <2>2, <2>4, WInv DEF WInv, Types
  <1>2. Phases'
    BY DEF Types, Phases, CurrentIsNext
  <1>3. Unmarked'
    BY DEF Types, Phases, Unmarked, CurrentIsNext
  <1>4. CurrentIsNext'
    BY DEF Types, Phases, CurrentIsNext
  <1>5. Covered'
    <2>1. oplog' = oplog
      OBVIOUS
    <2>2. Inserted' = Inserted /\ \A k : Behind(k)' = Behind(k)
      BY ONLY <2>1, SameOplog
    <2>3. current.id \in done /\ failed' = failed /\ done' = done
      BY DEF CurrentIsNext
    <2>4. CASE current.event = 0
      <3>1. handled' = handled /\ token' = token
        BY <2>4
      <3> QED
        BY <2>2, <2>3, <3>1 DEF Covered, Taken
    <2>5. CASE current.event # 0
      <3>1. /\ handled \in Nat /\ handled < Len(oplog)
            /\ handled' = handled + 1 /\ oplog[handled + 1] = current.id
            /\ phase = "live" /\ exhausted /\ stream # "opening"
        BY <2>5 DEF Types, Phases, CurrentIsNext
      <3>2. Behind(handled) \subseteq Behind(handled + 1) \cup {current.id}
        BY <3>1, BehindNext
      <3> QED
        BY <2>2, <2>3, <3>1, <3>2 DEF Covered, Taken
    <2> QED
      BY <2>4, <2>5
  <1> QED
    BY <1>1, <1>2, <1>3, <1>4, <1>5

LEMMA RecordFailureKeeps ==
    ASSUME WInv, RecordFailure
    PROVE  WInv'
  <1> USE ConstantFacts, InsertedAt, IdleIsNone, InProgress DEF WInv, RecordFailure, Return, SaveToken, store, process, events, counters, history
  <1>1. Types'
    <2>1. current' \in Processing \cup {Idle}
      OBVIOUS
    <2>2. UNCHANGED <<oplog, done, phase, stream, missed, delivered, position,
                      batch, exhausted, applied, failed>>
      OBVIOUS
    <2>3. \/ handled' = handled /\ token' = token
          \/ /\ handled' = handled + 1 /\ token' = handled + 1
             /\ handled < delivered
      BY DEF CurrentIsNext
    <2>4. /\ handled' \in Nat /\ handled' <= delivered
          /\ token' # NoToken => token' \in 0 .. Len(oplog)
      BY <2>3 DEF Types
    <2> QED
      BY ONLY <2>1, <2>2, <2>4, WInv DEF WInv, Types
  <1>2. Phases'
    BY DEF Types, Phases, CurrentIsNext
  <1>3. Unmarked'
    BY DEF Types, Phases, Unmarked, CurrentIsNext
  <1>4. CurrentIsNext'
    BY DEF Types, Phases, CurrentIsNext
  <1>5. Covered'
    <2>1. oplog' = oplog
      OBVIOUS
    <2>2. Inserted' = Inserted /\ \A k : Behind(k)' = Behind(k)
      BY ONLY <2>1, SameOplog
    <2>3. current.id \in failed /\ failed' = failed /\ done' = done
      BY DEF CurrentIsNext
    <2>4. CASE current.event = 0
      <3>1. handled' = handled /\ token' = token
        BY <2>4
      <3> QED
        BY <2>2, <2>3, <3>1 DEF Covered, Taken
    <2>5. CASE current.event # 0
      <3>1. /\ handled \in Nat /\ handled < Len(oplog)
            /\ handled' = handled + 1 /\ oplog[handled + 1] = current.id
            /\ phase = "live" /\ exhausted /\ stream # "opening"
        BY <2>5 DEF Types, Phases, CurrentIsNext
      <3>2. Behind(handled) \subseteq Behind(handled + 1) \cup {current.id}
        BY <3>1, BehindNext
      <3> QED
        BY <2>2, <2>3, <3>1, <3>2 DEF Covered, Taken
    <2> QED
      BY <2>4, <2>5
  <1> QED
    BY <1>1, <1>2, <1>3, <1>4, <1>5

LEMMA DownKeeps ==
    ASSUME WInv, Down, UNCHANGED <<store, applied>>
    PROVE  WInv'
  <1>1. /\ UNCHANGED <<oplog, done, token, applied>>
        /\ phase' = "down" /\ position' = 0 /\ batch' = {} /\ exhausted' = FALSE
        /\ stream' = "none" /\ delivered' = 0 /\ handled' = 0
        /\ current' = Idle /\ failed' = {}
    BY DEF Down, store
  <1>2. Types
    BY DEF WInv
  <1>3. Len(oplog) \in Nat
    BY <1>2, InsertedAt
  <1>4. exhausted' \in BOOLEAN
    BY <1>1
  <1>5. Types'
    BY <1>1, <1>2, <1>3, <1>4 DEF Types
  <1>6. Phases'
    BY <1>1 DEF Phases
  <1>7. Unmarked' /\ CurrentIsNext'
    BY <1>1, IdleIsNone DEF Unmarked, CurrentIsNext
  <1>8. Covered'
    BY <1>1 DEF Covered
  <1> QED
    BY <1>6, <1>7, <1>8, <1>5 DEF WInv

LEMMA RecordFailsKeeps ==
    ASSUME WInv, RecordFails
    PROVE  WInv'
  <1>1. CASE current.event = 0
    BY <1>1, DownKeeps DEF RecordFails, store
  <1>2. CASE current.event # 0
    <2> USE ConstantFacts, InsertedAt, IdleIsNone, InProgress, <1>2
        DEF WInv, RecordFails, Return, store, process, counters
    <2>1. /\ handled \in Nat /\ handled < Len(oplog)
          /\ handled' = handled + 1 /\ oplog[handled + 1] = current.id
          /\ phase = "live" /\ exhausted /\ stream # "opening"
      BY DEF Types, Phases, CurrentIsNext
    <2>2. /\ current' = Idle
          /\ UNCHANGED <<oplog, done, token, phase, stream, missed, delivered,
                         position, batch, exhausted, applied, failed>>
      OBVIOUS
    <2>3. current.id \in failed
      BY DEF CurrentIsNext
    <2>4. handled + 1 \in Nat /\ handled + 1 <= delivered
      BY <2>1 DEF Types, CurrentIsNext
    <2>5. Types'
      BY ONLY <2>1, <2>2, <2>4, WInv DEF WInv, Types
    <2>6. Phases' /\ Unmarked' /\ CurrentIsNext'
      BY ONLY <2>1, <2>2, WInv, IdleIsNone DEF WInv, Phases, Unmarked, CurrentIsNext
    <2>7. Inserted' = Inserted /\ \A k : Behind(k)' = Behind(k)
      BY ONLY <2>2, SameOplog
    <2>8. Behind(handled) \subseteq Behind(handled + 1) \cup {current.id}
      BY <2>1, BehindNext
    <2>9. Covered'
      BY ONLY <2>1, <2>2, <2>3, <2>7, <2>8, WInv DEF WInv, Covered, Taken
    <2> QED
      BY ONLY <2>5, <2>6, <2>9 DEF WInv
  <1> QED
    BY <1>1, <1>2

LEMMA InsertKeeps ==
    ASSUME WInv, NEW i \in Ids, Insert(i)
    PROVE  WInv'
  <1>1. /\ i \notin Inserted
        /\ oplog' = Append(oplog, i)
        /\ UNCHANGED <<done, token, phase, stream, missed, delivered, handled,
                       position, batch, exhausted, current, applied, failed>>
    BY DEF Insert, process, events, history
  <1>2. /\ Types /\ oplog \in Seq(Ids) /\ Len(oplog) \in Nat
        /\ Inserted = {oplog[k] : k \in 1 .. Len(oplog)}
    BY InsertedAt DEF WInv, Types
  <1>3. /\ oplog' \in Seq(Ids)
        /\ Len(oplog') = Len(oplog) + 1
        /\ oplog'[Len(oplog) + 1] = i
        /\ \A k \in 1 .. Len(oplog) : oplog'[k] = oplog[k]
    BY <1>1, <1>2
  <1>4. \A k \in 1 .. Len(oplog) : oplog'[k] # i
    BY <1>1, <1>2, <1>3
  <1>5. \A k, m \in 1 .. Len(oplog') : oplog'[k] = oplog'[m] => k = m
    <2> SUFFICES ASSUME NEW k \in 1 .. Len(oplog) + 1, NEW m \in 1 .. Len(oplog) + 1,
                        oplog'[k] = oplog'[m]
                 PROVE  k = m
      BY <1>3
    <2>1. CASE k \in 1 .. Len(oplog) /\ m \in 1 .. Len(oplog)
      BY <2>1, <1>2, <1>3 DEF Types
    <2>2. CASE k = Len(oplog) + 1 \/ m = Len(oplog) + 1
      BY <2>2, <1>2, <1>3, <1>4
    <2> QED
      BY <1>2, <2>1, <2>2
  <1>6. Types'
    BY <1>1, <1>2, <1>3, <1>5 DEF Types
  <1>7. Phases'
    BY <1>1 DEF WInv, Phases
  <1>8. Unmarked'
    BY <1>1 DEF WInv, Unmarked
  <1>9. CurrentIsNext'
    <2>1. (current # Idle /\ current.event # 0) =>
             current.event \in 1 .. Len(oplog)
      BY <1>2 DEF WInv, CurrentIsNext, Types
    <2> QED
      BY <1>1, <1>3, <2>1 DEF WInv, CurrentIsNext
  <1>10. Inserted' = Inserted \cup {i}
    <2>1. Inserted' = {oplog'[k] : k \in 1 .. Len(oplog')}
      BY <1>3 DEF Inserted, ToSet
    <2> QED
      BY <1>2, <1>3, <2>1
  <1>11. ASSUME NEW k \in Nat, k <= Len(oplog)
         PROVE  i \in Behind(k)' /\ Behind(k) \subseteq Behind(k)'
    <2>1. \A n \in 1 .. Len(oplog) : n \in 1 .. Len(oplog')
      BY <1>2, <1>3
    <2>2. Len(oplog) + 1 \in 1 .. Len(oplog') /\ Len(oplog) + 1 > k
      BY <1>2, <1>3, <1>11
    <2> QED
      BY <1>3, <2>1, <2>2 DEF Behind
  <1>12. /\ handled \in Nat /\ handled <= Len(oplog)
         /\ token # NoToken => token \in Nat /\ token <= Len(oplog)
    BY <1>2 DEF Types
  <1>13. ASSUME NEW j, Taken(j) PROVE Taken(j)'
    BY <1>1, <1>13 DEF Taken
  <1>14. Covered'
    <2> SUFFICES ASSUME phase # "down", NEW j \in (Inserted \cup {i}) \ done
                 PROVE  \/ Taken(j)' \/ j \in missed
                        \/ stream = "opening" /\ (token = NoToken \/ j \in Behind(token)')
                        \/ stream = "open" /\ j \in Behind(handled)'
                        \/ stream = "ended"
      BY <1>1, <1>10 DEF Covered
    <2>0. /\ i \in Behind(handled)' /\ Behind(handled) \subseteq Behind(handled)'
          /\ token # NoToken => /\ i \in Behind(token)'
                                /\ Behind(token) \subseteq Behind(token)'
      BY <1>1, <1>11, <1>12
    <2>1. CASE j \in Inserted
      BY <2>0, <2>1, <1>13 DEF WInv, Covered
    <2>2. CASE j = i
      BY <2>0, <2>2, <1>2 DEF WInv, Types, Phases
    <2> QED
      BY <2>1, <2>2
  <1> QED
    BY <1>6, <1>7, <1>8, <1>9, <1>14 DEF WInv

(* The drain's cursor leaves nothing behind: what it has not fetched comes   *)
(* later in the order, and it is exhausted only when nothing is left.        *)
LEMMA FetchBatchKeeps ==
    ASSUME WInv, FetchBatch
    PROVE  WInv'
  <1>1. /\ phase = "drain" /\ current = Idle /\ batch = {} /\ ~exhausted
        /\ UNCHANGED <<oplog, done, token, phase, stream, missed, delivered,
                       handled, current, applied, failed>>
    BY DEF FetchBatch, store, events
  <1>2. PICK b \in SUBSET Unfetched :
          /\ \A k \in b, m \in Unfetched \ b : k < m
          /\ batch' = b
          /\ position' \in b \cup {position}
          /\ \A k \in b \cup {position} : k <= position'
          /\ exhausted' = (b = Unfetched /\ Cardinality(b) < BatchSize)
    BY DEF FetchBatch
  <1>3. exhausted' \in BOOLEAN
    BY <1>2
  <1>4. Types /\ Inserted \subseteq Ids /\ Unfetched \subseteq Ids
    BY InsertedAt DEF WInv, Unfetched
  <1>6. exhausted' => b = Unfetched
    BY <1>2
  <1>7. position \in Nat /\ position' \in Nat
    BY <1>2, <1>4, ConstantFacts DEF Types
  <1>8. Types'
    <2>1. exhausted' \in BOOLEAN /\ batch' \subseteq Ids
      BY <1>2, <1>3, <1>4
    <2> QED
      BY <1>1, <1>4, <1>7, <2>1 DEF Types
  <1>9. Phases' /\ CurrentIsNext'
    BY <1>1 DEF WInv, Phases, CurrentIsNext
  <1>10. Unmarked'
    BY <1>1, <1>2, IdleIsNone DEF WInv, Unmarked, Unfetched
  <1>11. ASSUME NEW j \in Inserted \ done, Taken(j)
         PROVE  Taken(j)'
    <2>1. CASE j \in failed
      BY <1>1, <2>1 DEF Taken
    <2>2. CASE j > position /\ j \in b
      BY <1>2, <2>2 DEF Taken
    <2>3. CASE j > position /\ j \notin b
      <3>1. j \in Unfetched \ b
        BY <2>3 DEF Unfetched
      <3>2. ~exhausted'
        BY <1>6, <3>1
      <3>3. j > position'
        BY <1>2, <1>7, <2>3, <3>1, <1>4, ConstantFacts
      <3> QED
        BY <3>2, <3>3 DEF Taken
    <2> QED
      BY <1>1, <1>11, <2>1, <2>2, <2>3 DEF Taken
  <1>12. Covered'
    <2>1. Inserted' = Inserted /\ \A k : Behind(k)' = Behind(k)
      BY <1>1, SameOplog
    <2> QED
      BY <1>1, <1>11, <2>1 DEF WInv, Covered
  <1> QED
    BY <1>8, <1>9, <1>10, <1>12 DEF WInv

-----------------------------------------------------------------------------
(* The invariant and the theorems. *)

LEMMA WInvInit == Init => WInv
  <1> SUFFICES ASSUME Init PROVE WInv
    OBVIOUS
  <1>1. Types
    <2>1. exhausted \in BOOLEAN
      BY DEF Init
    <2>2. oplog \in Seq(Ids) /\ Len(oplog) = 0 /\ applied \in Seq(Ids)
      BY DEF Init
    <2> QED
      BY <2>1, <2>2 DEF Init, Types
  <1>2. Phases /\ Unmarked /\ CurrentIsNext /\ Covered
    BY IdleIsNone DEF Init, Phases, Unmarked, CurrentIsNext, Covered
  <1> QED
    BY <1>1, <1>2 DEF WInv

LEMMA WInvNext == WInv /\ [Next]_vars => WInv'
  <1> SUFFICES ASSUME WInv, [Next]_vars PROVE WInv'
    OBVIOUS
  <1>1. CASE UNCHANGED vars
    <2>1. Inserted' = Inserted /\ \A k : Behind(k)' = Behind(k)
      BY <1>1, SameOplog DEF vars, store
    <2> QED
      BY <1>1, <2>1 DEF WInv, Types, Phases, Unmarked, CurrentIsNext, Covered, Taken,
                        vars, store, process, events, history
  <1>2. CASE \E i \in Ids : Insert(i)
    BY <1>2, InsertKeeps
  <1>3. CASE OpenStream \/ Deliver \/ StreamError \/ Stop
    BY <1>3, OpenStreamKeeps, DeliverKeeps, StreamErrorKeeps, StopKeeps
  <1>4. CASE Crash \/ Stopped
    BY <1>4, DownKeeps DEF Crash, Stopped, store
  <1>5. CASE Start \/ FetchBatch \/ DrainOne \/ DrainComplete
    BY <1>5, StartKeeps, FetchBatchKeeps, DrainOneKeeps, DrainCompleteKeeps
  <1>6. CASE SkipEvent \/ LookupFails \/ HandleEvent
    BY <1>6, SkipEventKeeps, LookupFailsKeeps, HandleEventKeeps
  <1>7. CASE ProcessInstruction
    BY <1>7, ApplyKeeps, ApplyFailsKeeps, MarkProcessedKeeps, MarkFailsKeeps,
       UpdateWatcherFieldsKeeps, RecordFailureKeeps, RecordFailsKeeps
       DEF ProcessInstruction
  <1> QED
    BY <1>1, <1>2, <1>3, <1>4, <1>5, <1>6, <1>7 DEF Next, Work

LEMMA WInvariant == Spec => []WInv
  BY WInvInit, WInvNext, PTL DEF Spec

(* While the watcher is live on an open stream, every instruction is         *)
(* processed, being processed, still to be brought up by the stream, was     *)
(* tried by this process, was inserted before a first stream opened, or had  *)
(* its look-up reject: the drain and the stream of                           *)
(* vault-instruction-watcher.ts leave no other gap.                          *)
THEOREM NeverMissed == Spec => []NothingMissed
  <1>1. WInv => NothingMissed
    <2> SUFFICES ASSUME WInv, phase = "live", stream = "open",
                        NEW i \in Inserted \ (done \cup failed),
                        ~(current # Idle /\ current.id = i), i \notin missed
                 PROVE  PositionOf(i) > handled
      BY DEF NothingMissed
    <2>1. i \in Behind(handled)
      BY DEF WInv, Phases, Covered, Taken
    <2>2. PICK m \in 1 .. Len(oplog) : m > handled /\ oplog[m] = i
      BY <2>1 DEF Behind
    <2>3. DOMAIN oplog = 1 .. Len(oplog)
      BY DEF WInv, Types
    <2>4. \A k \in DOMAIN oplog : oplog[k] = i => k = m
      BY <2>2, <2>3 DEF WInv, Types
    <2>5. PositionOf(i) = m
      BY <2>2, <2>3, <2>4 DEF PositionOf
    <2> QED
      BY <2>2, <2>5
  <1> QED
    BY <1>1, WInvariant, PTL

LEMMA AppliedUnmarked ==
    ASSUME WInv, [Next]_vars
    PROVE  \/ applied' = applied
           \/ /\ current # Idle /\ current.id \notin done
              /\ applied' = Append(applied, current.id)
  <1>1. CASE UNCHANGED vars
    BY <1>1 DEF vars, history
  <1>2. CASE \E i \in Ids : Insert(i)
    BY <1>2 DEF Insert, history
  <1>3. CASE OpenStream \/ Deliver \/ StreamError \/ Stop \/ Crash \/ Stopped
    BY <1>3 DEF OpenStream, Deliver, StreamError, Stop, Crash, Stopped, history
  <1>4. CASE \/ Start \/ FetchBatch \/ DrainOne \/ DrainComplete
             \/ SkipEvent \/ LookupFails \/ HandleEvent
    BY <1>4 DEF Start, FetchBatch, DrainOne, DrainComplete, SkipEvent, LookupFails,
                HandleEvent, history
  <1>5. CASE Apply \/ ApplyFails
    BY <1>5, IdleIsNone DEF Apply, ApplyFails, WInv, Unmarked
  <1>6. CASE MarkProcessed \/ MarkFails \/ UpdateWatcherFields \/ RecordFailure \/ RecordFails
    BY <1>6 DEF MarkProcessed, MarkFails, UpdateWatcherFields, RecordFailure,
                RecordFails, history
  <1> QED
    BY <1>1, <1>2, <1>3, <1>4, <1>5, <1>6 DEF Next, Work, ProcessInstruction

(* An instruction whose processedAt is set is never applied again: neither   *)
(* the drain's query nor the look-up of the live document lets it through.   *)
THEOREM NeverAgain == Spec => ProcessedOnce
  <1>1. ASSUME WInv, [Next]_vars, NEW i \in done
        PROVE  Times(i, applied') = Times(i, applied)
    <2>1. CASE applied' = applied
      BY <2>1
    <2>2. CASE /\ current # Idle /\ current.id \notin done
               /\ applied' = Append(applied, current.id)
      <3>1. applied \in Seq(Ids) /\ current.id \in Ids
        <4>1. current \in Processing
          BY <1>1, <2>2 DEF WInv, Types
        <4> QED
          BY <1>1, <4>1 DEF WInv, Types, Processing
      <3>2. /\ DOMAIN applied = 1 .. Len(applied) /\ Len(applied) \in Nat
            /\ DOMAIN applied' = 1 .. Len(applied) + 1
            /\ \A k \in 1 .. Len(applied) : applied'[k] = applied[k]
            /\ applied'[Len(applied) + 1] = current.id
        BY <2>2, <3>1
      <3>3. current.id # i
        BY <2>2, <1>1
      <3>4. {k \in DOMAIN applied' : applied'[k] = i} = {k \in DOMAIN applied : applied[k] = i}
        BY <3>2, <3>3
      <3> QED
        BY <3>4 DEF Times
    <2> QED
      BY <1>1, <2>1, <2>2, AppliedUnmarked
  <1>2. WInv /\ [Next]_vars => [\A i \in done : Times(i, applied') = Times(i, applied)]_vars
    BY <1>1
  <1> QED
    BY <1>2, WInvariant, PTL DEF Spec, ProcessedOnce

-----------------------------------------------------------------------------
(* The order of the builder's work: the invariant. *)

(* Processed, or left for later: another instruction may pass it. *)
Ripe(i) == i \in done \cup deferred

(* Issued and inserted before. *)
Before(i, j) ==
    i < j /\ \E k, m \in 1 .. Len(oplog) : k < m /\ oplog[k] = i /\ oplog[m] = j

InWork(i) == i \in batch \/ (current # Idle /\ current.id = i)

(* What the process holds has been inserted; what failed is left for later. *)
Stored ==
    /\ done \cup deferred \cup batch \subseteq Inserted
    /\ failed \cup missed \subseteq deferred
    /\ applied \in Seq(Inserted)
    /\ current # Idle => current.id \in Inserted
    /\ position <= N

(* An instruction has been applied, is being applied or is fetched only when *)
(* those before it are ripe, or fetched with it.                             *)
InOrder ==
    \A i, j \in Inserted : Before(i, j) =>
        /\ j \in ToSet(applied) => Ripe(i)
        /\ (current.at = "apply" /\ current.id = j) => Ripe(i)
        /\ j \in batch => Ripe(i) \/ InWork(i)

(* The events that the pipeline has been through, or that the stream began   *)
(* after, are ripe or with the drain.                                        *)
Passed ==
    phase # "down" =>
        \A m \in 1 .. handled :
            \/ Ripe(oplog[m]) \/ InWork(oplog[m])
            \/ ~exhausted /\ oplog[m] > position

(* The events that a restarted stream will not bring up again are ripe. *)
Saved == token # NoToken => \A m \in 1 .. token : Ripe(oplog[m])

OInv == WInv /\ Stored /\ InOrder /\ Passed /\ Saved

LEMMA SameBefore ==
    ASSUME oplog' = oplog
    PROVE  /\ Inserted' = Inserted
           /\ \A i, j : Before(i, j)' = Before(i, j)
  BY DEF Inserted, Before

LEMMA StillRipe ==
    ASSUME done \subseteq done', deferred \subseteq deferred'
    PROVE  \A i : Ripe(i) => Ripe(i)'
  BY DEF Ripe

(* What is in the oplog at a position. *)
LEMMA OplogAt ==
    ASSUME Types
    PROVE  /\ Len(oplog) \in Nat
           /\ \A m \in 1 .. Len(oplog) : oplog[m] \in Inserted /\ oplog[m] \in Nat
           /\ Inserted \subseteq Nat
  <1>1. /\ Inserted = {oplog[k] : k \in 1 .. Len(oplog)}
        /\ Inserted \subseteq Ids /\ Len(oplog) \in Nat
    BY InsertedAt
  <1>2. Inserted \subseteq Nat
    BY <1>1, ConstantFacts
  <1>3. \A m \in 1 .. Len(oplog) : oplog[m] \in Inserted
    BY <1>1
  <1> QED
    BY <1>1, <1>2, <1>3

(* The members of an extended sequence. *)
LEMMA AppendedSet ==
    ASSUME NEW S, NEW s \in Seq(S), NEW x \in S
    PROVE  /\ Append(s, x) \in Seq(S)
           /\ ToSet(Append(s, x)) = ToSet(s) \cup {x}
           /\ ToSet(s) \subseteq S
           /\ Last(Append(s, x)) = x
  <1>1. /\ Append(s, x) \in Seq(S) /\ Len(s) \in Nat
        /\ DOMAIN Append(s, x) = 1 .. Len(s) + 1 /\ DOMAIN s = 1 .. Len(s)
        /\ Len(Append(s, x)) = Len(s) + 1
        /\ \A k \in 1 .. Len(s) : Append(s, x)[k] = s[k] /\ s[k] \in S
        /\ Append(s, x)[Len(s) + 1] = x
    OBVIOUS
  <1>2. 1 .. Len(s) + 1 = (1 .. Len(s)) \cup {Len(s) + 1}
    BY <1>1
  <1> HIDE DEF ToSet, Last
  <1>3. ToSet(Append(s, x)) = ToSet(s) \cup {x}
    BY <1>1, <1>2 DEF ToSet
  <1> QED
    BY <1>1, <1>3 DEF ToSet, Last

-----------------------------------------------------------------------------
(* Every step keeps the order. *)

(* Deliver, StreamError, Stop, DrainComplete and stuttering. *)
LEMMA QuietOrder ==
    ASSUME OInv, WInv', phase' # "down" => phase # "down",
           UNCHANGED <<oplog, done, token, missed, handled, position, batch,
                       exhausted, current, applied, failed, deferred>>
    PROVE  OInv'
  <1>1. Inserted' = Inserted /\ \A i, j : Before(i, j)' = Before(i, j)
    BY SameBefore
  <1>2. Stored' /\ InOrder'
    BY <1>1 DEF OInv, Stored, InOrder, Ripe, InWork
  <1>3. Passed' /\ Saved'
    BY DEF OInv, Passed, Saved, Ripe, InWork
  <1> QED
    BY <1>2, <1>3 DEF OInv

(* Start, Stopped, Crash and a drain that rejects. *)
LEMMA ResetOrder ==
    ASSUME OInv, WInv', failed' \subseteq failed, missed' = {}, handled' = 0,
           position' = 0, batch' = {}, current' = Idle,
           UNCHANGED <<oplog, done, token, applied, deferred>>
    PROVE  OInv'
  <1>1. Inserted' = Inserted /\ \A i, j : Before(i, j)' = Before(i, j)
    BY SameBefore
  <1>2. Stored'
    BY <1>1, ConstantFacts DEF OInv, Stored
  <1>3. InOrder'
    BY <1>1, IdleIsNone DEF OInv, InOrder, Ripe
  <1>4. Passed' /\ Saved'
    BY DEF OInv, Passed, Saved, Ripe
  <1> QED
    BY <1>2, <1>3, <1>4 DEF OInv

LEMMA InsertOrder ==
    ASSUME OInv, WInv', NEW i \in Ids, Insert(i)
    PROVE  OInv'
  <1>1. /\ i \notin Inserted /\ oplog' = Append(oplog, i)
        /\ UNCHANGED <<done, token, phase, missed, handled, position, batch,
                       exhausted, current, applied, failed, deferred>>
    BY DEF Insert, process, events, history
  <1>2. /\ Types /\ oplog \in Seq(Ids) /\ Len(oplog) \in Nat
        /\ \A m \in 1 .. Len(oplog) : oplog[m] \in Inserted
    BY OplogAt DEF OInv, WInv, Types
  <1>3. /\ oplog' \in Seq(Ids) /\ Len(oplog') = Len(oplog) + 1
        /\ oplog'[Len(oplog) + 1] = i
        /\ \A k \in 1 .. Len(oplog) : oplog'[k] = oplog[k]
    BY <1>1, <1>2
  <1>4. Inserted' = Inserted \cup {i}
    BY <1>1, <1>2, AppendedSet DEF Inserted
  <1>5. ASSUME NEW a, NEW b \in Inserted, Before(a, b)'
        PROVE  a \in Inserted /\ Before(a, b)
    <2>1. PICK k \in 1 .. Len(oplog'), m \in 1 .. Len(oplog') :
             k < m /\ oplog'[k] = a /\ oplog'[m] = b
      BY <1>5 DEF Before
    <2>2. m # Len(oplog) + 1
      BY <1>1, <1>3, <2>1
    <2>3. k \in 1 .. Len(oplog) /\ m \in 1 .. Len(oplog)
      BY <1>2, <1>3, <2>1, <2>2
    <2>4. oplog[k] = a /\ oplog[m] = b
      BY <1>3, <2>1, <2>3
    <2> QED
      BY <1>2, <1>5, <2>1, <2>3, <2>4 DEF Before
  <1>6. Stored'
    <2>1. applied' \in Seq(Inserted')
      BY <1>1, <1>4 DEF OInv, Stored
    <2> QED
      BY <1>1, <1>4, <2>1 DEF OInv, Stored
  <1>7. InOrder'
    <2> SUFFICES ASSUME NEW a \in Inserted', NEW b \in Inserted', Before(a, b)'
                 PROVE  /\ b \in ToSet(applied) => Ripe(a)
                        /\ (current.at = "apply" /\ current.id = b) => Ripe(a)
                        /\ b \in batch => Ripe(a) \/ InWork(a)
      BY <1>1 DEF InOrder, Ripe, InWork
    <2>1. CASE b \in Inserted
      BY <1>5, <2>1 DEF OInv, InOrder
    <2>2. CASE b = i
      <3>1. ToSet(applied) \subseteq Inserted
        BY DEF OInv, Stored, ToSet
      <3>2. current.at = "apply" => current # Idle
        BY IdleIsNone
      <3> QED
        BY <1>1, <2>2, <3>1, <3>2 DEF OInv, Stored
    <2> QED
      BY <1>4, <2>1, <2>2
  <1>8. \A m \in 1 .. Len(oplog) : oplog'[m] = oplog[m]
    BY <1>3
  <1>9. Passed'
    <2>1. \A m \in 1 .. handled : m \in 1 .. Len(oplog)
      BY <1>2 DEF Types
    <2> QED
      BY <1>1, <1>8, <2>1 DEF OInv, Passed, Ripe, InWork
  <1>10. Saved'
    <2>1. token # NoToken => \A m \in 1 .. token : m \in 1 .. Len(oplog)
      BY <1>2 DEF Types
    <2> QED
      BY <1>1, <1>8, <2>1 DEF OInv, Saved, Ripe
  <1> QED
    BY <1>6, <1>7, <1>9, <1>10 DEF OInv

(* A stream that begins where the oplog ends leaves what the drain has       *)
(* passed by for later; one that resumes begins after what is ripe.          *)
LEMMA OpenStreamOrder ==
    ASSUME OInv, WInv', OpenStream
    PROVE  OInv'
  <1>1. /\ missed' = (IF token = NoToken THEN Undrained ELSE {})
        /\ deferred' = deferred \cup missed'
        /\ handled' = IF token = NoToken THEN Len(oplog) ELSE token
        /\ UNCHANGED <<oplog, done, token, phase, position, batch, exhausted,
                       current, applied, failed>>
    BY DEF OpenStream, store, process
  <1>2. Inserted' = Inserted /\ \A i, j : Before(i, j)' = Before(i, j)
    BY <1>1, SameBefore
  <1>3. \A i : Ripe(i) => Ripe(i)'
    BY <1>1, StillRipe
  <1>4. Stored'
    BY <1>1, <1>2 DEF OInv, Stored, Undrained
  <1>5. InOrder'
    BY <1>1, <1>2, <1>3 DEF OInv, InOrder, InWork
  <1>6. Passed'
    <2> SUFFICES ASSUME NEW m \in 1 .. handled'
                 PROVE  \/ Ripe(oplog[m])' \/ InWork(oplog[m])
                        \/ ~exhausted /\ oplog[m] > position
      BY <1>1 DEF Passed, InWork
    <2>1. CASE token # NoToken
      BY <1>1, <1>3, <2>1 DEF OInv, Saved
    <2>2. CASE token = NoToken
      <3>1. oplog[m] \in Inserted /\ oplog[m] \in Nat /\ position \in Nat
        BY <1>1, <2>2, OplogAt DEF OInv, WInv, Types
      <3>2. CASE oplog[m] \in Undrained
        BY <1>1, <2>2, <3>2 DEF Ripe
      <3>3. CASE oplog[m] \notin Undrained
        BY <1>1, <3>1, <3>3 DEF Undrained, Ripe, InWork
      <3> QED
        BY <3>2, <3>3
    <2> QED
      BY <2>1, <2>2
  <1>7. Saved'
    BY <1>1, <1>3 DEF OInv, Saved
  <1> QED
    BY <1>4, <1>5, <1>6, <1>7 DEF OInv

(* What the cursor passes by is left for later; what it fetches is next.     *)
LEMMA FetchBatchOrder ==
    ASSUME OInv, WInv', FetchBatch
    PROVE  OInv'
  <1>1. /\ batch = {} /\ ~exhausted /\ current = Idle
        /\ UNCHANGED <<oplog, done, token, phase, missed, handled, current,
                       applied, failed>>
    BY DEF FetchBatch, store, events
  <1>2. PICK b \in SUBSET Unfetched :
          /\ b = {} => Unfetched = {}
          /\ \A k \in b, m \in Unfetched \ b : k < m
          /\ batch' = b
          /\ position' \in b \cup {position}
          /\ \A k \in b \cup {position} : k <= position'
          /\ exhausted' = (b = Unfetched /\ Cardinality(b) < BatchSize)
          /\ deferred' = IF b = {} THEN deferred ELSE deferred \cup PassedBy
    BY DEF FetchBatch
  <1>3. /\ Types /\ Inserted \subseteq Nat /\ position \in Nat /\ Len(oplog) \in Nat
        /\ \A m \in 1 .. Len(oplog) : oplog[m] \in Inserted
    BY OplogAt DEF OInv, WInv, Types
  <1>4. Inserted' = Inserted /\ \A i, j : Before(i, j)' = Before(i, j)
    BY <1>1, SameBefore
  <1>5. deferred \subseteq deferred' /\ \A i : Ripe(i) => Ripe(i)'
    BY <1>1, <1>2, StillRipe
  <1>6. Stored'
    <2>1. Unfetched \cup PassedBy \subseteq Inserted /\ Inserted \subseteq Ids
      BY <1>3, InsertedAt DEF Unfetched, PassedBy
    <2>2. b \subseteq 1 .. N /\ position <= N
      BY <2>1, ConstantFacts DEF OInv, Stored
    <2>3. position' <= N
      BY <1>2, <2>2
    <2> QED
      BY <1>1, <1>2, <1>4, <1>5, <2>1, <2>3 DEF OInv, Stored
  <1>7. InOrder'
    <2>1. ASSUME NEW i \in Inserted, NEW j \in b, Before(i, j)
          PROVE  Ripe(i)' \/ i \in b
      <3>1. CASE i \in done
        BY <1>1, <3>1 DEF Ripe
      <3>2. CASE i \notin done /\ i <= position
        BY <1>2, <3>2 DEF Ripe, PassedBy
      <3>3. CASE i \notin done /\ i > position
        <4>1. i \in Unfetched /\ i < j /\ i \in Nat /\ j \in Nat
          BY <1>3, <2>1, <3>3 DEF Unfetched, Before
        <4> QED
          BY <1>2, <4>1
      <3> QED
        BY <1>3, <3>1, <3>2, <3>3
    <2> QED
      BY <1>1, <1>2, <1>4, <1>5, <2>1, IdleIsNone DEF OInv, InOrder, InWork
  <1>8. Passed'
    <2> SUFFICES ASSUME phase # "down", NEW m \in 1 .. handled
                 PROVE  \/ Ripe(oplog[m])' \/ oplog[m] \in b
                        \/ ~exhausted' /\ oplog[m] > position'
      BY <1>1, <1>2 DEF Passed, InWork
    <2>1. oplog[m] \in Inserted /\ oplog[m] \in Nat
      <3>1. handled \in Nat /\ handled <= Len(oplog)
        BY <1>3 DEF Types
      <3>2. m \in 1 .. Len(oplog)
        BY ONLY <1>3, <3>1, m \in 1 .. handled
      <3> QED
        BY <1>3, <3>2
    <2>2. CASE Ripe(oplog[m])
      BY <1>1, <1>5, <2>2 DEF Ripe
    <2>3. CASE oplog[m] > position /\ oplog[m] \notin done /\ oplog[m] \notin b
      <3>1. oplog[m] \in Unfetched \ b
        BY <2>1, <2>3 DEF Unfetched
      <3>2. position' \in Nat /\ oplog[m] > position'
        BY <1>2, <1>3, <2>1, <2>3, <3>1 DEF Unfetched
      <3> QED
        BY <1>2, <3>1, <3>2
    <2>4. CASE oplog[m] \in done
      BY <2>2, <2>4 DEF Ripe
    <2> QED
      BY <1>1, <2>2, <2>3, <2>4 DEF OInv, Passed, InWork
  <1>9. Saved'
    BY <1>1, <1>5 DEF OInv, Saved
  <1> QED
    BY <1>6, <1>7, <1>8, <1>9 DEF OInv

(* The least of the batch is applied next: those before it are ripe. *)
LEMMA DrainOneOrder ==
    ASSUME OInv, WInv', DrainOne
    PROVE  OInv'
  <1>1. /\ current = Idle
        /\ UNCHANGED <<oplog, done, token, phase, missed, handled, position,
                       exhausted, applied, failed, deferred>>
    BY DEF DrainOne, store, events, history
  <1>2. PICK n \in batch : /\ \A j \in batch : n <= j
                           /\ current' = [at |-> "apply", id |-> n, event |-> 0]
                           /\ batch' = batch \ {n}
    BY DEF DrainOne, Begin
  <1>3. /\ current' # Idle /\ current'.id = n /\ current'.at = "apply"
        /\ \A i : InWork(i) => InWork(i)'
    BY <1>1, <1>2 DEF Idle, InWork
  <1>4. Inserted' = Inserted /\ \A i, j : Before(i, j)' = Before(i, j)
    BY <1>1, SameBefore
  <1>5. n \in Inserted /\ batch \subseteq Inserted
    BY DEF OInv, Stored
  <1>6. Stored'
    BY <1>1, <1>2, <1>3, <1>4, <1>5 DEF OInv, Stored
  <1>7. ASSUME NEW i \in Inserted, Before(i, n) PROVE Ripe(i)
    <2>1. i < n /\ i \in Nat /\ n \in Nat
      BY <1>5, <1>7, OplogAt DEF OInv, WInv, Before
    <2>2. ~InWork(i)
      BY <1>1, <1>2, <2>1 DEF InWork
    <2> QED
      BY <1>5, <1>7, <2>2 DEF OInv, InOrder
  <1>8. InOrder'
    BY <1>1, <1>2, <1>3, <1>4, <1>7 DEF OInv, InOrder, Ripe
  <1>9. Passed' /\ Saved'
    BY <1>1, <1>3 DEF OInv, Passed, Saved, Ripe
  <1> QED
    BY <1>6, <1>8, <1>9 DEF OInv

(* When the watcher is live and idle, every event behind it is ripe. *)
LEMMA BehindIsRipe ==
    ASSUME OInv, phase = "live", current = Idle, NEW m \in 1 .. handled
    PROVE  Ripe(oplog[m])
  BY DEF OInv, WInv, Phases, Passed, InWork

LEMMA HandleEventOrder ==
    ASSUME OInv, WInv', HandleEvent
    PROVE  OInv'
  <1>1. /\ phase = "live" /\ current = Idle /\ handled < delivered
        /\ current' = [at |-> "apply", id |-> oplog[handled + 1], event |-> handled + 1]
        /\ UNCHANGED <<oplog, done, token, phase, missed, handled, position,
                       batch, exhausted, applied, failed, deferred>>
    BY DEF HandleEvent, CanHandle, Begin, store, process, events, history
  <1> DEFINE n == oplog[handled + 1]
  <1>2. /\ Types /\ handled \in Nat /\ handled + 1 \in 1 .. Len(oplog)
        /\ Len(oplog) \in Nat /\ n \in Inserted
    BY <1>1, OplogAt DEF OInv, WInv, Types
  <1>3. /\ current' # Idle /\ current'.id = n /\ current'.at = "apply"
        /\ \A i : InWork(i) => InWork(i)'
    BY <1>1 DEF Idle, InWork
  <1>4. Inserted' = Inserted /\ \A i, j : Before(i, j)' = Before(i, j)
    BY <1>1, SameBefore
  <1>5. Stored'
    BY <1>1, <1>2, <1>3, <1>4 DEF OInv, Stored
  <1>6. ASSUME NEW i \in Inserted, Before(i, n) PROVE Ripe(i)
    <2>1. PICK k \in 1 .. Len(oplog), m \in 1 .. Len(oplog) :
             k < m /\ oplog[k] = i /\ oplog[m] = n
      BY <1>6 DEF Before
    <2>2. m = handled + 1
      BY <1>2, <2>1 DEF Types
    <2>3. k \in 1 .. handled
      BY <1>2, <2>1, <2>2
    <2> QED
      BY <1>1, <2>1, <2>3, BehindIsRipe
  <1>7. InOrder'
    BY <1>1, <1>3, <1>4, <1>6 DEF OInv, InOrder, Ripe
  <1>8. Passed' /\ Saved'
    BY <1>1, <1>3 DEF OInv, Passed, Saved, Ripe
  <1> QED
    BY <1>5, <1>7, <1>8 DEF OInv

LEMMA SkipEventOrder ==
    ASSUME OInv, WInv', SkipEvent
    PROVE  OInv'
  <1>1. /\ phase = "live" /\ current = Idle /\ handled < delivered
        /\ oplog[handled + 1] \in done /\ handled' = handled + 1
        /\ token' \in {token, handled + 1}
        /\ UNCHANGED <<oplog, done, phase, missed, position, batch, exhausted,
                       current, applied, failed, deferred>>
    BY DEF SkipEvent, CanHandle, process, history
  <1>2. handled \in Nat
    BY DEF OInv, WInv, Types
  <1>3. \A m \in 1 .. handled + 1 : Ripe(oplog[m])
    <2> TAKE m \in 1 .. handled + 1
    <2>1. CASE m = handled + 1
      BY <1>1, <2>1 DEF Ripe
    <2>2. CASE m # handled + 1
      <3>1. m \in 1 .. handled
        BY <1>2, <2>2
      <3> QED
        BY <1>1, <3>1, BehindIsRipe
    <2> QED
      BY <2>1, <2>2
  <1>4. Inserted' = Inserted /\ \A i, j : Before(i, j)' = Before(i, j)
    BY <1>1, SameBefore
  <1>5. Stored' /\ InOrder'
    BY <1>1, <1>4 DEF OInv, Stored, InOrder, Ripe, InWork
  <1>6. Passed'
    BY <1>1, <1>3 DEF Passed, Ripe
  <1>7. Saved'
    BY <1>1, <1>3 DEF OInv, Saved, Ripe
  <1> QED
    BY <1>5, <1>6, <1>7 DEF OInv

LEMMA LookupFailsOrder ==
    ASSUME OInv, WInv', LookupFails
    PROVE  OInv'
  <1> DEFINE n == oplog[handled + 1]
  <1>1. /\ phase = "live" /\ current = Idle /\ handled < delivered
        /\ handled' = handled + 1
        /\ missed' = missed \cup {n} /\ deferred' = deferred \cup {n}
        /\ UNCHANGED <<oplog, done, token, phase, position, batch, exhausted,
                       current, applied, failed>>
    BY DEF LookupFails, CanHandle, store, process
  <1>2. handled \in Nat /\ n \in Inserted
    <2>1. Types /\ handled \in Nat /\ handled + 1 \in 1 .. Len(oplog)
      BY <1>1, OplogAt DEF OInv, WInv, Types
    <2> QED
      BY <2>1, OplogAt
  <1>3. \A m \in 1 .. handled + 1 : Ripe(oplog[m])'
    <2> TAKE m \in 1 .. handled + 1
    <2>1. CASE m = handled + 1
      BY <1>1, <2>1 DEF Ripe
    <2>2. CASE m # handled + 1
      <3>1. m \in 1 .. handled
        BY <1>2, <2>2
      <3> QED
        BY <1>1, <3>1, BehindIsRipe DEF Ripe
    <2> QED
      BY <2>1, <2>2
  <1>4. Inserted' = Inserted /\ \A i, j : Before(i, j)' = Before(i, j)
    BY <1>1, SameBefore
  <1>5. Stored' /\ InOrder'
    BY <1>1, <1>2, <1>4 DEF OInv, Stored, InOrder, Ripe, InWork
  <1>6. Passed'
    BY <1>1, <1>3 DEF Passed
  <1>7. Saved'
    BY <1>1 DEF OInv, Saved, Ripe
  <1> QED
    BY <1>5, <1>6, <1>7 DEF OInv

(* The builder's work on an instruction, up to the last await. *)
LEMMA WorkOrder ==
    ASSUME OInv, WInv', Apply \/ ApplyFails \/ MarkProcessed \/ MarkFails
    PROVE  OInv'
  <1>1. /\ current # Idle /\ current' # Idle /\ current'.id = current.id
        /\ current'.at # "apply"
    BY InProgress, IdleIsNone DEF OInv, WInv, Apply, ApplyFails, MarkProcessed, MarkFails
  <1>2. /\ done' \in {done, done \cup {current.id}}
        /\ \/ deferred' = deferred /\ failed' = failed
           \/ /\ deferred' = deferred \cup {current.id}
              /\ failed' = failed \cup {current.id}
        /\ UNCHANGED <<oplog, token, phase, missed, handled, position, batch,
                       exhausted>>
    BY DEF Apply, ApplyFails, MarkProcessed, MarkFails, store, process, events, history
  <1>3. \/ applied' = applied
        \/ current.at = "apply" /\ applied' = Append(applied, current.id)
    BY DEF Apply, ApplyFails, MarkProcessed, MarkFails, history
  <1>4. Inserted' = Inserted /\ \A i, j : Before(i, j)' = Before(i, j)
    BY <1>2, SameBefore
  <1>5. \A i : (Ripe(i) => Ripe(i)') /\ InWork(i)' = InWork(i)
    BY <1>1, <1>2 DEF Ripe, InWork
  <1>6. current.id \in Inserted /\ applied \in Seq(Inserted)
    BY <1>1 DEF OInv, Stored
  <1>7. /\ applied' \in Seq(Inserted)
        /\ \A j \in ToSet(applied') :
              j \in ToSet(applied) \/ (current.at = "apply" /\ current.id = j)
    <2>1. CASE applied' = applied
      BY <1>6, <2>1
    <2>2. CASE current.at = "apply" /\ applied' = Append(applied, current.id)
      <3>1. /\ Append(applied, current.id) \in Seq(Inserted)
            /\ ToSet(Append(applied, current.id)) = ToSet(applied) \cup {current.id}
        BY <1>6, AppendedSet
      <3> QED
        BY <2>2, <3>1
    <2> QED
      BY <1>3, <2>1, <2>2
  <1>8. Stored'
    BY <1>1, <1>2, <1>4, <1>6, <1>7 DEF OInv, Stored
  <1>9. InOrder'
    BY <1>1, <1>2, <1>4, <1>5, <1>7 DEF OInv, InOrder
  <1>10. \A m : oplog'[m] = oplog[m] /\ (Ripe(oplog[m]) => Ripe(oplog[m])')
    BY <1>2 DEF Ripe
  <1>11. \A m : InWork(oplog[m])' = InWork(oplog[m])
    BY <1>1, <1>2 DEF InWork
  <1>12. Passed'
    BY <1>2, <1>10, <1>11 DEF OInv, Passed
  <1>13. Saved'
    BY <1>2, <1>10 DEF OInv, Saved
  <1> QED
    BY <1>8, <1>9, <1>12, <1>13 DEF OInv

(* processInstruction returns: the instruction is processed, or failed and   *)
(* left for later, and its event, if it has one, is the next.                *)
LEMMA ReturnOrder ==
    ASSUME OInv, WInv', current # Idle, Ripe(current.id), current' = Idle,
           \/ handled' = handled /\ token' = token
           \/ /\ phase = "live" /\ handled' = handled + 1 /\ handled < delivered
              /\ current.id = oplog[handled + 1] /\ token' \in {token, handled + 1},
           UNCHANGED <<oplog, done, phase, missed, position, batch, exhausted,
                       applied, failed, deferred>>
    PROVE  OInv'
  <1>1. Inserted' = Inserted /\ \A i, j : Before(i, j)' = Before(i, j)
    BY SameBefore
  <1>2. \A i : /\ Ripe(i)' = Ripe(i)
               /\ InWork(i) => Ripe(i) \/ i \in batch
    BY DEF Ripe, InWork
  <1>3. Stored'
    BY <1>1 DEF OInv, Stored
  <1>4. InOrder'
    BY <1>1, <1>2, IdleIsNone DEF OInv, InOrder, InWork
  <1>5. handled \in Nat
    BY DEF OInv, WInv, Types
  <1>6. ASSUME phase # "down", NEW m \in 1 .. handled
        PROVE  \/ Ripe(oplog[m]) \/ oplog[m] \in batch
               \/ ~exhausted /\ oplog[m] > position
    BY <1>2, <1>6 DEF OInv, Passed
  <1>7. CASE handled' = handled /\ token' = token
    <2>1. Passed'
      BY <1>6, <1>7 DEF Passed, Ripe, InWork
    <2>2. Saved'
      BY <1>7 DEF OInv, Saved, Ripe
    <2> QED
      BY <1>3, <1>4, <2>1, <2>2 DEF OInv
  <1>8. CASE /\ phase = "live" /\ handled' = handled + 1
             /\ current.id = oplog[handled + 1] /\ token' \in {token, handled + 1}
    <2>1. exhausted /\ batch = {}
      BY <1>8 DEF OInv, WInv, Phases
    <2>2. \A m \in 1 .. handled + 1 : Ripe(oplog[m])
      <3> TAKE m \in 1 .. handled + 1
      <3>1. CASE m = handled + 1
        BY <1>8, <3>1
      <3>2. CASE m # handled + 1
        <4>1. m \in 1 .. handled
          BY <1>5, <3>2
        <4> QED
          BY <1>6, <1>8, <2>1, <4>1
      <3> QED
        BY <3>1, <3>2
    <2>3. Passed'
      BY <1>8, <2>2 DEF Passed, Ripe
    <2>4. Saved'
      BY <1>8, <2>2 DEF OInv, Saved, Ripe
    <2> QED
      BY <1>3, <1>4, <2>3, <2>4 DEF OInv
  <1> QED
    BY <1>3, <1>4, <1>7, <1>8 DEF OInv

LEMMA FinishOrder ==
    ASSUME OInv, WInv', UpdateWatcherFields \/ RecordFailure \/ RecordFails
    PROVE  OInv'
  <1>1. current # Idle /\ Ripe(current.id)
    BY InProgress DEF OInv, WInv, CurrentIsNext, Stored, Ripe,
                      UpdateWatcherFields, RecordFailure, RecordFails
  <1>2. CASE RecordFails /\ current.event = 0
    BY <1>2, ResetOrder DEF RecordFails, Down, store
  <1>3. CASE \/ UpdateWatcherFields \/ RecordFailure
             \/ RecordFails /\ current.event # 0
    <2>1. /\ current' = Idle
          /\ UNCHANGED <<oplog, done, phase, missed, position, batch, exhausted,
                         applied, failed, deferred>>
      BY <1>3 DEF UpdateWatcherFields, RecordFailure, RecordFails, Return, store,
                  process, history
    <2>2. \/ handled' = handled /\ token' = token
          \/ /\ current.event # 0 /\ handled' = current.event
             /\ token' \in {token, current.event}
      BY <1>3 DEF UpdateWatcherFields, RecordFailure, RecordFails, Return, SaveToken,
                  store
    <2>3. current.event # 0 =>
             /\ phase = "live" /\ current.event = handled + 1
             /\ handled < delivered /\ current.id = oplog[handled + 1]
      BY <1>1 DEF OInv, WInv, CurrentIsNext
    <2> QED
      BY <1>1, <2>1, <2>2, <2>3, ReturnOrder
  <1> QED
    BY <1>2, <1>3

LEMMA OInvInit == Init => OInv
  <1> SUFFICES ASSUME Init PROVE OInv
    OBVIOUS
  <1>1. WInv
    BY WInvInit
  <1>2. batch = {} /\ current = Idle /\ phase = "down" /\ token = NoToken
    BY DEF Init
  <1>3. Inserted = {}
    BY DEF Init, Inserted, ToSet
  <1>4. Stored
    BY <1>3, ConstantFacts DEF Init, Stored
  <1> QED
    BY <1>1, <1>2, <1>3, <1>4 DEF OInv, InOrder, Passed, Saved

LEMMA OInvNext == OInv /\ [Next]_vars => OInv'
  <1> SUFFICES ASSUME OInv, [Next]_vars PROVE OInv'
    OBVIOUS
  <1>0. WInv /\ WInv'
    BY WInvNext DEF OInv
  <1>1. CASE UNCHANGED vars \/ Deliver \/ StreamError \/ Stop \/ DrainComplete
    <2>1. /\ phase' # "down" => phase # "down"
          /\ UNCHANGED <<oplog, done, token, missed, handled, position, batch,
                         exhausted, current, applied, failed, deferred>>
      BY <1>1 DEF vars, Deliver, StreamError, Stop, DrainComplete, store, process,
                  events, history
    <2> QED
      BY <1>0, <2>1, QuietOrder
  <1>2. CASE Start \/ Stopped \/ Crash
    <2>1. /\ failed' \subseteq failed /\ missed' = {} /\ handled' = 0
          /\ position' = 0 /\ batch' = {} /\ current' = Idle
          /\ UNCHANGED <<oplog, done, token, applied, deferred>>
      BY <1>0, <1>2 DEF WInv, Phases, Start, Stopped, Crash, Down, store, history
    <2> QED
      BY <1>0, <2>1, ResetOrder
  <1>3. CASE \E i \in Ids : Insert(i)
    BY <1>0, <1>3, InsertOrder
  <1>4. CASE \/ OpenStream \/ FetchBatch \/ DrainOne
             \/ HandleEvent \/ SkipEvent \/ LookupFails
    BY <1>0, <1>4, OpenStreamOrder, FetchBatchOrder, DrainOneOrder,
       HandleEventOrder, SkipEventOrder, LookupFailsOrder
  <1>5. CASE ProcessInstruction
    BY <1>0, <1>5, WorkOrder, FinishOrder DEF ProcessInstruction
  <1> QED
    BY <1>1, <1>2, <1>3, <1>4, <1>5 DEF Next, Work

LEMMA OInvariant == Spec => []OInv
  BY OInvInit, OInvNext, PTL DEF Spec

-----------------------------------------------------------------------------
(* Types and order. *)

(* The pipeline is never ahead of the stream, nor the stream of the oplog,   *)
(* and all that the watcher holds has been inserted (the fields of           *)
(* vault-instruction-watcher.ts and what a restart leaves of them).          *)
THEOREM TypesHold == Spec => []TypeOK
  <1> DEFINE Calls == stopping \in BOOLEAN
  <1>1. Init => Calls
    BY DEF Init
  <1>2. Calls /\ [Next]_vars => Calls'
    <2> SUFFICES ASSUME Calls, [Next]_vars PROVE Calls'
      OBVIOUS
    <2>1. stopping' = stopping \/ stopping' = TRUE \/ stopping' = FALSE
      BY DEF Next, Work, ProcessInstruction, vars, process, Insert, OpenStream,
             Deliver, StreamError, Stop, Crash, Start, Stopped, Down, FetchBatch,
             DrainOne, DrainComplete, SkipEvent, LookupFails, HandleEvent, Apply, ApplyFails,
             MarkProcessed, MarkFails, UpdateWatcherFields, RecordFailure,
             RecordFails, Return
    <2> QED
      BY <2>1
  <1>3. OInv /\ Calls => TypeOK
    <2> SUFFICES ASSUME OInv, Calls PROVE TypeOK
      OBVIOUS
    <2>1. Types /\ Stored /\ Calls
      BY DEF OInv, WInv
    <2>2. IsInjective(oplog)
      <3>1. DOMAIN oplog = 1 .. Len(oplog)
        BY <2>1 DEF Types
      <3> QED
        BY <2>1, <3>1 DEF Types, IsInjective
    <2>3. token \in {NoToken} \cup 0 .. Len(oplog)
      BY <2>1 DEF Types
    <2>4. position \in 0 .. N
      BY <2>1, ConstantFacts DEF Types, Stored
    <2>5. /\ done \subseteq Inserted /\ missed \cup deferred \subseteq Inserted
          /\ batch \subseteq Inserted /\ failed \subseteq Inserted
      BY <2>1 DEF Stored
    <2>6. applied \in Seq(Inserted)
      BY <2>1 DEF Stored
    <2>7. exhausted \in BOOLEAN
      BY <2>1 DEF Types
    <2> QED
      BY <2>1, <2>2, <2>3, <2>4, <2>5, <2>6, <2>7 DEF TypeOK, Types
  <1> QED
    BY <1>1, <1>2, <1>3, OInvariant, PTL DEF Spec

(* No instruction is applied before one that was both issued and inserted    *)
(* before it, through drains, streams, stops and crashes, unless the earlier *)
(* one has been left for later: it failed, its look-up rejected, the first   *)
(* stream began after it, or the drain's cursor passed it by ("instructions  *)
(* must be processed in arrival order to preserve causal ordering").         *)
THEOREM OrderHolds == Spec => CausalOrder
  <1>1. ASSUME OInv, [Next]_vars, applied' # applied,
               NEW j \in ToSet(applied), Last(applied') < j,
               PositionOf(Last(applied')) < PositionOf(j)
        PROVE  Last(applied') \in deferred'
    <2> DEFINE i == current.id
    <2>1. /\ current # Idle /\ i \notin done /\ applied' = Append(applied, i)
          /\ deferred \subseteq deferred'
      <3>1. /\ current # Idle /\ i \notin done /\ applied' = Append(applied, i)
        BY <1>1, AppliedUnmarked DEF OInv
      <3>2. Apply \/ ApplyFails
        BY <1>1 DEF Next, Work, ProcessInstruction, vars, history, Insert, OpenStream,
             Deliver, StreamError, Stop, Crash, Start, Stopped, FetchBatch,
             DrainOne, DrainComplete, SkipEvent, LookupFails, HandleEvent,
             MarkProcessed, MarkFails, UpdateWatcherFields, RecordFailure,
             RecordFails
      <3>3. deferred \subseteq deferred'
        BY <3>2 DEF Apply, ApplyFails
      <3> QED
        BY <3>1, <3>3
    <2>2. /\ i \in Inserted /\ applied \in Seq(Inserted)
      BY <1>1, <2>1 DEF OInv, Stored
    <2>3. Last(applied') = i /\ j \in Inserted
      BY <2>1, <2>2, AppendedSet
    <2>4. \A n \in Inserted : PositionOf(n) \in 1 .. Len(oplog) /\ oplog[PositionOf(n)] = n
      <3> TAKE n \in Inserted
      <3>1. \E k \in DOMAIN oplog : oplog[k] = n
        BY DEF Inserted, ToSet
      <3>2. DOMAIN oplog = 1 .. Len(oplog)
        BY <1>1 DEF OInv, WInv, Types
      <3> QED
        BY <3>1, <3>2 DEF PositionOf
    <2>5. Before(i, j)
      BY <1>1, <2>2, <2>3, <2>4 DEF Before
    <2>6. Ripe(i)
      BY <1>1, <2>2, <2>3, <2>5 DEF OInv, InOrder
    <2> QED
      BY <2>1, <2>3, <2>6 DEF Ripe
  <1>2. OInv /\ [Next]_vars =>
          [applied' # applied =>
             LET i == Last(applied')
             IN  \A j \in ToSet(applied) :
                    (i < j /\ PositionOf(i) < PositionOf(j)) => i \in deferred']_vars
    BY <1>1
  <1> QED
    BY <1>2, OInvariant, PTL DEF Spec, CausalOrder

==============================================================================
