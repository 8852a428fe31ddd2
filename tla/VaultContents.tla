---------------------------- MODULE VaultContents ----------------------------
(***************************************************************************)
(* What the vault promises about the contents of its namespaces: every     *)
(* namespace moves from one whole tree to the next, one instruction at a   *)
(* time; what is recorded for the view composer is a tree that was         *)
(* visible; an instruction is acknowledged only when its whole effect is   *)
(* visible and recorded.  An instruction may be abandoned half way (the    *)
(* process dies, an await throws) and begun again: delivery is             *)
(* at-least-once.  Of a namespace that maintenance has overtaken nothing   *)
(* is promised as long as that lasts.                                      *)
(***************************************************************************)
EXTENDS VaultInstruction

CONSTANT None

VARIABLES
    contents,    \* namespace -> the tree its ref shows
    published,   \* namespace -> the tree recorded for the composer, or None
    active,      \* the instruction being applied, or None
    pending,     \* the namespaces it has still to change
    carried,     \* the source tree a grant change takes its pages from
    processed,   \* the acknowledged instructions
    overtaken    \* given: the namespaces that maintenance may have set back

avars == <<contents, published, active, pending, carried, processed>>

Init ==
    /\ contents = [ns \in Namespaces |-> EmptyTree]
    /\ published = [ns \in Namespaces |-> None]
    /\ active = None
    /\ pending = {}
    /\ carried = EmptyTree
    /\ processed = {}

Begin(i) ==
    /\ active = None
    /\ i \notin processed
    /\ ~Rejected(i)
    /\ active' = i
    /\ pending' = IF i.op = "reset-all"
                  THEN {ns \in Namespaces : published[ns] # None}
                  ELSE Touches(i)
    /\ carried' = IF i.op = "grant-change-prefix"
                  THEN contents[i.fromNs] ELSE EmptyTree
    /\ UNCHANGED <<contents, published, processed>>

Apply(ns) ==
    /\ ns \in pending
    /\ contents' = [contents EXCEPT ![ns] = Effect(active, ns, @, carried)]
    /\ pending' = pending \ {ns}
    /\ UNCHANGED <<published, active, carried, processed>>

Publish(ns) ==
    /\ active # None
    /\ active.op # "reset-all"
    /\ ns \in Touches(active) \ pending
    /\ published' = [published EXCEPT ![ns] = contents[ns]]
    /\ UNCHANGED <<contents, active, pending, carried, processed>>

Forget ==
    /\ active # None
    /\ active.op = "reset-all"
    /\ pending = {}
    /\ published' = [ns \in Namespaces |-> None]
    /\ UNCHANGED <<contents, active, pending, carried, processed>>

Recorded(i) ==
    IF i.op = "reset-all"
    THEN \A ns \in Namespaces : published[ns] = None
    ELSE \A ns \in Touches(i) : published[ns] = contents[ns]

Acknowledge ==
    /\ active # None
    /\ pending = {}
    /\ Recorded(active)
    /\ processed' = processed \cup {active}
    /\ active' = None
    /\ carried' = EmptyTree
    /\ UNCHANGED <<contents, published, pending>>

Abandon ==
    /\ active # None
    /\ active' = None
    /\ pending' = {}
    /\ carried' = EmptyTree
    /\ UNCHANGED <<contents, published, processed>>

(* A write of maintenance, or one of the instruction that builds on it. *)
Overwrite(ns) ==
    /\ ns \in overtaken
    /\ contents' = [contents EXCEPT ![ns] = contents'[ns]]
    /\ published' = [published EXCEPT ![ns] = published'[ns]]
    /\ pending' \in {pending, pending \ {ns}}
    /\ UNCHANGED <<active, carried, processed>>

AcknowledgeOvertaken ==
    /\ active # None
    /\ pending = {}
    /\ Touches(active) \cap overtaken # {}
    /\ processed' = processed \cup {active}
    /\ active' = None
    /\ carried' = EmptyTree
    /\ UNCHANGED <<contents, published, pending>>

Next ==
    \/ \E i \in Instructions : Begin(i)
    \/ \E ns \in Namespaces : Apply(ns) \/ Publish(ns) \/ Overwrite(ns)
    \/ Forget \/ Acknowledge \/ AcknowledgeOvertaken \/ Abandon

Spec == Init /\ [][Next]_avars
==============================================================================
