--------------------------- MODULE VaultInstruction ---------------------------
(***************************************************************************)
(* The instructions of the outbox collection vault_instructions and what   *)
(* each one does to the tree of a namespace                                *)
(* (vault-namespace-builder.ts, applyInstruction and its six handlers).    *)
(*                                                                         *)
(* An absent prefix in a payload is the empty sequence.                    *)
(***************************************************************************)
EXTENDS VaultTree

CONSTANTS
    Namespaces,    \* public, restricted-link, group-<gid>, user-<uid>-only-me
    Instructions   \* the instruction documents the gateway has written

Prefix == Seq(UNION {{p[k] : k \in 1 .. Len(p)} : p \in Paths})

InstructionType ==
         [op : {"upsert"}, ns : Namespaces, path : Paths, rev : Revisions]
    \cup [op : {"remove"}, ns : Namespaces, path : Paths]
    \cup [op : {"bulk-upsert"}, ns : Namespaces,
          entries : UNION {[S -> Revisions] : S \in SUBSET Paths}]
    \cup [op : {"rename-prefix"}, ns : Namespaces,
          oldPrefix : Prefix, newPrefix : Prefix]
    \cup [op : {"grant-change-prefix"}, ns : Namespaces,
          fromNs : Namespaces, oldPrefix : Prefix]
    \cup [op : {"reset-all"}]

(* A grant change moves pages between two different namespaces. *)
ASSUME InstructionAssumption ==
    /\ Instructions \subseteq InstructionType
    /\ \A i \in Instructions :
          i.op = "grant-change-prefix" => i.ns # i.fromNs

(* The handler throws before it has changed anything. *)
Rejected(i) ==
    \/ i.op = "upsert" /\ i.rev \in Lost
    \/ i.op = "bulk-upsert" /\ DOMAIN i.entries = {}
    \/ i.op = "rename-prefix" /\ <<>> \in {i.oldPrefix, i.newPrefix}
    \/ i.op = "grant-change-prefix" /\ i.oldPrefix = <<>>

(* The handler returns without a commit: every page it names is excluded. *)
Skipped(i) ==
    \/ i.op = "remove" /\ i.path \in Excluded
    \/ i.op = "bulk-upsert" /\ DOMAIN i.entries \subseteq Excluded

(* The namespaces whose tree the instruction changes. *)
Touches(i) ==
    CASE Skipped(i) -> {}
      [] i.op = "reset-all" -> Namespaces
      [] i.op = "grant-change-prefix" -> {i.fromNs, i.ns}
      [] OTHER -> {i.ns}

(* The tree of namespace ns after instruction i, from its tree t before it.  *)
(* For the destination of a grant change, src is the tree of the source      *)
(* namespace as it was when the instruction began.                           *)
Effect(i, ns, t, src) ==
    CASE i.op = "upsert" -> UpsertEntry(t, i.path, i.rev)
      [] i.op = "remove" -> RemoveEntry(t, i.path)
      [] i.op = "bulk-upsert" -> ApplyPatches(t, BulkPatches(i.entries))
      [] i.op = "rename-prefix" -> RenamePrefix(t, i.oldPrefix, i.newPrefix)
      [] i.op = "grant-change-prefix" ->
            IF ns = i.fromNs THEN RemoveSubtree(t, i.oldPrefix)
                             ELSE GrantMount(t, i.oldPrefix, src)
      [] i.op = "reset-all" -> EmptyTree
===============================================================================
