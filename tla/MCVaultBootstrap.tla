--------------------------- MODULE MCVaultBootstrap ---------------------------
(* Small instances of VaultBootstrap for TLC. *)
EXTENDS VaultBootstrap, TLC

CONSTANTS pub, own

MCNamespaces == {pub, own}

MCNamespacesOf == [p \in PageIds |-> CASE p = 1 -> {own}
                                       [] p = 2 -> {pub, own}
                                       [] OTHER -> {pub}]

(* The processes differ in nothing but their name. *)
MCSymmetry == Permutations(Runners)
==============================================================================
