----------------------------- MODULE MCVaultRepair -----------------------------
(* A small instance of VaultRepair for TLC: an administrator and a user who   *)
(* may read one of two namespaces, and the mixtures of events that occur.     *)
EXTENDS VaultRepair

CONSTANTS u1, adm, g1, g2

MCSees == [u \in Users |-> IF u = adm THEN {} ELSE {g2}]

budgetOf(requests, saves, ticks, crashes, rejects, changes) ==
    [request |-> requests, save |-> saves, tick |-> ticks, crash |-> crashes,
     failure |-> rejects, bootstrap |-> changes]

(* Runs that compete and meet a save; runs that fail; a run beside a restart; *)
(* sweeps that overlap, fail or meet a save; both repairs at once.            *)
MCBudgets == {
    budgetOf(2, 1, 0, 0, 0, 0),
    budgetOf(2, 0, 0, 0, 1, 0),
    budgetOf(1, 1, 0, 1, 0, 0),
    budgetOf(1, 1, 0, 0, 1, 1),
    budgetOf(0, 3, 1, 0, 0, 0),
    budgetOf(0, 2, 2, 0, 0, 0),
    budgetOf(0, 2, 1, 0, 1, 1),
    budgetOf(1, 1, 1, 0, 0, 0)}
==============================================================================
