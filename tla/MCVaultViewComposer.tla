------------------------ MODULE MCVaultViewComposer ------------------------
(* A small instance of VaultViewComposer and VaultCloneSession for TLC. *)
EXTENDS VaultCloneSession, FiniteSets, TLC

CONSTANTS pub, own

MCNamespaces == {pub, own}

(* The user may lose or gain access to a namespace between two requests. *)
MCAccessible == {{pub}, {pub, own}}

Begun == {q \in Requests : request[q] # New}

OnlyPub ==
    last[own] = 0 /\ \A q \in Begun :
        request[q].at = "failed" \/ DOMAIN request[q].versions = {pub}

(* No squash, and no namespace makes a second commit. *)
Slow == last[pub] <= 1 /\ squash[pub] = NoSquash

(* Bound: beside three requests one namespace moves slowly; beside two, both  *)
(* do, or the one is squashed and has three commits; a reset and a squash     *)
(* occur together only beside one.                                            *)
Bounded ==
    /\ last[own] <= 1 /\ squash[own] = NoSquash
    /\ Cardinality(Begun) = 2 =>
          \/ Slow /\ last[own] * resets = 0
          \/ OnlyPub /\ resets = 0
    /\ Cardinality(Begun) = 3 => Slow /\ OnlyPub

Clients == Permutations(Requests)
=============================================================================
