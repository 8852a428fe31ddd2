----------------------- MODULE MCVaultNamespaceBuilder -----------------------
(* Small instances of VaultNamespaceBuilder for TLC. *)
EXTENDS VaultNamespaceBuilder, TLC

CONSTANTS pub, own, r1, r2, gone

MCNamespaces == {pub, own}
MCRevisions == {r1, r2, gone}
MCLost == {gone}
MCPaths == {<<"a">>, <<"a", "b">>, <<"c", "b">>, <<"trash", "x">>}
MCExcluded == {<<"trash", "x">>}

upsert(ns, path, rev) == [op |-> "upsert", ns |-> ns, path |-> path, rev |-> rev]
remove(ns, path) == [op |-> "remove", ns |-> ns, path |-> path]

(* Two pages of one directory, one private and one public; the directory is  *)
(* renamed, opened to the public, bulk-written with a lost revision.         *)
MCEveryOp == {
    upsert(own, <<"a", "b">>, r1),
    upsert(own, <<"a">>, gone),
    remove(own, <<"trash", "x">>),
    [op |-> "bulk-upsert", ns |-> pub,
     entries |-> <<"a">> :> gone @@ <<"a", "b">> :> r2 @@ <<"trash", "x">> :> r1],
    [op |-> "rename-prefix", ns |-> own, oldPrefix |-> <<"a">>, newPrefix |-> <<"c">>],
    [op |-> "grant-change-prefix", ns |-> pub, fromNs |-> own, oldPrefix |-> <<"a">>],
    [op |-> "reset-all"]}

(* Three pages of one namespace. *)
MCUpserts == {upsert(pub, <<"a">>, r1), upsert(pub, <<"a", "b">>, r2),
              upsert(pub, <<"c", "b">>, r1)}
==============================================================================
