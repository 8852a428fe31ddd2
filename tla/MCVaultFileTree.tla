--------------------------- MODULE MCVaultFileTree ---------------------------
(* A small instance of VaultFileTree and VaultViewTree for TLC. *)
EXTENDS VaultViewTree

CONSTANTS pub, own, r1, r2, gone

MCRevisions == {r1, r2, gone}
MCLost == {gone}
MCNamespaces == {pub, own}
MCUnsafe == {":"}
MCReserved == {<<"CON">>}

(* A user's own pages win over public ones; two groups are equals. *)
MCRankings == {pub :> 0 @@ own :> 3, pub :> 2 @@ own :> 2}
MCLower == "A" :> "a" @@ "CON" :> "con"
MCDotted == {".md"}
MCWide == {"%:"}

A == <<"a">>
B == <<"A">>
Con == <<"CON">>

Escaped == <<"_", "CON">>
DotMd == <<"a", ".md">>
LongB == <<"a", ":", "b">>
LongC == <<"a", ":", "c">>

(* Three levels, a directory next to its page and next to one that differs   *)
(* in case, reserved names.                                                  *)
MCPlain == {<<A>>, <<B>>, <<A, Con>>, <<B, Con>>, <<A, B, A>>, <<Con, B, A>>}

(* A reserved name and the name it is given; pages below a segment that ends *)
(* in .md, which isCreatablePage forbids for the last segment only, with     *)
(* names that are too long and begin alike.                                  *)
MCEscapes == {<<Con>>, <<Escaped>>}
MCLong == {<<DotMd, LongB>>, <<DotMd, LongC>>}
MCPaths == MCPlain \cup MCEscapes \cup MCLong

upsert(ns, path, rev) == [op |-> "upsert", ns |-> ns, path |-> path, rev |-> rev]
remove(ns, path) == [op |-> "remove", ns |-> ns, path |-> path]
rename(ns, from, to) ==
    [op |-> "rename-prefix", ns |-> ns, oldPrefix |-> from, newPrefix |-> to]

MCInstructions ==
    {upsert(own, p, r1) : p \in MCPlain}
    \cup {remove(own, p) : p \in MCPlain \cup {<<Con>>}}
    \cup {rename(own, <<A>>, <<B>>), rename(own, <<B>>, <<A>>),
          rename(own, <<A>>, <<Con>>), rename(own, <<A, B>>, <<Con, B>>)}
    \cup {[op |-> "grant-change-prefix", ns |-> pub, fromNs |-> own, oldPrefix |-> d] :
            d \in {<<A>>, <<DotMd>>}}
    \cup {[op |-> "bulk-upsert", ns |-> own,
           entries |-> <<A>> :> gone @@ <<A, Con>> :> r2
                           @@ <<Con>> :> r1 @@ <<Escaped>> :> r2
                           @@ <<DotMd, LongB>> :> r1 @@ <<DotMd, LongC>> :> r2],
          [op |-> "reset-all"]}
==============================================================================
