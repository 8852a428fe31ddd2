------------------------------ MODULE MCPageTree ------------------------------
(* A small instance of PageTree for TLC. *)
EXTENDS PageTree

A == <<"a">>
B == <<"b">>
C == <<"c">>
AB == <<"a", "b">>
AC == <<"a", "c">>
CA == <<"c", "a">>
CB == <<"c", "b">>

(* A well-formed tree of the pages at some paths, below which no other is,   *)
(* in the order they were inserted; and those of them that are empty.        *)
tree(paths, empties) ==
    LET all == <<<<>>>> \o paths
        below(p) == {q \in ToSet(paths) \ empties : IsStrictPrefix(p, q)}
    IN  [i \in 0 .. Len(paths) |->
            [kind |-> IF all[i + 1] \in empties THEN "empty" ELSE "page",
             path |-> all[i + 1],
             parent |-> IF i = 0 THEN NoId
                        ELSE (CHOOSE j \in DOMAIN all : all[j] = Front(all[i + 1])) - 1,
             count |-> Cardinality(below(all[i + 1]))]]

(* Two pages of which one is below the other, and a redirect; an empty page  *)
(* with a page below it; two pages side by side.                             *)
twoPages == [pages |-> tree(<<A, AB>>, {}), redirects |-> C :> A]
hollow == [pages |-> tree(<<A, AB>>, {A}), redirects |-> [p \in {} |-> A]]
siblings == [pages |-> tree(<<A, B>>, {}), redirects |-> [p \in {} |-> A]]

away == <<C, TRUE>>
deeper == <<AC, FALSE>>
beside == <<CB, FALSE>>

asks(renames, creates, deletes, erasures) ==
    [renames |-> renames, creates |-> creates, deletes |-> deletes, erasures |-> erasures]
everything == asks({away, deeper}, {A, CB}, BOOLEAN, BOOLEAN)

world(start, asked_, requests, resumes, crashes, failures) ==
    start @@ [asked |-> asked_,
              budget |-> [request |-> requests, resume |-> resumes,
                          crash |-> crashes, failure |-> failures]]

(* Two requests side by side or after each other, also at paths that lack    *)
(* the same parent; a rename beside a creation with a crash; a rename and a  *)
(* complete deletion after a batch that fails; and one request with what can *)
(* go wrong.                                                                 *)
MCWorlds == {
    world(twoPages, asks({away}, {CB}, BOOLEAN, BOOLEAN), 2, 0, 0, 0),
    world(hollow, asks({away}, {A, CB}, {TRUE}, {TRUE}), 2, 0, 0, 0),
    world(siblings, asks({deeper, beside}, {CA}, {}, {}), 2, 0, 0, 0),
    world(hollow, asks({away}, {CB}, {}, {}), 2, 0, 1, 0),
    world(twoPages, asks({away}, {}, {}, {TRUE}), 2, 0, 0, 1),
    world(twoPages, everything, 1, 1, 1, 1),
    world(hollow, everything, 1, 2, 1, 0)}
==============================================================================
