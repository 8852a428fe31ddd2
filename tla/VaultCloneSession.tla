-------------------------- MODULE VaultCloneSession --------------------------
(***************************************************************************)
(* A clone or fetch of a user as the gateway (vault-gateway.ts) and the    *)
(* git endpoints of the manager (git-proxy-controller.ts) serve it.  It is *)
(* two HTTP requests that share no state: the first is answered with the   *)
(* tip of the view ref, the second asks for the commit the client was      *)
(* told.  Each composes the view of the user anew before it is passed on   *)
(* to git, so the view ref may have moved in between, by this client's own *)
(* second request or by those of the user's other clients.                 *)
(*                                                                         *)
(* A commit of a view is named by the request that made it: a request      *)
(* makes at most one.                                                      *)
(***************************************************************************)
EXTENDS VaultViewComposer

ASSUME SessionAssumption == NoView \notin Requests \cup View \cup Cached

VARIABLES
    want,    \* the info/refs request whose answer a git-upload-pack follows up
    parent,  \* the parent a request has for the commit it may make
    reach,   \* the commits that the commit of a request reaches
    tip,     \* the commit an info/refs request was told
    answer,  \* what git answered
    firm     \* history: info/refs answered while ref and document agreed

session == <<want, parent, reach, tip, answer, firm>>
allVars == <<vars, session>>

SessionInit ==
    /\ Init
    /\ want = [q \in Requests |-> NoView]
    /\ parent = want /\ tip = want
    /\ reach = [q \in Requests |-> {}]
    /\ answer = [q \in Requests |-> "none"]
    /\ firm = {}

Told(q) == answer[q] = "told"

-----------------------------------------------------------------------------
(* compose on behalf of a session. *)

(* A client asks for refs, or for the pack of a tip it was told. *)
Ask(q) ==
    /\ \E S \in Accessible : GetVersions(q, S)
    /\ \E o \in {NoView} \cup {r \in Requests : Told(r)} :
          want' = [want EXCEPT ![q] = o]
    /\ UNCHANGED <<parent, reach, tip, answer, firm>>

(* existing?.viewCommitOid, whatever the view ref names, and kept when the   *)
(* delta merge falls back to a full one.                                     *)
FindParent(q) ==
    /\ FindView(q)
    /\ parent' = [parent EXCEPT ![q] = IF cache = NoView THEN NoView
                                       ELSE cache.commit.by]
    /\ UNCHANGED <<want, reach, tip, answer, firm>>

Merge(q) ==
    /\ \/ \E ns \in Namespaces : ReadRef(q, ns)
       \/ FallBack(q)
    /\ UNCHANGED session

(* writeCommit and updateRef. *)
WriteCommit(q) ==
    /\ UpdateViewRef(q)
    /\ reach' = [reach EXCEPT ![q] =
                   {q} \cup (IF parent[q] = NoView THEN {} ELSE reach[parent[q]])]
    /\ UNCHANGED <<want, parent, tip, answer, firm>>

Finish(q) ==
    /\ UpsertView(q) \/ ComposeFails(q)
    /\ UNCHANGED session

-----------------------------------------------------------------------------
(* The request is passed on to git. *)

(* No document is on its way that names another commit than the tip. *)
Agree ==
    /\ cache # NoView /\ viewRef = cache.commit
    /\ \A r \in Requests : request[r].at \notin {"merge", "cache"}

(* git upload-pack --advertise-refs. *)
AdvertiseRefs(q) ==
    /\ Done(q) /\ answer[q] = "none" /\ want[q] = NoView
    /\ tip' = [tip EXCEPT ![q] = viewRef.by]
    /\ answer' = [answer EXCEPT ![q] = "told"]
    /\ firm' = IF Agree THEN firm \cup {q} ELSE firm
    /\ UNCHANGED <<vars, want, parent, reach>>

(* Mistake, in no specification: only the tip itself may be asked for. *)
IsTip(commit) == commit = viewRef.by

(* merge-base --is-ancestor: the wanted commit is the tip or behind it. *)
Reachable(commit) == commit \in reach[viewRef.by]

(* The want guard, before upload-pack runs. *)
UploadPack(q) ==
    /\ Done(q) /\ answer[q] = "none" /\ want[q] # NoView
    /\ answer' = [answer EXCEPT ![q] =
                    IF Reachable(tip[want[q]]) THEN "served" ELSE "refused"]
    /\ UNCHANGED <<vars, want, parent, reach, tip, firm>>

-----------------------------------------------------------------------------

(* A reset that drops the document takes every told commit with it. *)
BuildBeside ==
    /\ Build \/ Maintain
    /\ firm' = IF cache' = NoView THEN {} ELSE firm
    /\ UNCHANGED <<want, parent, reach, tip, answer>>

SessionNext ==
    \/ BuildBeside
    \/ \E q \in Requests :
          \/ Ask(q) \/ FindParent(q) \/ Merge(q) \/ WriteCommit(q) \/ Finish(q)
          \/ AdvertiseRefs(q) \/ UploadPack(q)
    \/ Crash /\ UNCHANGED session

SessionSpec == SessionInit /\ [][SessionNext]_allVars

-----------------------------------------------------------------------------
(* Properties. *)

(* A client is never refused the commit it was told, however the view ref    *)
(* has moved since, by composes that overlap, fail between their writes or   *)
(* die: "a view that moved between advertisement and fetch still serves".    *)
(* Two things take the commit away nevertheless, for the parent of a view's  *)
(* commit is the one in the document and not the tip: a reset that drops the *)
(* document, and an answer given while the tip and the document were apart   *)
(* or another compose was between reading the document and writing it.       *)
ToldIsServed == \A q \in Requests : answer[q] = "refused" => want[q] \notin firm

(* What a client is told, and so what it clones, shows every namespace with  *)
(* the tree that was recorded when its request began or with a later one,    *)
(* unless a reset or an overtaking squash undid it: although git reads the   *)
(* tip after the compose has returned, and other composes move it.  Composes *)
(* that overlap with the client's own may write an older view over it, and   *)
(* one that has left tip and document apart leaves an older tip behind.      *)
ToldIsFresh ==
    [][\A q \in Requests : (Told(q)' /\ ~Told(q) /\ request[q].alone /\ Agree) =>
          LET v == request[q].versions
              content == viewRef.content
          IN  \A ns \in DOMAIN v \cap DOMAIN content :
                  content[ns] >= v[ns].tree \/ v[ns].tree <= undone[ns]]_allVars
==============================================================================
