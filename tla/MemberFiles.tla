------------------------------ MODULE MemberFiles ------------------------------
(***************************************************************************)
(* A member's Workspace: the handlers of app/dashboard_files.py over the   *)
(* helpers of app/storage.py.  There is no lock and no database: the       *)
(* directory tree is the state, and each handler is a few calls of the     *)
(* file system with other handlers between them.  Uploads run on the event *)
(* loop and wait for their client's bytes; moves, copies and deletions run *)
(* on threads, next to them and to each other.                             *)
(*                                                                         *)
(* A handler's checks are one step, a call of the file system is one step, *)
(* and a recursive copy or removal is two: listing a directory and acting  *)
(* on the entries listed.  Size limits of copies, links, names that are    *)
(* not allowed and requests refused by their checks change nothing and are *)
(* left out.                                                               *)
(*                                                                         *)
(* An operator named ...Bug is the definition after it with a mistake in   *)
(* it; nothing here uses one.                                              *)
(***************************************************************************)
EXTENDS Naturals, SequencesExt

CONSTANTS
    Names,       \* names of files and directories
    Targets,     \* the paths that requests may name; <<>> is the Workspace
    FirstTree,   \* the tree at the start
    MaxRequests  \* bound on the requests made

Directory == [kind |-> "directory", by |-> 0]
Held(r) == [kind |-> "held", by |-> r]    \* the empty file that reserves a name
Stored(r) == [kind |-> "stored", by |-> r]  \* the whole file of upload r

\* A function from paths to entries, each of which lies in a directory.
IsTree(t, entries) ==
    /\ t \in [DOMAIN t -> entries]
    /\ DOMAIN t \subseteq Seq(Names) \ {<<>>}
    /\ \A p \in DOMAIN t : Front(p) # <<>> => Front(p) \in DOMAIN t /\ t[Front(p)] = Directory

ASSUME TreeAssumption ==
    /\ Targets \subseteq Seq(Names) \ {<<>>}
    /\ MaxRequests \in Nat
    /\ IsTree(FirstTree, {Directory, Stored(0)})

VARIABLES
    tree,      \* path -> entry
    parts,     \* the hidden part files: the upload, and where its file now is
    request,   \* the requests, in the order they came
    disturbed  \* history: uploads whose reservation or part others have touched

treeVars == <<tree, parts, request, disturbed>>

Done == [op |-> "done", src |-> <<>>, dst |-> <<>>, step |-> "done",
         listed |-> {}, hidden |-> {}]

InitTree ==
    /\ tree = FirstTree
    /\ parts = {}
    /\ request = <<>>
    /\ disturbed = {}

-------------------------------------------------------------------------------
(***************************************************************************)
(* Paths.                                                                  *)
(***************************************************************************)
Exists(p) == p \in DOMAIN tree
IsDir(p) == p = <<>> \/ (Exists(p) /\ tree[p] = Directory)
IsFile(p) == Exists(p) /\ ~IsDir(p)

Under(p) == {q \in DOMAIN tree : IsPrefix(p, q)}
PartsUnder(p) == {x \in parts : IsPrefix(p, x.dir)}
IsEmpty(p) == Under(p) = {p} /\ PartsUnder(p) = {}

Over(new, old) ==
    [p \in DOMAIN new \cup DOMAIN old |-> IF p \in DOMAIN new THEN new[p] ELSE old[p]]
With(p, entry) == Over([q \in {p} |-> entry], tree)
Minus(S) == Restrict(tree, DOMAIN tree \ S)

\* The path p below directory s, seen from directory d.
Rebased(p, s, d) == d \o SubSeq(p, Len(s) + 1, Len(p))

\* The entries S below s, and the parts P below s, as they come to lie below d.
Graft(S, s, d) ==
    [q \in {Rebased(p, s, d) : p \in S} |-> tree[Rebased(q, d, s)]]
GraftParts(P, s, d) == {[x EXCEPT !.dir = Rebased(@, s, d)] : x \in P}

\* What a move or a copy checks of its source and of its destination.
Transferable(s, d) ==
    /\ Exists(s)
    /\ IsDir(Front(d)) /\ ~Exists(d)
    /\ ~(IsDir(s) /\ IsPrefix(s, Front(d)))

-------------------------------------------------------------------------------
(***************************************************************************)
(* Requests.                                                               *)
(***************************************************************************)
Ask(op, s, d) ==
    /\ Len(request) < MaxRequests
    /\ request' = Append(request, [Done EXCEPT !.op = op, !.src = s, !.dst = d,
                                               !.step = "checked"])
    /\ UNCHANGED <<tree, parts, disturbed>>

At(r, op, step) == request[r].op = op /\ request[r].step = step

Answered(r) == request' = [request EXCEPT ![r] = Done]

\* Where the reservation and the part of upload q are.
Places(t, ps, q) ==
    <<{p \in DOMAIN t : t[p] = Held(q)}, {x \in ps : x.upload = q}>>

Disturbs(r) ==
    disturbed' = disturbed \cup
        {q \in DOMAIN request \ {r} : Places(tree', parts', q) # Places(tree, parts, q)}

Becoming(r, t, ps) == tree' = t /\ parts' = ps /\ Disturbs(r)

-------------------------------------------------------------------------------
(***************************************************************************)
(* Upload: reserve the name with an empty file, receive the bytes into a   *)
(* hidden part next to it, put the part in its place.                      *)
(***************************************************************************)
AskUpload(p) == IsDir(Front(p)) /\ ~Exists(p) /\ Ask("upload", <<>>, p)

PartOf(r) == [dir |-> Front(request[r].dst), upload |-> r]

ReserveBug(r) ==
    /\ At(r, "upload", "checked")
    /\ LET p == request[r].dst
       IN  IF IsDir(Front(p)) /\ ~IsDir(p)
           THEN /\ Becoming(r, With(p, Held(r)), parts \cup {PartOf(r)})
                /\ request' = [request EXCEPT ![r].step = "receiving"]
           ELSE Answered(r) /\ UNCHANGED <<tree, parts, disturbed>>

Reserve(r) ==
    /\ At(r, "upload", "checked")
    /\ LET p == request[r].dst
       IN  IF IsDir(Front(p)) /\ ~Exists(p)
           THEN /\ Becoming(r, With(p, Held(r)), parts \cup {PartOf(r)})
                /\ request' = [request EXCEPT ![r].step = "receiving"]
           ELSE Answered(r) /\ UNCHANGED <<tree, parts, disturbed>>

Promote(r) ==
    /\ At(r, "upload", "receiving")
    /\ PartOf(r) \in parts /\ ~IsDir(request[r].dst)
    /\ Becoming(r, With(request[r].dst, Stored(r)), parts \ {PartOf(r)})
    /\ Answered(r)

AbandonBug(r) ==
    /\ At(r, "upload", "receiving")
    /\ Becoming(r, tree, parts \ {PartOf(r)})
    /\ Answered(r)

\* The client is gone, or sent nothing or too much, or the part cannot be put
\* in its place.
Abandon(r) ==
    /\ At(r, "upload", "receiving")
    /\ Becoming(r, Minus({request[r].dst} \ {p \in DOMAIN tree : IsDir(p)}),
                parts \ {PartOf(r)})
    /\ Answered(r)

-------------------------------------------------------------------------------
MakeDirectory(p) ==
    /\ Len(request) < MaxRequests
    /\ IsDir(Front(p)) /\ ~Exists(p)
    /\ tree' = With(p, Directory)
    /\ request' = Append(request, Done)
    /\ UNCHANGED <<parts, disturbed>>

-------------------------------------------------------------------------------
(***************************************************************************)
(* Move: rename(2), which replaces a file, or an empty directory by a      *)
(* directory, without asking.                                              *)
(***************************************************************************)
AskMove(s, d) == Transferable(s, d) /\ Ask("move", s, d)

Renamable(s, d) ==
    /\ Exists(s) /\ IsDir(Front(d))
    /\ \/ IsFile(s) /\ ~IsDir(d)
       \/ IsDir(s) /\ ~IsPrefix(s, d) /\ (~Exists(d) \/ (IsDir(d) /\ IsEmpty(d)))

Rename(r) ==
    /\ At(r, "move", "checked")
    /\ LET s == request[r].src
           d == request[r].dst
       IN  IF Renamable(s, d)
           THEN Becoming(r, Over(Graft(Under(s), s, d), Minus(Under(s))),
                    (parts \ PartsUnder(s)) \cup GraftParts(PartsUnder(s), s, d))
           ELSE UNCHANGED <<tree, parts, disturbed>>
    /\ Answered(r)

-------------------------------------------------------------------------------
(***************************************************************************)
(* Copy.  One that fails removes its destination, whoever made it.         *)
(***************************************************************************)
AskCopy(s, d) == Transferable(s, d) /\ Ask("copy", s, d)

CleanUp(r) ==
    LET d == request[r].dst
    IN  Becoming(r, Minus(Under(d)), parts \ PartsUnder(d)) /\ Answered(r)

\* A file goes over a file, and into a directory.
CopyFile(r) ==
    LET s == request[r].src
        d == request[r].dst
        into == IF IsDir(d) THEN Append(d, Last(s)) ELSE d
    IN  /\ At(r, "copy", "checked") /\ ~IsDir(s)
        /\ IF IsFile(s) /\ IsDir(Front(into)) /\ ~IsDir(into)
           THEN Becoming(r, With(into, tree[s]), parts) /\ Answered(r)
           ELSE CleanUp(r)

ListForCopy(r) ==
    LET s == request[r].src
        d == request[r].dst
    IN  /\ At(r, "copy", "checked") /\ IsDir(s)
        /\ IF ~Exists(d) /\ \A p \in Prefixes(d) : ~IsFile(p)
           THEN /\ tree' = Over(tree, [p \in Prefixes(d) \ {<<>>} |-> Directory])
                /\ request' = [request EXCEPT ![r].step = "listed",
                                              ![r].listed = Under(s) \ {s},
                                              ![r].hidden = PartsUnder(s)]
                /\ UNCHANGED <<parts, disturbed>>
           ELSE CleanUp(r)

CopyTree(r) ==
    LET s == request[r].src
        d == request[r].dst
    IN  /\ At(r, "copy", "listed")
        /\ IF /\ request[r].listed \subseteq DOMAIN tree
              /\ request[r].hidden \subseteq parts
              /\ IsDir(d)
              /\ \A q \in request[r].listed :
                    IF IsDir(q) THEN ~Exists(Rebased(q, s, d)) ELSE ~IsDir(Rebased(q, s, d))
           THEN /\ Becoming(r, Over(Graft(request[r].listed, s, d), tree),
                            parts \cup GraftParts(request[r].hidden, s, d))
                /\ Answered(r)
           ELSE CleanUp(r)

-------------------------------------------------------------------------------
(***************************************************************************)
(* Deletion.  A tree that changes under the removal is removed in part.    *)
(***************************************************************************)
AskDelete(p) == Exists(p) /\ Ask("delete", <<>>, p)

ListForDelete(r) ==
    LET p == request[r].dst
    IN  /\ At(r, "delete", "checked")
        /\ IF IsDir(p)
           THEN /\ request' = [request EXCEPT ![r].step = "listed",
                                              ![r].listed = Under(p) \ {p},
                                              ![r].hidden = PartsUnder(p)]
                /\ UNCHANGED <<tree, parts, disturbed>>
           ELSE Becoming(r, Minus({p}), parts) /\ Answered(r)

RemoveTree(r) ==
    LET p == request[r].dst
        listed == request[r].listed
        hidden == request[r].hidden
        Cleared(q) == Under(q) \subseteq listed \cup {p} /\ PartsUnder(q) \subseteq hidden
    IN  /\ At(r, "delete", "listed")
        /\ IF listed \subseteq DOMAIN tree /\ hidden \subseteq parts
           THEN Becoming(r, Minus({q \in listed \cup {p} : IsFile(q) \/ Cleared(q)}),
                         parts \ hidden)
           ELSE \E gone \in SUBSET {q \in listed : IsFile(q)}, lost \in SUBSET hidden :
                    Becoming(r, Minus(gone), parts \ lost)
        /\ Answered(r)

-------------------------------------------------------------------------------
NextTree ==
    \/ \E p \in Targets : AskUpload(p) \/ MakeDirectory(p) \/ AskDelete(p)
    \/ \E s, d \in Targets : AskMove(s, d) \/ AskCopy(s, d)
    \/ \E r \in DOMAIN request :
        \/ Reserve(r) \/ Promote(r) \/ Abandon(r)
        \/ Rename(r)
        \/ CopyFile(r) \/ ListForCopy(r) \/ CopyTree(r)
        \/ ListForDelete(r) \/ RemoveTree(r)

SpecTree == InitTree /\ [][NextTree]_treeVars

-------------------------------------------------------------------------------
(***************************************************************************)
(* Correctness.                                                            *)
(***************************************************************************)

\* The tree is a tree: every entry lies in a directory, and so does every part.
TypeOKTree ==
    /\ IsTree(tree, {Directory} \cup {Held(r) : r \in DOMAIN request}
                               \cup {Stored(r) : r \in 0 .. Len(request)})
    /\ \A x \in parts : x.upload \in DOMAIN request /\ IsDir(x.dir)
    /\ disturbed \subseteq DOMAIN request

\* What an upload leaves half-way is its own affair: an empty file or a part
\* stands only for an upload in progress, at its place, unless somebody else's
\* move, copy or removal got hold of it.
ReservationsAreHeld ==
    /\ \A p \in DOMAIN tree : tree[p].kind = "held" =>
        \/ tree[p].by \in disturbed
        \/ At(tree[p].by, "upload", "receiving") /\ request[tree[p].by].dst = p
    /\ \A x \in parts :
        \/ x.upload \in disturbed
        \/ At(x.upload, "upload", "receiving") /\ x = PartOf(x.upload)

\* Uploads refuse to overwrite: a file that was stored is replaced or removed
\* by no upload, however uploads of the same name interleave, except by one
\* whose own reservation was taken away under it.
UploadsOverwriteNothing ==
    [][\A p \in DOMAIN tree : tree[p].kind = "stored" /\ ~(p \in DOMAIN tree' /\ tree'[p] = tree[p]) =>
        \E r \in DOMAIN request :
            /\ request'[r] = Done /\ request[r] # Done
            /\ request[r].op = "upload" => r \in disturbed]_treeVars

\* However requests interleave, the Workspace is a tree in which nothing but
\* uploads in progress is half-way.
WorkspaceIsSound == TypeOKTree /\ ReservationsAreHeld

===============================================================================
