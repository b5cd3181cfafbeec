----------------------------- MODULE Installation -----------------------------
(***************************************************************************)
(* What an installation of a managed application promises, without         *)
(* requests, hints, receipts, containers, policies or authority.  The      *)
(* coordinator's book and the helper's note of what is installed move      *)
(* together: the helper installs what an open operation is for, and from   *)
(* then on the book can only accept it.  A decided operation stays decided, *)
(* but for a blocked one that its recovery resolves; a power loss forgets  *)
(* the last entry of the book and nothing of the note.  What serves is     *)
(* what was accepted last, and nothing while a switch is undecided.        *)
(* Deployment implements this specification.                               *)
(***************************************************************************)
EXTENDS Naturals, Sequences

VARIABLES
    book,        \* operations, numbered as they were approved, and what was accepted
    before,      \* the book without its last entry, if that may still be lost
    installed,   \* what the helper installed last
    serving      \* the operation whose installation serves requests, or 0

vars == <<book, before, installed, serving>>

\* An operation is for itself, a recovery for the operation it recovers.
Stages == {"queued", "switching", "succeeded", "failed", "blocked", "recovered"}
IsBook(a) ==
    /\ a.ops \in Seq([kind : {"rehearse", "deploy", "rollback", "recover", "retire"},
                      stage : Stages, target : Nat])
    /\ a.hist \in Seq([op : Nat, retired : BOOLEAN])

InStage(a, stages) == {o \in DOMAIN a.ops : a.ops[o].stage \in stages}
Open(a) == InStage(a, {"queued", "switching"})
Nothing == [op |-> 0, retired |-> TRUE]
Latest(a) == IF a.hist = <<>> THEN Nothing ELSE a.hist[Len(a.hist)]
Undecided(a) == {o \in InStage(a, {"switching", "blocked"}) : a.ops[o].kind # "rehearse"}

\* What may serve: the latest installation that is not retired, between switches.
MayServe(a) ==
    {0} \cup IF Undecided(a) = {} /\ ~Latest(a).retired THEN {Latest(a).op} ELSE {}
-----------------------------------------------------------------------------
(* Entries of the book, from a to b.                                       *)

\* One operation is open at a time, and beside a blocked one only its recovery.
Approve(a, b) ==
    /\ Open(a) = {}
    /\ \E kind \in {"rehearse", "deploy", "rollback", "recover", "retire"} :
        \E target \in IF kind = "recover" THEN InStage(a, {"blocked"})
                      ELSE IF InStage(a, {"blocked"}) = {} THEN {Len(a.ops) + 1} ELSE {} :
            b = [ops |-> Append(a.ops, [kind |-> kind, stage |-> "queued", target |-> target]),
                 hist |-> a.hist]

Restage(a, o, stage, targetStage) ==
    [p \in DOMAIN a.ops |->
        IF p = o THEN [a.ops[p] EXCEPT !.stage = stage]
        ELSE IF p = a.ops[o].target THEN [a.ops[p] EXCEPT !.stage = targetStage]
        ELSE a.ops[p]]

Switch(a, b) ==
    \E o \in InStage(a, {"queued"}) :
        b = [ops |-> [a.ops EXCEPT ![o].stage = "switching"], hist |-> a.hist]

\* The book accepts what is installed, for the operation that is switching.
Accept(a, b) ==
    \E o \in InStage(a, {"switching"}) :
        /\ a.ops[o].kind # "rehearse"
        /\ installed = [op |-> a.ops[o].target, retired |-> a.ops[o].kind = "retire"]
        /\ b = [ops |-> Restage(a, o, "succeeded", "succeeded"),
                hist |-> Append(a.hist, installed)]

\* An operation ends without a new installation, and only if there is none.
\* A recovery that succeeds so has the old installation back, or nothing.
Conclude(a, b) ==
    \E o \in Open(a), stage \in {"succeeded", "failed", "blocked", "recovered"} :
        LET kind == a.ops[o].kind
            back == kind = "recover" /\ stage = "succeeded"
            target == a.ops[o].target
        IN  /\ installed = Latest(a)
            /\ kind \in {"rehearse", "recover"} => stage \in {"succeeded", "failed"}
            /\ kind \notin {"rehearse", "recover"} => stage # "succeeded"
            /\ back => a.ops[o].stage = "switching"
            /\ kind = "recover" => target \in InStage(a, {"blocked"})
            /\ b = [ops |-> Restage(a, o, stage,
                                IF ~back THEN "blocked"
                                ELSE IF Latest(a).retired THEN "failed" ELSE "recovered"),
                    hist |-> a.hist]
-----------------------------------------------------------------------------
\* The administrator's entries are kept.  A reconciler's may be lost.
Enter ==
    /\ UNCHANGED installed
    /\ \/ Approve(book, book') /\ before' = book'
       \/ Switch(book, book') \/ Accept(book, book') \/ Conclude(book, book')
    /\ before' \in {book, book'}
Keep == UNCHANGED <<book, installed>> /\ before' = book
Lose == UNCHANGED installed /\ book' \in {book, before} /\ before' = book'

\* The helper installs for the open operation.  The book says switching when
\* it begins; a power loss may have put it back to queued.
Install ==
    /\ UNCHANGED <<book, before>>
    /\ installed = Latest(book)
    /\ \E o \in Open(book) :
        /\ book.ops[o].kind # "rehearse"
        /\ installed' = [op |-> book.ops[o].target, retired |-> book.ops[o].kind = "retire"]

\* Only what serves changes.
Serve == UNCHANGED <<book, before, installed>>

Init ==
    /\ IsBook(book) /\ Open(book) = {}
    /\ \A i \in DOMAIN book.hist : book.hist[i].op \in InStage(book, {"succeeded"})
    /\ before = book /\ installed = Latest(book)
    /\ serving \in MayServe(book)

Next ==
    /\ Serve \/ Keep \/ Install \/ Lose \/ Enter
    /\ serving' \in MayServe(book')

Spec == Init /\ [][Next]_vars
=============================================================================
