------------------------------ MODULE AccessMC ------------------------------
(* Instances of Access for TLC.                                            *)
EXTENDS Access, TLC

\* Routes "a" and "a/b" overlap, "c" is apart.
Nested == {<<"a", "a/b">>, <<"a/b", "a">>}

\* Requests explored together: sessions and passwords; links; registrations
\* and credentials; calls of applications against each kind of revocation.
Mix(kinds, ready, open, issues) ==
    [requests |-> kinds, ready |-> ready, sessions |-> open, issues |-> issues]
Requests ==
    {Mix({"login", "logout", "password", "reset", "disable"}, {}, 2, 0),
     Mix({"link", "unlink", "disable"}, {}, 0, 0),
     Mix({"register", "issue"}, {}, 0, 3),
     Mix({"admit", "call", "link", "unlink", "disable"}, {"notes"}, 0, 0),
     Mix({"admit", "call", "retire", "issue"}, Apps, 0, 3),
     Mix({"admit", "call", "login", "logout"}, {"control"}, 1, 0)}

Alike == Permutations(Handlers) \cup Permutations(Members) \cup Permutations(Subjects)
=============================================================================
