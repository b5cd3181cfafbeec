----------------------------- MODULE JobFilesMC -----------------------------
(* Instances of JobFiles for TLC.                                          *)
EXTENDS JobFiles, TLC

Alike == Permutations(Handlers) \cup Permutations(Owners) \cup Permutations(Keys)
             \cup Permutations(Inputs)

\* Requests explored together: members' jobs, applications' inputs, and
\* applications' runs, submitted, cancelled, and with their results.
Members == {[requests |-> {"stage", "submit", "report", "cancel"}, files |-> 2]}
Applications ==
    {[requests |-> {"input", "delete"}, files |-> 0],
     [requests |-> {"delete", "run"}, files |-> 6],
     [requests |-> {"run", "cancel"}, files |-> 4],
     [requests |-> {"run", "report", "results"}, files |-> 4]}
Everybody == Members \cup Applications
=============================================================================
