------------------------------ MODULE Directories ------------------------------
(***************************************************************************)
(* What the models say of directories: their listings are lists, ordered   *)
(* by time, and their sizes are sums.                                      *)
(***************************************************************************)
EXTENDS Naturals, Sequences, FiniteSetsExt

\* The sum of w over S.
SumOf(w, S) == MapThenSumSet(LAMBDA x : w[x], S)

\* The entries of a list that are in a set, in their order.
Sublist(list, kept) ==
    LET part[n \in 0 .. Len(list)] ==
            IF n = 0 THEN <<>>
            ELSE IF list[n] \in kept THEN Append(part[n - 1], list[n])
            ELSE part[n - 1]
    IN  part[Len(list)]

\* The list with every x taken out.
Without(list, x) == Sublist(list, {list[i] : i \in DOMAIN list} \ {x})
================================================================================
